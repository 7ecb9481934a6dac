-------------------------- MODULE UeScenarioProofs --------------------------
(* Theorems about UeScenario, for any number of sessions, slots and retries. *)
EXTENDS UeScenario, SequenceTheorems, TLAPS

(***************************************************************************)
(* The inductive invariant, in parts.                                      *)
(***************************************************************************)

\* The channel in use was made and is not a closed one.
LinkInv == /\ nrx \in Nat /\ rx \in 0..nrx /\ closed \subseteq 1..nrx
           /\ rx \notin closed

\* A T3580 goroutine in its send holds the mutex, so there is at most one.
RetryInv == /\ nretry \in Nat
            /\ \A r \in retry : /\ r.n \in 1..nretry
                                /\ r.pc = "send" => r.n = lock
            /\ \A q, r \in retry : q.n = r.n => q = r

\* Its channel is open: only a handover closes a channel without the mutex.
OpenInv == \A r \in retry : r.pc = "send" => r.ch \notin closed

\* No message tells the UE to hand over when there are no handovers.
DownTypes == {"authRequest", "badAuthRequest", "authReject", "registrationReject",
              "identityRequest", "securityModeCommand", "registrationAccept", "serviceAccept",
              "configurationUpdate", "sessAccept", "sessReject", "sessRelease"}
             \cup (IF MaxHo = 0 THEN {} ELSE {"handover"})
Messages  == [type : DownTypes, id : Nat]
DownInv   == dl \in Seq(Messages) /\ nho \in Nat

\* The end is the last step of a handler.
Steps       == [op : Ops, arg : MMStates \cup NasTypes \cup {""}, id : Nat]
EndsLast(s) == \A i \in 1..Len(s) : s[i].op = "end" => i = Len(s)
NoEnd(s)    == \A i \in 1..Len(s) : s[i].op # "end"
Registers(x) == x.op = "tell" /\ x.arg = "REGISTERED"
Silent(s)   == \A i \in 1..Len(s) : ~Registers(s[i])
TodoInv     == todo \in Seq(Steps) /\ EndsLast(todo)

\* A UE that has ended has no channel and no sender that uses one.
DeadInv == ~alive => /\ rx = 0 /\ todo = <<>>
                     /\ \A r \in retry : r.pc = "send" => r.ch = 0

\* The message to stop is sent alone; a UE that took it is ending and announces
\* no registration.
Stopping(m) == m.type \in {"Terminate", "Kill"}
OutTypes == {"Registration", "Deregistration", "NewPDUSession", "DestroyPDUSession", "Idle",
             "ServiceRequest", "Terminate", "Kill", "none"}
Requests == [type : OutTypes, id : Nat]
OutInv == /\ out \in Seq(Requests)
          /\ \A i \in 1..Len(out) : Stopping(out[i]) => Len(out) = 1
          /\ ueRxNil => out = <<>>
EndingInv == ueRxNil => /\ Silent(todo)
                        /\ alive => todo # <<>> /\ todo[Len(todo)].op = "end"

-----------------------------------------------------------------------------

\* The actions that touch neither the channels nor the T3580 goroutines.
Quiet == UNCHANGED <<rx, nrx, closed, lock, retry, nretry>>

\* Every step is quiet, or one of those that are not.
LEMMA LoudActions ==
  ASSUME [Next]_vars
  PROVE  \/ Quiet
         \/ UeStep \/ GnbMsgHandler
         \/ \E r \in retry : RetryWake(r) \/ RetrySend(r) \/ RetryCount(r)
<1> USE DEF Quiet, linkVars, retryVars, scnFrame
<1>1. CASE UeMgrHandler
  BY <1>1 DEF UeMgrHandler
<1>2. CASE GnbTxClosed \/ DrxTick \/ VerifyPaging
  BY <1>2 DEF GnbTxClosed, DrxTick, VerifyPaging
<1>3. ASSUME NEW t, NEW m, FireTimer(t, m) PROVE Quiet
  BY <1>3 DEF FireTimer
<1>4. CASE TemplateStop \/ FromTemplate \/ StateChange \/ UeTxClosed
  BY <1>4 DEF TemplateStop, FromTemplate, StateChange, UeTxClosed
<1>5. CASE CoreAnswer \/ CoreOther \/ HandlerPaging \/ GnbHandover \/ GnbRelease
  BY <1>5 DEF CoreAnswer, CoreOther, HandlerPaging, AddPagedUE, GnbHandover, GnbRelease
<1>6. CASE UNCHANGED vars
  BY <1>6 DEF vars
<1> QED
  BY <1>1, <1>2, <1>3, <1>4, <1>5, <1>6 DEF Next

\* What a message of the gNodeB does to the channels and to the T3580 goroutines.
LEMMA DownSplit ==
  ASSUME GnbMsgHandler
  PROVE  /\ \/ Head(dl).type = "handover" /\ HandleHandover
            \/ UNCHANGED <<rx, nrx, closed>> /\ dl' = Tail(dl)
         /\ \/ HandleSessReject(Head(dl).id)
            \/ UNCHANGED <<retry, nretry>>
         /\ lock' = lock /\ alive' = alive /\ alive /\ todo = <<>> /\ dl # <<>>
         /\ UNCHANGED scnVars
<1> DEFINE m == Head(dl)
<1>1. CASE m.type = "sessAccept" /\ HandleSessAccept(m.id)
  BY <1>1 DEF GnbMsgHandler, HandleSessAccept, retryVars
<1>2. CASE m.type # "sessAccept"
  BY <1>2 DEF GnbMsgHandler, retryVars
<1> QED
  BY <1>1, <1>2 DEF GnbMsgHandler

LEMMA LinkStep == LinkInv /\ [Next]_vars => LinkInv'
<1> SUFFICES ASSUME LinkInv, [Next]_vars PROVE LinkInv'
  OBVIOUS
<1>1. CASE Quiet
  BY <1>1 DEF Quiet, LinkInv
<1>2. CASE UeStep
  BY <1>2 DEF UeStep, SendStep, ConnectStep, ReleaseStep, DrxStep, EndStep, LinkInv, linkVars
<1>3. CASE GnbMsgHandler
  <2>1. CASE UNCHANGED <<rx, nrx, closed>>
    BY <2>1 DEF LinkInv
  <2>2. CASE HandleHandover
    BY <2>2 DEF HandleHandover, LinkInv
  <2> QED
    BY <1>3, <2>1, <2>2, DownSplit
<1>4. ASSUME NEW r \in retry, RetryWake(r) \/ RetrySend(r) \/ RetryCount(r) PROVE LinkInv'
  BY <1>4 DEF RetryWake, RetrySend, RetryCount, LinkInv, linkVars
<1> QED
  BY <1>1, <1>2, <1>3, <1>4, LoudActions

LEMMA RetryStep == RetryInv /\ [Next]_vars => RetryInv'
<1> SUFFICES ASSUME RetryInv, [Next]_vars PROVE RetryInv'
  OBVIOUS
<1>1. CASE Quiet
  BY <1>1 DEF Quiet, RetryInv
<1>2. CASE UeStep
  <2>1. UNCHANGED <<retry, nretry, lock>>
    BY <1>2 DEF UeStep, SendStep, ConnectStep, ReleaseStep, DrxStep, EndStep, linkVars, retryVars
  <2> QED
    BY <2>1 DEF RetryInv
<1>3. CASE GnbMsgHandler
  <2>1. lock' = lock
    BY <1>3, DownSplit
  <2>2. CASE UNCHANGED <<retry, nretry>>
    BY <2>1, <2>2 DEF RetryInv
  <2>3. CASE ~UNCHANGED <<retry, nretry>>
    <3> DEFINE p == GetPduSession(Head(dl).id)
               w == [n |-> nretry + 1, p |-> p, pc |-> "sleep", ch |-> 0]
    <3>1. nretry' = nretry + 1 /\ retry' = retry \cup {w}
      BY <1>3, <2>3, DownSplit DEF HandleSessReject, retryVars
    <3> HIDE DEF p
    <3> QED
      BY <2>1, <3>1 DEF RetryInv
  <2> QED
    BY <2>2, <2>3
<1>4. ASSUME NEW r \in retry, RetryWake(r) PROVE RetryInv'
  <2> DEFINE w == [n |-> r.n, p |-> r.p, pc |-> "send", ch |-> rx]
  <2>1. retry' = (retry \ {r}) \cup {w}
    BY <1>4 DEF RetryWake, At
  <2>2. lock = 0 /\ lock' = r.n /\ nretry' = nretry
    BY <1>4 DEF RetryWake
  <2> QED
    BY <2>1, <2>2 DEF RetryInv
<1>5. ASSUME NEW r \in retry, RetrySend(r) PROVE RetryInv'
  <2> DEFINE w == [n |-> r.n, p |-> r.p, pc |-> "count", ch |-> r.ch]
  <2>1. retry' = (retry \ {r}) \cup {w}
    BY <1>5 DEF RetrySend, At
  <2>2. r.n = lock /\ lock' = 0 /\ nretry' = nretry
    BY <1>5 DEF RetrySend, RetryInv
  <2> QED
    BY <2>1, <2>2 DEF RetryInv
<1>6. ASSUME NEW r \in retry, RetryCount(r) PROVE RetryInv'
  BY <1>6 DEF RetryCount, RetryInv, linkVars
<1> QED
  BY <1>1, <1>2, <1>3, <1>4, <1>5, <1>6, LoudActions

-----------------------------------------------------------------------------
(* Without handovers a channel is closed only under the mutex.             *)

LEMMA AppendMessage ==
  ASSUME DownInv, NEW t \in DownTypes, NEW i \in Nat, ToUe(t, i), nho' \in Nat
  PROVE  DownInv'
<1>1. Msg(t, i) \in Messages
  BY DEF Msg, Messages
<1> QED
  BY <1>1, AppendProperties DEF DownInv, ToUe

LEMMA HeadMessage == ASSUME DownInv, dl # <<>>
                     PROVE  Head(dl) \in Messages /\ Tail(dl) \in Seq(Messages)
  BY HeadTailProperties DEF DownInv
LEMMA NoHandover == ASSUME MaxHo = 0, DownInv, dl # <<>> PROVE Head(dl).type # "handover"
  BY HeadMessage DEF Messages, DownTypes

LEMMA DownStep ==
  ASSUME DownInv, [Next]_vars PROVE DownInv'
<1> USE DEF boundVars
<1>1. CASE UNCHANGED <<dl, nho>>
  BY <1>1 DEF DownInv
<1>2. CASE CoreAnswer
  <2>1. \E t \in DownTypes, i \in Nat : ToUe(t, i)
    <3>1. {"authRequest", "securityModeCommand", "serviceAccept", "sessAccept",
           "sessRelease", "registrationAccept"} \subseteq DownTypes
      BY DEF DownTypes
    <3>2. 0 \in Nat /\ 1 \in Nat /\ Slot \subseteq Nat
      BY DEF Slot
    <3>3. CASE \E g \in Gutis : ToUe("registrationAccept", IF g THEN 1 ELSE 0)
      BY <3>1, <3>2, <3>3
    <3> QED
      BY <1>2, <3>1, <3>2, <3>3 DEF CoreAnswer
  <2>2. nho' \in Nat
    BY <1>2 DEF CoreAnswer, DownInv
  <2> QED
    BY <2>1, <2>2, AppendMessage
<1>3. CASE CoreOther
  <2>1. \E t \in DownTypes, i \in Nat : ToUe(t, i)
    <3>1. {"authReject", "registrationReject", "badAuthRequest", "sessReject", "sessRelease",
           "authRequest", "configurationUpdate", "identityRequest"} \subseteq DownTypes
      BY DEF DownTypes
    <3>2. 0 \in Nat /\ Slot \subseteq Nat
      BY DEF Slot
    <3>3. CASE \E i \in Slot : ToUe(IF csess[i] = "asked" THEN "sessReject" ELSE "sessRelease", i)
      BY <3>1, <3>2, <3>3
    <3> QED
      BY <1>3, <3>1, <3>2, <3>3 DEF CoreOther
  <2>2. nho' \in Nat
    BY <1>3 DEF CoreOther, DownInv
  <2> QED
    BY <2>1, <2>2, AppendMessage
<1>4. CASE GnbHandover
  <2>1. "handover" \in DownTypes /\ ToUe("handover", 0) /\ nho' \in Nat
    BY <1>4, ConstAssumption DEF GnbHandover, DownInv, DownTypes
  <2> QED
    BY <2>1, AppendMessage
<1>5. CASE GnbMsgHandler
  <2>1. nho' = nho
    BY <1>5 DEF GnbMsgHandler, coreVars
  <2>2. dl # <<>> /\ (dl' = Tail(dl) \/ dl' = <<>>)
    BY <1>5, DownSplit DEF HandleHandover
  <2> QED
    BY <2>1, <2>2, HeadMessage, EmptySeq DEF DownInv
<1>6. CASE UeStep
  <2>1. nho' = nho /\ (UNCHANGED dl \/ dl' = <<>>)
    BY <1>6 DEF UeStep, SendStep, ConnectStep, ReleaseStep, DrxStep, EndStep, Uplink, coreVars
  <2>2. CASE dl' = <<>>
    BY <2>1, <2>2, EmptySeq DEF DownInv
  <2> QED
    BY <1>1, <2>1, <2>2
<1>7. CASE UeMgrHandler \/ GnbTxClosed \/ DrxTick \/ VerifyPaging \/ HandlerPaging \/ GnbRelease
  BY <1>1, <1>7 DEF UeMgrHandler, GnbTxClosed, DrxTick, VerifyPaging, HandlerPaging, AddPagedUE, GnbRelease, coreVars
<1>8. CASE TemplateStop \/ FromTemplate \/ StateChange \/ UeTxClosed
  BY <1>1, <1>8 DEF TemplateStop, FromTemplate, StateChange, UeTxClosed, scnFrame, coreVars
<1>9. ASSUME NEW t, NEW m, FireTimer(t, m) PROVE DownInv'
  BY <1>1, <1>9 DEF FireTimer, scnFrame, coreVars
<1>10. ASSUME NEW r \in retry, RetryWake(r) \/ RetrySend(r) \/ RetryCount(r) PROVE DownInv'
  <2>1. UNCHANGED <<dl, nho>>
    BY <1>10 DEF RetryWake, RetrySend, RetryCount, Uplink, coreVars
  <2> QED
    BY <1>1, <2>1
<1>11. CASE UNCHANGED vars
  BY <1>1, <1>11 DEF vars, coreVars
<1> QED
  BY <1>2, <1>3, <1>4, <1>5, <1>6, <1>7, <1>8, <1>9, <1>10, <1>11 DEF Next

LEMMA OpenStep ==
  ASSUME MaxHo = 0, LinkInv, RetryInv, DownInv, OpenInv, [Next]_vars PROVE OpenInv'
<1>1. CASE Quiet
  BY <1>1 DEF Quiet, OpenInv
<1>2. CASE UeStep
  <2>1. retry' = retry /\ (closed' = closed \/ lock = 0)
    BY <1>2 DEF UeStep, SendStep, ConnectStep, ReleaseStep, DrxStep, EndStep, linkVars, retryVars
  <2> QED
    BY <2>1 DEF OpenInv, RetryInv
<1>3. CASE GnbMsgHandler
  <2>2. closed' = closed
    BY <1>3, DownSplit, NoHandover
  <2>3. \A r \in retry' : r.pc = "send" => r \in retry
    BY <1>3, DownSplit DEF HandleSessReject, retryVars
  <2> QED
    BY <2>2, <2>3 DEF OpenInv
<1>4. ASSUME NEW r \in retry, RetryWake(r) \/ RetrySend(r) \/ RetryCount(r) PROVE OpenInv'
  BY <1>4 DEF RetryWake, RetrySend, RetryCount, At, OpenInv, LinkInv, linkVars
<1> QED
  BY <1>1, <1>2, <1>3, <1>4, LoudActions

\* A closed channel is used by none of the steps that send.
LEMMA FateStep ==
  ASSUME LinkInv, OpenInv, NoClosedSend, [Next]_vars PROVE NoClosedSend'
<1> USE DEF NoClosedSend, LinkInv
<1>1. CASE UeMgrHandler
  BY <1>1 DEF UeMgrHandler, Handler, InitPduSessionRequest, NewSession
<1>2. CASE UeStep
  BY <1>2 DEF UeStep, SendStep, ConnectStep, ReleaseStep, DrxStep, EndStep
<1>3. CASE GnbMsgHandler
  BY <1>3 DEF GnbMsgHandler, HandleSessAccept, HandleSessReject
<1>4. ASSUME NEW r \in retry, RetryWake(r) \/ RetrySend(r) \/ RetryCount(r) PROVE NoClosedSend'
  BY <1>4 DEF RetryWake, RetrySend, RetryCount, OpenInv
<1>5. CASE GnbTxClosed \/ DrxTick \/ VerifyPaging
  BY <1>5 DEF GnbTxClosed, DrxTick, VerifyPaging
<1>6. ASSUME NEW t, NEW m, FireTimer(t, m) PROVE NoClosedSend'
  BY <1>6 DEF FireTimer, scnFrame
<1>7. CASE TemplateStop \/ FromTemplate \/ StateChange \/ UeTxClosed
  BY <1>7 DEF TemplateStop, FromTemplate, StateChange, UeTxClosed, scnFrame
<1>8. CASE CoreAnswer \/ CoreOther \/ HandlerPaging \/ GnbHandover \/ GnbRelease
  BY <1>8 DEF CoreAnswer, CoreOther, HandlerPaging, AddPagedUE, GnbHandover, GnbRelease
<1>9. CASE UNCHANGED vars
  BY <1>9 DEF vars
<1> QED
  BY <1>1, <1>2, <1>3, <1>4, <1>5, <1>6, <1>7, <1>8, <1>9 DEF Next

\* Without handovers no goroutine of the UE ever sends on a closed channel,
\* however many sessions are rejected, retried and released while it stops: the
\* mutex of SendToGnbMsg and Terminate is enough.
THEOREM NoClosedSendProved == MaxHo = 0 => (Spec => []NoClosedSend)
<1> SUFFICES ASSUME MaxHo = 0 PROVE Spec => []NoClosedSend
  OBVIOUS
<1> DEFINE I == LinkInv /\ RetryInv /\ DownInv /\ OpenInv /\ NoClosedSend
<1>1. Init => I
  BY DEF Init, LinkInv, RetryInv, DownInv, OpenInv, NoClosedSend
<1>2. I /\ [Next]_vars => I'
  BY LinkStep, RetryStep, DownStep, OpenStep, FateStep
<1> QED
  BY <1>1, <1>2, PTL DEF Spec

-----------------------------------------------------------------------------
(* The steps of a handler: its end, if it has one, is the last.            *)

LEMMA TailSteps ==
  ASSUME NEW s \in Seq(Steps), s # <<>>
  PROVE  /\ Head(s) = s[1] /\ Head(s) \in Steps /\ Tail(s) \in Seq(Steps)
         /\ Len(s) \in Nat \ {0} /\ Len(Tail(s)) = Len(s) - 1
         /\ \A i \in 1..Len(Tail(s)) : i + 1 \in 1..Len(s) /\ Tail(s)[i] = s[i + 1]
         /\ EndsLast(s) => EndsLast(Tail(s))
         /\ Silent(s) => Silent(Tail(s))
<1>1. Len(s) \in Nat \ {0} /\ Len(Tail(s)) = Len(s) - 1
      /\ \A i \in 1..Len(Tail(s)) : i + 1 \in 1..Len(s) /\ Tail(s)[i] = s[i + 1]
  BY HeadTailProperties, LenProperties, EmptySeq
<1>2. Head(s) = s[1] /\ Head(s) \in Steps /\ Tail(s) \in Seq(Steps)
  BY HeadTailProperties
<1>3. EndsLast(s) => EndsLast(Tail(s))
  <2>1. ASSUME EndsLast(s), NEW i \in 1..Len(Tail(s)), Tail(s)[i].op = "end"
        PROVE  i = Len(Tail(s))
    <3>1. i + 1 \in 1..Len(s) /\ s[i + 1].op = "end"
      BY <1>1, <2>1
    <3>2. i + 1 = Len(s)
      BY <2>1, <3>1 DEF EndsLast
    <3>3. i \in Nat /\ Len(s) \in Nat /\ Len(Tail(s)) = Len(s) - 1
      BY <1>1
    <3> QED
      BY <3>2, <3>3
  <2> QED
    BY <2>1 DEF EndsLast
<1>4. Silent(s) => Silent(Tail(s))
  BY <1>1 DEF Silent
<1> QED
  BY <1>1, <1>2, <1>3, <1>4

LEMMA ConcatSteps ==
  ASSUME NEW s \in Seq(Steps), NEW t \in Seq(Steps)
  PROVE  /\ s \o t \in Seq(Steps)
         /\ NoEnd(s) /\ EndsLast(t) => EndsLast(s \o t)
         /\ NoEnd(s) /\ NoEnd(t) => NoEnd(s \o t)
         /\ Silent(s) /\ Silent(t) => Silent(s \o t)
         /\ t # <<>> => s \o t # <<>> /\ (s \o t)[Len(s \o t)] = t[Len(t)]
<1> DEFINE u == s \o t
<1>1. u \in Seq(Steps) /\ Len(u) = Len(s) + Len(t) /\ Len(s) \in Nat /\ Len(t) \in Nat
      /\ \A i \in 1..Len(u) : u[i] = IF i <= Len(s) THEN s[i] ELSE t[i - Len(s)]
  BY ConcatProperties, LenProperties
<1>2. \A i \in 1..Len(u) : \/ i \in 1..Len(s) /\ u[i] = s[i]
                           \/ i - Len(s) \in 1..Len(t) /\ u[i] = t[i - Len(s)]
  BY <1>1
<1> HIDE DEF u
<1>3. NoEnd(s) /\ EndsLast(t) => EndsLast(u)
  <2>1. ASSUME NoEnd(s), EndsLast(t), NEW i \in 1..Len(u), u[i].op = "end" PROVE i = Len(u)
    <3>1. i - Len(s) \in 1..Len(t) /\ t[i - Len(s)].op = "end"
      BY <1>2, <2>1 DEF NoEnd
    <3>2. i - Len(s) = Len(t)
      BY <2>1, <3>1 DEF EndsLast
    <3> QED
      BY <1>1, <3>2
  <2> QED
    BY <2>1 DEF EndsLast
<1>4. NoEnd(s) /\ NoEnd(t) => NoEnd(u)
  BY <1>2 DEF NoEnd
<1>5. Silent(s) /\ Silent(t) => Silent(u)
  BY <1>2 DEF Silent
<1>6. t # <<>> => Len(t) > 0
  BY <1>1, EmptySeq
<1>7. t # <<>> => u # <<>> /\ u[Len(u)] = t[Len(t)]
  BY <1>1, <1>6
<1> QED
  BY <1>1, <1>3, <1>4, <1>5, <1>7 DEF u

LEMMA NoEndEndsLast == ASSUME NEW s, NoEnd(s) PROVE EndsLast(s)
  BY DEF NoEnd, EndsLast

\* What a single step is.
LEMMA StepTypes ==
  /\ \A m \in NasTypes : Send(m) \in Steps /\ Send(m).op # "end" /\ ~Registers(Send(m))
  /\ \A m \in NasTypes, i \in Nat : SendS(m, i) \in Steps /\ SendS(m, i).op # "end"
  /\ \A a \in MMStates : Tell(a) \in Steps /\ Tell(a).op # "end"
                          /\ (a # "REGISTERED" => ~Registers(Tell(a)))
  /\ \A i \in Nat : Release(i) \in Steps /\ Release(i).op # "end" /\ ~Registers(Release(i))
  /\ InitConn \in Steps /\ InitConn.op # "end"
  /\ CreateDRX \in Steps /\ CreateDRX.op # "end"
  /\ Terminate \in Steps /\ Terminate.op = "end" /\ ~Registers(Terminate)
<1> USE DEF Steps, Ops, Step, Registers
<1>1. \A m \in NasTypes : Send(m) \in Steps /\ Send(m).op # "end" /\ ~Registers(Send(m))
  BY DEF Send, Tell
<1>2. \A m \in NasTypes, i \in Nat : SendS(m, i) \in Steps /\ SendS(m, i).op # "end"
  BY DEF SendS
<1>3. \A a \in MMStates : Tell(a) \in Steps /\ Tell(a).op # "end"
                          /\ (a # "REGISTERED" => ~Registers(Tell(a)))
  BY DEF Tell
<1>4. \A i \in Nat : Release(i) \in Steps /\ Release(i).op # "end" /\ ~Registers(Release(i))
  BY DEF Release, Tell
<1>5. InitConn \in Steps /\ InitConn.op # "end" /\ CreateDRX \in Steps /\ CreateDRX.op # "end"
  BY DEF InitConn, CreateDRX
<1>6. Terminate \in Steps /\ Terminate.op = "end" /\ ~Registers(Terminate)
  BY DEF Terminate, Tell
<1> QED
  BY <1>1, <1>2, <1>3, <1>4, <1>5, <1>6

\* Handlers of one and of two steps.
LEMMA ShortHandler ==
  ASSUME NEW a \in Steps, NEW b \in Steps
  PROVE  /\ <<a>> \in Seq(Steps) /\ EndsLast(<<a>>) /\ <<a, b>> \in Seq(Steps)
         /\ a.op # "end" => NoEnd(<<a>>)
         /\ a.op # "end" /\ b.op # "end" => NoEnd(<<a, b>>)
         /\ ~Registers(a) => Silent(<<a>>)
         /\ ~Registers(a) /\ ~Registers(b) => Silent(<<a, b>>)
<1>1. <<a>> \in Seq(Steps) /\ Len(<<a>>) = 1 /\ <<a>>[1] = a
  OBVIOUS
<1>2. <<a, b>> \in Seq(Steps) /\ Len(<<a, b>>) = 2 /\ <<a, b>>[1] = a /\ <<a, b>>[2] = b
  OBVIOUS
<1>3. \A i \in 1..1 : i = 1
  OBVIOUS
<1>4. \A i \in 1..2 : i = 1 \/ i = 2
  OBVIOUS
<1> QED
  BY <1>1, <1>2, <1>3, <1>4 DEF EndsLast, NoEnd, Silent

LEMMA TriggerSteps ==
  /\ InitRegistration \in Seq(Steps) /\ NoEnd(InitRegistration)
  /\ InitDeregistration \in Seq(Steps) /\ NoEnd(InitDeregistration) /\ Silent(InitDeregistration)
  /\ ServiceSteps \in Seq(Steps) /\ NoEnd(ServiceSteps)
  /\ LET idle == <<Tell("IDLE")>> \o SwitchToIdle \o <<CreateDRX>>
     IN  idle \in Seq(Steps) /\ NoEnd(idle)
<1>0. {"regReq", "deregReq", "serviceReq", "idle"} \subseteq NasTypes
      /\ {"DEREGISTERED", "IDLE"} \subseteq MMStates
  BY DEF NasTypes, MMStates
<1>1. InitRegistration \in Seq(Steps) /\ NoEnd(InitRegistration)
  BY <1>0, StepTypes, ShortHandler DEF InitRegistration
<1>2. InitDeregistration \in Seq(Steps) /\ NoEnd(InitDeregistration) /\ Silent(InitDeregistration)
  BY <1>0, StepTypes, ShortHandler DEF InitDeregistration
<1>3. InitServiceRequest \in Seq(Steps) /\ NoEnd(InitServiceRequest)
  BY <1>0, StepTypes, ShortHandler DEF InitServiceRequest
<1>4. SwitchToIdle \in Seq(Steps) /\ NoEnd(SwitchToIdle)
  BY <1>0, StepTypes, ShortHandler DEF SwitchToIdle
<1>5. <<InitConn>> \in Seq(Steps) /\ NoEnd(<<InitConn>>)
      /\ <<CreateDRX>> \in Seq(Steps) /\ NoEnd(<<CreateDRX>>)
      /\ <<Tell("IDLE")>> \in Seq(Steps) /\ NoEnd(<<Tell("IDLE")>>)
  BY <1>0, StepTypes, ShortHandler
<1>6. ServiceSteps \in Seq(Steps) /\ NoEnd(ServiceSteps)
  BY <1>1, <1>3, <1>5, ConcatSteps DEF ServiceSteps
<1>7. <<Tell("IDLE")>> \o SwitchToIdle \in Seq(Steps) /\ NoEnd(<<Tell("IDLE")>> \o SwitchToIdle)
  BY <1>4, <1>5, ConcatSteps
<1>8. LET idle == <<Tell("IDLE")>> \o SwitchToIdle \o <<CreateDRX>>
      IN  idle \in Seq(Steps) /\ NoEnd(idle)
  BY <1>5, <1>7, ConcatSteps
<1> QED
  BY <1>1, <1>2, <1>6, <1>8

\* A UE told to stop announces no registration and its last step is the end.
LEMMA StopSteps ==
  ASSUME NEW s \in {<<Terminate>>, TerminateSteps}
  PROVE  s \in Seq(Steps) /\ EndsLast(s) /\ Silent(s) /\ s # <<>> /\ s[Len(s)].op = "end"
<1> DEFINE e == <<Terminate>>
           rel == [i \in 1..NSlot |-> Release(i)]
<1>1. e \in Seq(Steps) /\ EndsLast(e) /\ Silent(e) /\ e # <<>> /\ e[Len(e)].op = "end"
  BY StepTypes, ShortHandler
<1>2. rel \in Seq(Steps) /\ NoEnd(rel) /\ Silent(rel)
  <2>1. NSlot \in Nat
    BY ConstAssumption
  <2>2. rel \in [1..NSlot -> Steps]
    BY StepTypes
  <2>3. rel \in Seq(Steps) /\ Len(rel) = NSlot
    BY <2>1, <2>2, IsASeq
  <2>4. \A i \in 1..NSlot : rel[i].op # "end" /\ ~Registers(rel[i])
    BY <2>1, StepTypes
  <2> QED
    BY <2>3, <2>4 DEF NoEnd, Silent
<1> DEFINE r == rel \o InitDeregistration
<1> HIDE DEF rel, e
<1>3. r \in Seq(Steps) /\ NoEnd(r) /\ Silent(r)
  BY <1>2, TriggerSteps, ConcatSteps
<1> HIDE DEF r
<1>4. r \o e \in Seq(Steps) /\ EndsLast(r \o e) /\ Silent(r \o e) /\ r \o e # <<>>
      /\ (r \o e)[Len(r \o e)].op = "end"
  BY <1>1, <1>3, ConcatSteps
<1>5. s = e \/ s = r \o e
  BY DEF TerminateSteps, r, rel, e
<1> QED
  BY <1>1, <1>4, <1>5

LEMMA NasSteps ==
  ASSUME NEW t PROVE DispatchNas(t) \in Seq(Steps) /\ NoEnd(DispatchNas(t))
<1>1. {"authResponse", "authFailure", "identityResponse", "smComplete", "regComplete",
       "configComplete"} \subseteq NasTypes
      /\ {"DEREGISTERED", "REGISTERED_INITIATED", "REGISTERED"} \subseteq MMStates
  BY DEF NasTypes, MMStates
<1>2. \A m \in NasTypes : <<Send(m)>> \in Seq(Steps) /\ NoEnd(<<Send(m)>>)
  BY StepTypes, ShortHandler
<1>3. \A a \in MMStates : <<Tell(a)>> \in Seq(Steps) /\ NoEnd(<<Tell(a)>>)
  BY StepTypes, ShortHandler
<1>4. \A a \in MMStates, m \in NasTypes :
         <<Tell(a), Send(m)>> \in Seq(Steps) /\ NoEnd(<<Tell(a), Send(m)>>)
  BY StepTypes, ShortHandler
<1>5. <<>> \in Seq(Steps) /\ NoEnd(<<>>)
  BY EmptySeq DEF NoEnd
<1> QED
  BY <1>1, <1>2, <1>3, <1>4, <1>5
  DEF DispatchNas, HandlerAuthenticationRequest, HandlerAuthenticationReject,
      HandlerIdentityRequest, HandlerSecurityModeCommand, HandlerRegistrationAccept,
      HandlerConfigurationUpdateCommand, HandlerServiceAccept

-----------------------------------------------------------------------------
(* A UE that stops.                                                        *)

StopInv == TodoInv /\ OutInv /\ EndingInv
IInv == LinkInv /\ RetryInv /\ DownInv /\ StopInv /\ DeadInv

\* What matters of a step to the two goroutines: the UE alone goes on, the
\* scenario alone does, or neither.
uePart  == <<todo, alive>>
outPart == <<out, ueRxNil>>

LEMMA StopUnchanged == ASSUME StopInv, UNCHANGED <<uePart, outPart>> PROVE StopInv'
  BY DEF StopInv, TodoInv, OutInv, EndingInv, uePart, outPart

\* The UE, not stopping, starts a handler.
LEMMA StartHandler ==
  ASSUME StopInv, ~ueRxNil, UNCHANGED outPart, todo' \in Seq(Steps), EndsLast(todo')
  PROVE  StopInv'
  BY DEF StopInv, TodoInv, OutInv, EndingInv, outPart

\* The scenario alone changes what it sends.
LEMMA NewOut ==
  ASSUME StopInv, UNCHANGED <<uePart, ueRxNil>>, out' \in Seq(Requests),
         Len(out') = 1 \/ \A i \in 1..Len(out') : ~Stopping(out'[i]),
         ueRxNil => out' = <<>>
  PROVE  StopInv'
  BY DEF StopInv, TodoInv, OutInv, EndingInv, uePart

LEMMA OneRequestSeq ==
  ASSUME NEW t \in OutTypes PROVE <<Msg(t, 0)>> \in Seq(Requests) /\ Len(<<Msg(t, 0)>>) = 1
  BY DEF Msg, Requests

LEMMA ManagerStop == ASSUME StopInv, UeMgrHandler PROVE StopInv'
<1> DEFINE m == Head(out)
<1>0. out # <<>> /\ todo = <<>> /\ ~ueRxNil /\ alive /\ alive' = alive /\ out' = Tail(out)
      /\ ueRxNil' = Stopping(m) /\ Handler(m)
  BY DEF UeMgrHandler, Stopping
<1>1. m \in Requests /\ out' \in Seq(Requests) /\ m = out[1] /\ Len(out) \in Nat \ {0}
      /\ Len(out') = Len(out) - 1 /\ \A i \in 1..Len(out') : i + 1 \in 1..Len(out) /\ out'[i] = out[i + 1]
  BY <1>0, HeadTailProperties, LenProperties, EmptySeq DEF StopInv, OutInv
<1>2. Stopping(m) => out' = <<>>
  <2>1. Stopping(m) => Len(out') = 0
    BY <1>1 DEF StopInv, OutInv
  <2> QED
    BY <1>1, <2>1, EmptySeq
<1>3. OutInv'
  <2>1. \A i \in 1..Len(out') : Stopping(out'[i]) => Len(out') = 1
    BY <1>1 DEF StopInv, OutInv
  <2> QED
    BY <1>0, <1>1, <1>2, <2>1 DEF OutInv, Stopping
<1> HIDE DEF m
<1>4. \/ todo' \in Seq(Steps) /\ EndsLast(todo') /\ ~Stopping(m)
      \/ todo' \in {<<Terminate>>, TerminateSteps}
  <2>1. \A s : NoEnd(s) => EndsLast(s)
    BY NoEndEndsLast
  <2>2. <<>> \in Seq(Steps) /\ EndsLast(<<>>)
    BY EmptySeq DEF EndsLast
  <2>3. m.id \in Nat
    BY <1>1 DEF Requests
  <2>4. <<Release(m.id)>> \in Seq(Steps) /\ EndsLast(<<Release(m.id)>>)
    BY <2>3, StepTypes, ShortHandler
  <2>5. ASSUME NEW i \in Slot PROVE <<SendS("sessReq", i)>> \in Seq(Steps) /\ EndsLast(<<SendS("sessReq", i)>>)
    <3>1. "sessReq" \in NasTypes /\ i \in Nat
      BY DEF NasTypes, Slot
    <3> QED
      BY <3>1, StepTypes, ShortHandler
  <2>6. CASE m.type = "NewPDUSession" /\ InitPduSessionRequest
    <3>1. todo' = todo \/ \E i \in Slot : todo' = <<SendS("sessReq", i)>>
      BY <2>6 DEF InitPduSessionRequest, NewSession, FreeSlots
    <3> QED
      BY <1>0, <2>2, <2>5, <2>6, <3>1 DEF Stopping
  <2>7. CASE m.type = "ServiceRequest" /\ ServiceRequest
    BY <1>0, <2>1, <2>2, <2>7, TriggerSteps DEF ServiceRequest, Stopping
  <2>8. CASE m.type = "DestroyPDUSession" /\ (todo' = <<>> \/ todo' = <<Release(m.id)>>)
    BY <2>2, <2>4, <2>8 DEF Stopping
  <2>9. CASE m.type \in {"Registration", "Deregistration", "Idle"}
             /\ todo' \in {InitRegistration, InitDeregistration,
                           <<Tell("IDLE")>> \o SwitchToIdle \o <<CreateDRX>>}
    BY <2>1, <2>9, TriggerSteps DEF Stopping
  <2> QED
    BY <1>0, <2>6, <2>7, <2>8, <2>9 DEF Handler
<1>5. CASE todo' \in {<<Terminate>>, TerminateSteps}
  BY <1>3, <1>5, StopSteps DEF StopInv, TodoInv, EndingInv
<1>6. CASE todo' \in Seq(Steps) /\ EndsLast(todo') /\ ~Stopping(m)
  BY <1>0, <1>3, <1>6 DEF StopInv, TodoInv, EndingInv
<1> QED
  BY <1>4, <1>5, <1>6

\* A step that is not the end leaves the end to come.
LEMMA LastStays ==
  ASSUME NEW s \in Seq(Steps), s # <<>>, Head(s).op # "end", s[Len(s)].op = "end"
  PROVE  Tail(s) # <<>> /\ Tail(s)[Len(Tail(s))].op = "end"
<1>0. Len(s) \in Nat \ {0} /\ Len(Tail(s)) = Len(s) - 1 /\ s[1].op # "end"
  BY TailSteps
<1>1. Len(s) \in Nat /\ Len(s) > 1 /\ Len(Tail(s)) = Len(s) - 1
  BY <1>0
<1>2. Len(Tail(s)) \in 1..Len(Tail(s)) /\ Len(Tail(s)) + 1 = Len(s)
  BY <1>1
<1>3. Tail(s)[Len(Tail(s))] = s[Len(s)]
  BY <1>2, TailSteps
<1> QED
  <2>1. Tail(s) # <<>>
    <3>1. Len(Tail(s)) # 0
      BY <1>1
    <3> QED
      BY <3>1, EmptySeq, TailSteps, Zenon
  <2> QED
    BY <1>3, <2>1, Zenon

LEMMA TellsRegistered ==
  ASSUME NEW s \in Seq(Steps), s # <<>>, Silent(s)
  PROVE  ~(Head(s).op = "tell" /\ Head(s).arg = "REGISTERED")
<1>1. Len(s) \in Nat \ {0} /\ Head(s) = s[1]
  BY TailSteps
<1>2. 1 \in 1..Len(s)
  BY <1>1
<1> QED
  BY <1>1, <1>2 DEF Silent, Registers

LEMMA StepStop == ASSUME StopInv, UeStep PROVE StopInv'
<1>1. todo # <<>> /\ todo' = Tail(todo) /\ UNCHANGED outPart
      /\ (Head(todo).op = "end" \/ alive' = alive)
  BY DEF UeStep, SendStep, ConnectStep, ReleaseStep, DrxStep, EndStep, scnVars, outPart
<1>2. TodoInv' /\ OutInv' /\ (ueRxNil => Silent(todo'))
  BY <1>1, TailSteps DEF StopInv, TodoInv, OutInv, EndingInv, outPart
<1>3. CASE Head(todo).op = "end"
  <2>2. alive' = FALSE
    BY <1>3 DEF UeStep, EndStep
  <2> QED
    BY <1>1, <1>2, <2>2 DEF StopInv, EndingInv, outPart
<1>4. CASE Head(todo).op # "end"
  <2>1. ASSUME ueRxNil, alive PROVE todo' # <<>> /\ todo'[Len(todo')].op = "end"
    BY <1>1, <1>4, <2>1, LastStays DEF StopInv, TodoInv, EndingInv
  <2> QED
    BY <1>1, <1>2, <1>4, <2>1 DEF StopInv, EndingInv, outPart
<1> QED
  BY <1>3, <1>4

LEMMA StateStop == ASSUME StopInv, StateChange PROVE StopInv'
<1> DEFINE news == [i \in 1..NumPdu |-> Msg("NewPDUSession", 0)]
<1>1. todo # <<>> /\ todo' = Tail(todo) /\ alive' = alive /\ ueRxNil' = ueRxNil
      /\ Head(todo).op = "tell" /\ out = <<>>
      /\ (out' = <<>> \/ (out' = news /\ Head(todo).arg = "REGISTERED"))
  <2>1. todo # <<>> /\ todo' = Tail(todo) /\ alive' = alive /\ ueRxNil' = ueRxNil
        /\ Head(todo).op = "tell" /\ out = <<>>
    BY DEF StateChange, InSelect
  <2>2. out' = IF Head(todo).arg = "REGISTERED" /\ ~registered THEN news ELSE <<>>
    BY Zenon DEF StateChange
  <2> HIDE DEF news
  <2>3. CASE Head(todo).arg = "REGISTERED" /\ ~registered
    BY <2>1, <2>2, <2>3, Zenon
  <2>4. CASE ~(Head(todo).arg = "REGISTERED" /\ ~registered)
    <3>1. out' = <<>>
      BY <2>2, <2>4
    <3> QED
      BY <2>1, <3>1
  <2> QED
    BY <2>3, <2>4, Zenon
<1>2. TodoInv' /\ (ueRxNil => Silent(todo'))
  BY <1>1, TailSteps DEF StopInv, TodoInv, EndingInv
<1>3. ASSUME ueRxNil, alive PROVE todo' # <<>> /\ todo'[Len(todo')].op = "end"
  BY <1>1, <1>3, LastStays DEF StopInv, TodoInv, EndingInv
<1>4. news \in Seq(Requests) /\ \A i \in 1..Len(news) : ~Stopping(news[i])
  <2>1. NumPdu \in Nat /\ Msg("NewPDUSession", 0) \in Requests /\ ~Stopping(Msg("NewPDUSession", 0))
    BY ConstAssumption DEF Msg, Requests, OutTypes, Stopping
  <2>2. news \in [1..NumPdu -> Requests] /\ \A i \in 1..NumPdu : news[i] = Msg("NewPDUSession", 0)
    BY <2>1
  <2>3. news \in Seq(Requests) /\ Len(news) = NumPdu
    BY <2>1, <2>2, IsASeq
  <2> QED
    BY <2>1, <2>2, <2>3
<1> HIDE DEF news
<1>5. ueRxNil => out' = <<>>
  <2>1. ASSUME ueRxNil PROVE ~(Head(todo).op = "tell" /\ Head(todo).arg = "REGISTERED")
    BY <1>1, <2>1, TellsRegistered DEF StopInv, TodoInv, EndingInv
  <2> QED
    BY <1>1, <2>1
<1>6. OutInv'
  <2>1. <<>> \in Seq(Requests) /\ Len(<<>>) = 0
    BY EmptySeq
  <2>2. CASE out' = <<>>
    BY <2>1, <2>2 DEF OutInv
  <2>3. CASE out' = news
    BY <1>1, <1>4, <1>5, <2>3 DEF OutInv
  <2> QED
    BY <1>1, <2>2, <2>3
<1> QED
  BY <1>1, <1>2, <1>3, <1>6 DEF StopInv, EndingInv

LEMMA StopStep == ASSUME StopInv, DownInv, [Next]_vars PROVE StopInv'
<1> USE DEF uePart, outPart
<1>1. CASE UeMgrHandler
  BY <1>1, ManagerStop
<1>2. CASE UeStep
  BY <1>2, StepStop
<1>3. CASE StateChange
  BY <1>3, StateStop
<1>4. CASE GnbMsgHandler
  <2>1. UNCHANGED <<alive, outPart>> /\ alive /\ todo = <<>> /\ dl # <<>>
    BY <1>4 DEF GnbMsgHandler, scnVars
  <2>2. ~ueRxNil
    BY <2>1 DEF StopInv, EndingInv
  <2>3. todo' \in Seq(Steps) /\ EndsLast(todo')
    <3> DEFINE m == Head(dl)
    <3>1. m.id \in Nat
      BY <2>1, HeadMessage DEF Messages
    <3>2. <<SendS("sessRelComplete", m.id)>> \in Seq(Steps)
          /\ EndsLast(<<SendS("sessRelComplete", m.id)>>)
      <4>1. "sessRelComplete" \in NasTypes
        BY DEF NasTypes
      <4> QED
        BY <3>1, <4>1, StepTypes, ShortHandler
    <3>3. <<>> \in Seq(Steps) /\ EndsLast(<<>>)
      BY EmptySeq DEF EndsLast
    <3>4. \/ todo' \in {todo, <<>>, <<SendS("sessRelComplete", m.id)>>}
          \/ todo' = DispatchNas(m.type)
      <4>1. CASE DeletePduSession(m.id)
        BY <4>1 DEF DeletePduSession
      <4>2. CASE HandleSessAccept(m.id) \/ HandleSessReject(m.id)
        BY <4>2 DEF HandleSessAccept, HandleSessReject
      <4> QED
        BY <1>4, <4>1, <4>2 DEF GnbMsgHandler
    <3>5. CASE todo' = DispatchNas(m.type)
      BY <3>5, NasSteps, NoEndEndsLast
    <3> QED
      BY <2>1, <3>2, <3>3, <3>4, <3>5
  <2> QED
    BY <2>1, <2>2, <2>3, StartHandler
<1>5. CASE VerifyPaging
  <2>1. UNCHANGED <<alive, outPart>> /\ alive /\ todo = <<>> /\ (todo' = todo \/ todo' = ServiceSteps)
    BY <1>5 DEF VerifyPaging, ServiceRequest, scnVars
  <2>2. ~ueRxNil
    BY <2>1 DEF StopInv, EndingInv
  <2>3. todo' \in Seq(Steps) /\ EndsLast(todo')
    BY <2>1, TriggerSteps, NoEndEndsLast DEF StopInv, TodoInv
  <2> QED
    BY <2>1, <2>2, <2>3, StartHandler
<1>6. ASSUME NEW t, NEW m \in OutTypes, FireTimer(t, m) PROVE StopInv'
  <2>1. UNCHANGED <<uePart, ueRxNil>> /\ out' = IF ueRxNil THEN <<>> ELSE <<Msg(m, 0)>>
    BY <1>6 DEF FireTimer, scnFrame, ueVars
  <2> QED
    BY <2>1, NewOut, OneRequestSeq, EmptySeq
<1>7. CASE FromTemplate
  <2>1. UNCHANGED <<uePart, ueRxNil>> /\ out' = IF ueRxNil THEN <<>> ELSE <<Msg(Stop, 0)>>
    BY <1>7 DEF FromTemplate, scnFrame, ueVars
  <2>2. Stop \in OutTypes
    BY ConstAssumption DEF OutTypes
  <2> QED
    BY <2>1, <2>2, NewOut, OneRequestSeq, EmptySeq
<1>8. CASE TemplateStop \/ UeTxClosed
  BY <1>8, StopUnchanged DEF TemplateStop, UeTxClosed, scnFrame, ueVars
<1>9. CASE GnbTxClosed \/ DrxTick
  BY <1>9, StopUnchanged DEF GnbTxClosed, DrxTick, scnVars, ueVars
<1>10. CASE CoreAnswer \/ CoreOther \/ HandlerPaging \/ GnbHandover \/ GnbRelease
  BY <1>10, StopUnchanged DEF CoreAnswer, CoreOther, HandlerPaging, AddPagedUE, GnbHandover, GnbRelease, scnVars, ueVars
<1>11. ASSUME NEW r \in retry, RetryWake(r) \/ RetrySend(r) \/ RetryCount(r) PROVE StopInv'
  <2>1. UNCHANGED <<uePart, outPart>>
    BY <1>11 DEF RetryWake, RetrySend, RetryCount, scnVars, ueVars
  <2> QED
    BY <2>1, StopUnchanged
<1>12. CASE UNCHANGED vars
  BY <1>12, StopUnchanged DEF vars, ueVars, scnVars
<1>13. {"Terminate", "Idle", "ServiceRequest"} \subseteq OutTypes
  BY DEF OutTypes
<1> QED
  BY <1>1, <1>2, <1>3, <1>4, <1>5, <1>6, <1>7, <1>8, <1>9, <1>10, <1>11, <1>12, <1>13 DEF Next

-----------------------------------------------------------------------------
LEMMA DeadStep ==
  ASSUME LinkInv, RetryInv, TodoInv, DeadInv, [Next]_vars PROVE DeadInv'
<1>1. CASE UNCHANGED <<alive, rx, retry, todo>>
  BY <1>1 DEF DeadInv
<1>2. CASE UeStep
  <2>1. todo # <<>> /\ todo' = Tail(todo) /\ retry' = retry
    BY <1>2 DEF UeStep, retryVars
  <2>2. alive
    BY <2>1 DEF DeadInv
  <2>3. CASE Head(todo).op = "end"
    <3>1. rx' = 0 /\ lock = 0
      BY <1>2, <2>3 DEF UeStep, EndStep
    <3>2. todo' = <<>>
      <4>1. todo \in Seq(Steps) /\ Len(todo) \in Nat \ {0} /\ todo[1].op = "end"
            /\ Len(Tail(todo)) = Len(todo) - 1 /\ Tail(todo) \in Seq(Steps)
        BY <2>1, <2>3, TailSteps DEF TodoInv
      <4>2. Len(todo) = 1
        <5>1. 1 \in 1..Len(todo)
          BY <4>1
        <5> QED
          BY <4>1, <5>1 DEF TodoInv, EndsLast
      <4>3. Len(Tail(todo)) = 0
        BY <4>1, <4>2
      <4> QED
        BY <2>1, <4>1, <4>3, EmptySeq, Zenon
    <3>3. \A r \in retry : r.pc # "send"
      BY <3>1 DEF RetryInv
    <3> QED
      BY <2>1, <3>1, <3>2, <3>3 DEF DeadInv
  <2>4. CASE Head(todo).op # "end"
    <3>1. alive' = alive
      BY <1>2, <2>4 DEF UeStep, SendStep, ConnectStep, ReleaseStep, DrxStep
    <3> QED
      BY <2>2, <3>1 DEF DeadInv
  <2> QED
    BY <2>3, <2>4
<1>3. CASE GnbMsgHandler \/ UeMgrHandler \/ VerifyPaging
  <2>1. alive /\ alive' = alive
    BY <1>3 DEF GnbMsgHandler, UeMgrHandler, VerifyPaging
  <2> QED
    BY <2>1 DEF DeadInv
<1>4. CASE StateChange
  <2>1. alive /\ alive' = alive
    BY <1>4 DEF StateChange, DeadInv
  <2> QED
    BY <2>1 DEF DeadInv
<1>5. ASSUME NEW r \in retry, RetryWake(r) \/ RetrySend(r) \/ RetryCount(r) PROVE DeadInv'
  <2>1. UNCHANGED <<alive, rx, todo>>
    BY <1>5 DEF RetryWake, RetrySend, RetryCount, ueVars, linkVars
  <2>2. ASSUME NEW q \in retry', q.pc = "send" PROVE q.ch = rx \/ q \in retry
    BY <1>5, <2>2 DEF RetryWake, RetrySend, RetryCount, At
  <2> QED
    BY <2>1, <2>2 DEF DeadInv
<1>6. ASSUME NEW t, NEW m, FireTimer(t, m) PROVE DeadInv'
  BY <1>1, <1>6 DEF FireTimer, scnFrame, ueVars, linkVars, retryVars
<1>7. CASE FromTemplate \/ TemplateStop \/ UeTxClosed
  BY <1>1, <1>7 DEF FromTemplate, TemplateStop, UeTxClosed, scnFrame, ueVars, linkVars, retryVars
<1>8. CASE GnbTxClosed \/ DrxTick
  BY <1>1, <1>8 DEF GnbTxClosed, DrxTick, ueVars, linkVars, retryVars
<1>9. CASE CoreAnswer \/ CoreOther \/ HandlerPaging \/ GnbHandover \/ GnbRelease
  BY <1>1, <1>9 DEF CoreAnswer, CoreOther, HandlerPaging, AddPagedUE, GnbHandover, GnbRelease, ueVars, linkVars, retryVars
<1>10. CASE UNCHANGED vars
  BY <1>1, <1>10 DEF vars, ueVars, linkVars, retryVars
<1> QED
  BY <1>2, <1>3, <1>4, <1>5, <1>6, <1>7, <1>8, <1>9, <1>10 DEF Next

\* After its end a UE changes nothing in the core.
LEMMA LateStep ==
  ASSUME DeadInv, [Next]_vars, ~alive
  PROVE  UNCHANGED <<core, csess>> \/ CoreAnswer \/ CoreOther
<1> USE DEF coreVars
<1>0. todo = <<>> /\ \A r \in retry : r.pc = "send" => r.ch = 0
  BY DEF DeadInv
<1>1. CASE UeStep \/ StateChange \/ UeMgrHandler \/ GnbMsgHandler \/ VerifyPaging
  BY <1>0, <1>1 DEF UeStep, StateChange, UeMgrHandler, GnbMsgHandler, VerifyPaging
<1>2. ASSUME NEW r \in retry, RetryWake(r) \/ RetrySend(r) \/ RetryCount(r)
      PROVE  UNCHANGED <<core, csess>>
  BY <1>0, <1>2 DEF RetryWake, RetrySend, RetryCount
<1>3. ASSUME NEW t, NEW m, FireTimer(t, m) PROVE UNCHANGED <<core, csess>>
  BY <1>3 DEF FireTimer, scnFrame
<1>4. CASE FromTemplate \/ TemplateStop \/ UeTxClosed
  BY <1>4 DEF FromTemplate, TemplateStop, UeTxClosed, scnFrame
<1>5. CASE GnbTxClosed \/ DrxTick \/ HandlerPaging \/ GnbHandover \/ GnbRelease
  BY <1>5 DEF GnbTxClosed, DrxTick, HandlerPaging, AddPagedUE, GnbHandover, GnbRelease
<1>6. CASE UNCHANGED vars
  BY <1>6 DEF vars
<1> QED
  BY <1>1, <1>2, <1>3, <1>4, <1>5, <1>6 DEF Next

LEMMA InitIInv == Init => IInv
<1> SUFFICES ASSUME Init PROVE IInv
  OBVIOUS
<1>1. LinkInv /\ RetryInv /\ DeadInv
  BY DEF Init, LinkInv, RetryInv, DeadInv
<1>2. DownInv
  BY EmptySeq DEF Init, DownInv
<1>3. TodoInv
  <2>1. todo = <<InitConn>> /\ InitConn \in Steps
    BY StepTypes DEF Init
  <2> QED
    BY <2>1, ShortHandler DEF TodoInv
<1>4. OutInv
  <2>1. ueRxNil = FALSE /\ out \in {CustomCalls, <<Msg("Registration", 0)>>}
    BY DEF Init
  <2>2. \A t \in OutTypes : Msg(t, 0) \in Requests
    BY DEF Msg, Requests
  <2>3. CustomCalls \in Seq(Requests) /\ \A i \in 1..Len(CustomCalls) : ~Stopping(CustomCalls[i])
    BY <2>2 DEF CustomCalls, OutTypes, Stopping, Msg
  <2>4. <<Msg("Registration", 0)>> \in Seq(Requests) /\ Len(<<Msg("Registration", 0)>>) = 1
    BY OneRequestSeq DEF OutTypes
  <2> QED
    BY <2>1, <2>3, <2>4 DEF OutInv
<1>5. EndingInv
  BY DEF Init, EndingInv
<1> QED
  BY <1>1, <1>2, <1>3, <1>4, <1>5 DEF IInv, StopInv

LEMMA NextIInv == IInv /\ [Next]_vars => IInv'
  BY LinkStep, RetryStep, DownStep, StopStep, DeadStep DEF IInv, StopInv

\* The scenario never sends to the nil channel of a UE it has told to stop,
\* whatever its timers, the template and the core do (SimulateSingleUE).
THEOREM NoNilSendProved == Spec => []NoNilSend
<1>1. IInv => NoNilSend
  BY DEF IInv, StopInv, OutInv, NoNilSend
<1> QED
  BY <1>1, InitIInv, NextIInv, PTL DEF Spec

\* A terminated UE sends nothing any more, T3580 retries included, with or without
\* handovers (UEContext.Terminate, sender.SendToGnbMsg).
THEOREM NoLateUplinkProved == Spec => NoLateUplink
<1>1. IInv /\ [Next]_vars => [~alive => UNCHANGED <<core, csess>> \/ CoreAnswer \/ CoreOther]_vars
  BY LateStep DEF IInv
<1> QED
  BY <1>1, InitIInv, NextIInv, PTL DEF Spec, NoLateUplink

=============================================================================
