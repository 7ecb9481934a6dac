# PacketRusher: a TLA+ verification project

The repository is a 5G core network testbed: Helm charts and manifests that
deploy a core network, and PacketRusher, a Go program that simulates gNodeBs and
UEs against it. The program's own logic is PacketRusher; this project models
it. Paths below are relative to `src/PacketRusher/`, and `CTE` stands for
`internal/control_test_engine`.

## 1. The system and its parts

| Part | State it keeps | Operations | Hard part |
|---|---|---|---|
| gNodeB contexts (`CTE/gnb/context`, `CTE/gnb/nas`, `CTE/gnb/ngap`) | pools of UE contexts by RAN id, by PacketRusher id and by TEID; id generators; AMFs; paged UEs | `gnbListen`, `processingConn`, one NGAP handler per message, Xn and NGAP handover triggers | one goroutine per UE, per gNodeB and per NGAP message; no mutex on the generators; channels that are closed by another goroutine |
| UE (`CTE/ue`) | 5GMM and 5GSM states, up to 16 sessions, channels to its gNodeB, DRX ticker | `gnbMsgHandler`, `ueMgrHandler`, NAS handlers, `Terminate`, T3580 retry goroutines | blocking sends to its scenario from inside handlers; retries that outlive what they retry |
| Scenario (`internal/common/tools`, `internal/templates`) | timers, whether the UE was registered, the channel to the UE | `SimulateSingleUE`, `TestMultiUesInQueue` | unbuffered channels in both directions; timers that race the UE's state changes |
| NAS security (`CTE/ue/nas`, `test/aio5gc/msg/nas/codec`) | uplink and downlink counts, algorithms, keys on both sides | `DispatchNas`, `NASEncode`, `Decode`, `Encode`, 5G-AKA | 8-bit sequence numbers that wrap, counts estimated by the receiver, reordering |
| AMF selection and paging (`CTE/gnb/ngap/handler.go`, `CTE/gnb/context`) | AMF list with state, capacity and TNLA; list of paged UEs | NG Setup, AMF Configuration Update, AMF Status Indication, Paging | removal while others are being handled; expiry |
| All-in-one 5GC (`test/aio5gc`) | UE and PDU session state machines, provisioned data | NAS and NGAP handlers of a mocked AMF and SMF | lookups by RAN id over several gNodeBs, a mutex taken twice |
| UE data plane (`CTE/ue/gtp`, `internal/cmd/gogtp5g-*`) | per session a GTP link, its forwarding rules, a UDP socket and the goroutine that keeps it; policy rules, VRF, routes | `SetupGtpInterface`, `DeletePduSession`, `Terminate`, `CmdAdd`, `CmdAddFAR`, `CmdAddPDR`, `CmdAddQER` | sockets given back by another goroutine while the UE sleeps a second; kernel objects left behind by released sessions |
| gtp5g kernel module (`lib/gtp5g`) | kernel tables of PDR, FAR, QER, URR | packet forwarding | third party |
| CLI, configuration, identities (`cmd`, `config`, `internal/common`) | configuration | flag parsing, MSIN, gNodeB id and IP generation, SUCI | pure functions |

How they interact. A scenario goroutine and its UE goroutine exchange messages on
two unbuffered channels. A UE announces itself on the inbound channel (capacity
1) of its gNodeB and hands over a pair of channels (capacity 1) on which NAS
messages flow. `gnbListen` serves the inbound channel and starts one
`processingConn` goroutine for each UE; every NGAP message from the AMF is
handled by a goroutine of its own (`go Dispatch`). The scenario starts a handover
by acting on the gNodeB contexts directly, from its own goroutine.

What makes each part correct, in short: a gNodeB finds the context a message is
about, and never another one; no goroutine sends on a channel another one has
closed; a UE that is told to stop does stop, deregistered; a session is requested
once and retried a bounded number of times; both ends of the NAS security
association agree on every count although they share only 8 bits of it; a connected
UE stays on an AMF association its gNodeB keeps, however AMFs come, move and go; the
tunnel of a UE is the one the network expects, and its traffic leaves by it; the
mocked core has one registered context per subscriber and never stops serving an
association.

## 2. Plan

| Step | Module | Models | State |
|---|---|---|---|
| 1 | `GnbContext` | gNodeB contexts, pools, handovers | modelled, checked, all safety properties of `gnb_xn_idle` proved |
| 2 | `UeScenario` | UE, T3580 goroutines, scenario, template | modelled, checked, all safety properties proved |
| 3 | `NasSecurity` | NAS counts, 5G-AKA, both codecs | modelled, checked, types and delivery proved |
| 4 | `AmfPool` | NG Setup, AMF Configuration Update, AMF Status Indication, binding of UEs | modelled, checked, three invariants proved |
| 5 | `UeScenario` | list of paged UEs, DRX ticker | modelled, checked |
| 6 | `NasChannel` | what NAS protection promises of the downlink; `NasSecurity` implements it | refinement checked and, for delivery in order, proved |
| 7 | `GtpCommands`, `GtpTunnel` | commands of the GTP tools, tunnel of a session, what it leaves in the kernel | modelled, checked, all invariants proved |
| 8 | `Aio5gc` | UE contexts, state machines, sessions and releases of the mocked core | modelled, checked, all invariants proved |

Left for later, all of it proof: the lossy refinement of `NasChannel` when messages
are reordered; `ServedWhileOpen` and `ServedIsFound` of `GnbContext` when AMFs fail
(TLC finds no counterexample with one UE).

The `MC*` modules only name values for constants; the `*Proofs` modules hold the
theorems. No module uses a `RECURSIVE` operator.

## 3. The modules and the code

### GnbContext

One object `ctx[c]` per `*GNBUe`, numbered in order of allocation; `uePool`,
`prUePool` and `teidPool` are the three `sync.Map`s, `idUeGenerator` and
`teidGenerator` the counters. `inbound`, `rxq` and `txq` are the channels, each with
the capacity of one message it has in the code; `txOpen` and `rxOpen` say whether they
are closed. Goroutines are
elements of sets: `proc` (`processingConn`), `disp` (`Dispatch` goroutines that
have read an id generator and not yet stored the context), `sends` (goroutines that
still have a message to send to a UE: an NGAP handler, or the scenario with the order
of a handover). `n2` is a set, since each NGAP message gets a goroutine.

Each handler is one action, with two exceptions where the code leaves a window
that another goroutine can use: drawing an id and storing the context
(`Allocating` messages, `getRanUeId`), and sending to the UE. `SendMessageToUe` waits,
with the lock of the context, until the channel has room: the message stays in `sends`
until then, and a deletion of the context, which needs the lock, that waits for it is
one that comes later.
The AMF is external: it answers what it gets and may send downlink NAS, session
releases, context releases and handover messages about any UE it knows at any
time. `fate` records a panic (send on a closed channel, nil dereference).

### UeScenario

The UE goroutine is a loop over a `select`. A handler is the list `todo` of its
steps that others can see: announcing a state to the scenario (`tell`, a
rendezvous), sending to the gNodeB, connecting, releasing a session, ending. The
loop takes a new message only when `todo` is empty. The scenario goroutine has
its own list `out`; while it is not empty it does not read the UE's
announcements. `retry` holds the T3580 goroutines (asleep, sending under the
mutex `lock`, counting). `slot` is the array of sessions and `obj` the session
objects, because a retry goroutine keeps a pointer to an object that may have
left its slot. `ctl` is the template. The core and the gNodeB are external: the
core answers, rejects up to `MaxReject` sessions, releases sessions,
authenticates again, pages; the gNodeB orders handovers and releases the channel
of a UE that left. The gNodeB accepts every connection and goes on reading the channel
of a UE (section 6).

The array has `NSlot` entries instead of 16, with the same off-by-one between
`CreatePDUSession` and `GetPduSession`.

### NasSecurity

A key is the number of the authentication vector it was derived from (`kamf`,
`knas` at the UE, `amfKey` at the AMF); a MAC is the pair of key and full count it
was calculated with, so a check succeeds exactly when both are equal. A count is
`[ovf, sqn]` with widths `OvfMod` and `SqnMod` (2^16 and 2^8 in the code).
`Estimate` is what `DispatchNas` and `Decode` do: the overflow part is
incremented when the received sequence number is below the stored one, and the
result replaces the stored count before the MAC is verified. `NASEncode` is
five steps, because T3580 goroutines run it beside the UE's own (`enc[e]`,
process 0 is the UE's). `Core` is `"aio5gc"` (the mocked core with its
`SetDLCount`) or `"external"` (a core that keeps both counts). `lost`, `last`,
`ndl`, `nul` and `used` are history: what failed to verify, the number of the
last downlink message acted on, and which counts were used with which key.

`NasChannel` is the abstract specification: numbered messages, acted on in order, none
twice, and none left out unless `Lossy`. `DownlinkChannel` maps its variables to the
number of downlink messages the AMF has protected (`ndl`) and the last one the UE
acted on (`last`); `DownlinkDelivered` is the same with the abstract fairness.

### AmfPool

`amf[o]` are the `GNBAmf` objects with the state of their SCTP association, `amfPool`
the `sync.Map` from AMF id to object, `idAmfGenerator` the counter. What connects an
AMF is an element of `adders`: the goroutine of an AMF Configuration Update that found
the address to be new, or `InitGnb` with the entry of the configuration it is at
(`to` = `Nil`). Both take the same steps (`Connecting`): draw an id (`getRanAmfId`),
store the object (`NewGnBAmf`), dial and send the NG Setup Request (`InitConn`). Between
the look-up of the address and the store any other goroutine may run, the start-up and
other additions included. Every message of an AMF is an element of `n2` from when it is
sent to when its goroutine handles it, also after its association was closed; what had
not been read by then may be lost (`Unread`). An AMF Status Indication first chooses a
backup, then visits the pool entry by entry (`movers`). A UE connects in two steps,
`NewGnBUe` (an AMF is selected) and `SetAmf`.

Nothing restricts the interleaving of goroutines. What is assumed is about the
AMFs, which are external: `Procedures` is what they do on their own initiative, and
`Overlaps` is what they may do at the same time: send an indication or a removal while
another one is on its way or being handled (`"crossing"`), add an endpoint again before
the gNodeB is done with an earlier addition of it (`"twice"`). An AMF speaks of its own
endpoints only, removes one over which it knows no UE, and has one update outstanding
per association. `OnePerAmf` says that the configured endpoints belong to different
AMFs. `calm` is history: the UEs that were connected while no indication was being
handled and no removal was on its way.

### GtpCommands and GtpTunnel

`GtpCommands` has the argument lists of the GTP tool: which options each command
takes, whether a list parses (`ParseFAROptions`, `ParsePDROptions`,
`ParseQEROptions`), and whether the command succeeds on a link. `GtpTunnel` has
`SetupGtpInterface` step by step: the UE's goroutine stores the session, deletes the
old link, tells the old `CmdAdd` goroutine to stop and sleeps (`pc` = `"spawn"`), starts
a new one and sleeps (`"rules"`), then runs the commands and sets rule, VRF and route.
`cmd` are the `CmdAdd` goroutines, each with its socket and its `stopSignal`; one that
was told to stop (`told`) has let its UE go on before it returns and closes its socket
(`CmdAddReturn`). An accept without a session dereferences nil, as in the code; without
races TLC and the proof of `NoFatal` find none. The
kernel is what netlink calls do: one link per name, rules tried in order, one default
route per table, and objects that stay until they are deleted. That a goroutine gets
its work done during the second its UE sleeps, and closes its socket before UE and
network have set a released session up again, is part of the model unless `"slow"` is
among `Races`.

### Aio5gc

`ues` is the list of UE contexts of the mocked core, each with its 5GMM state and its
sessions; `UeFsm` and `PduFsm` are the transition tables. One goroutine serves each
association, so a message is one step (`Dispatch`); `hung` are the associations whose
goroutine waits for a mutex it holds itself. PacketRusher is external: a *life* is one
goroutine of a UE (started, registered, stopping, left or killed), what it sends is a
queue, and what the core sends is a set, since each message gets a goroutine in the
gNodeB. `Races` says what may be slow: messages of a killed UE (`"late"`), the core
within the 500 ms of `Terminate` (`"timeout"`), or a session at the moment the UE is
stopped (`"early"`). A UE stays connected to one gNodeB for all its life: the core ends
the program on the NGAP procedures of idle periods and handovers (section 6).

## 4. What the runs check

Passing runs:

| Run | Shows |
|---|---|
| `gnb_xn_idle` | with idle periods, reconnections and an Xn handover: pools agree (`PoolsAgree`), no live entry is overwritten (`NoOverwrite`), a served context is open and can be found (`ServedWhileOpen`, `ServedIsFound`), no send on a closed channel, and the goroutine that takes in the UEs never waits for room in the channel of one (`ListenNeverWaits`) |
| `gnb_n2` | pools agree (`PoolsAgree`) also with an NGAP handover and idle periods |
| `gnb_live` | with AMFs that come and go, a connecting UE is always answered, if only by the end of its channel (`ConnAnswered`) |
| `ue_stop` | no use of a closed or forgotten channel and no uplink after the end (`NoClosedSend`, `NoNilSend`, `NoLateUplink`), while the UE is rejected, retried, authenticated again, paged, reconnected and stopped; a UE that took the message to stop ends, and its scenario with it (`EndsOnceTold`); a paged UE comes back (`PagedConnects`) |
| `ue_live` | UE and core agree on the sessions (`SessionsAgree`), one request at a time (`OneRequest`), every session is requested and settles (`SessionsRequested`, `SessionsSettle`) |
| `nas_fifo` | every message verifies across wraps of both parts of the count (`NothingLost`), registration comes to an end (`Registers`), and every protected downlink message is acted on (`DownlinkDelivered`) |
| `nas_reorder` | however the gNodeB reorders, the downlink is a channel that may lose messages and never swaps two (`DownlinkChannel`) |
| `amf_pool` | with two AMFs that add, update and remove endpoints, become unavailable and are lost, in every order of the goroutines: a UE that was connected while no indication was handled and no removal was on its way is bound to an association that is in the pool and not closed (`Served`), there is one association per address although the start-up and additions overlap (`OneAssociationPerIp`), every update is acknowledged (`UpdateAcknowledged`) |
| `gtp_tunnel` | sessions are set up, moved to another gNodeB, released and set up again with each kind of tunnel: no step ends the process (`NoFatal`), the tunnel is the one the network expects (`TunnelCurrent`), traffic leaves by it (`UplinkRouted`), a goroutine that holds a socket is one that its UE can stop or has stopped, as long as the UE lives (`NoOrphan`), and the UE's goroutine is never kept (`UeResponds`) |
| `aio_core` | three lives of two subscribers in the mocked core: one registered context per subscriber (`OneRegistered`), sessions known to both sides (`SessionsKnown`), nothing that ends or blocks the core (`NoFatal`, `AssociationsServed`), and every UE registers or is deregistered in the end (`UesSettle`) |

Runs that show a disagreement between the code and what the repository says of it
(details under `findings` in `PROJECT.json`):

| Run | Shows |
|---|---|
| `amf_remove` | an AMF removes an endpoint it is not speaking on: the gNodeB closes the association the message came over, and leaves the UEs bound to it there (`CTE/gnb/ngap/handler.go:777`): what they send next by a trigger ends the process, their uplink NAS is dropped with a log entry |
| `gtp_loop` | with `--loop` and a tunnel, the next registration of a UE finds the GTP-U address held by the goroutine that `Terminate` did not stop |

The modules state more expectations that the code does not meet and for which no
configuration is kept. To see the counterexample, take the configuration named
and change what the last column says:

| Property | What happens | Configuration |
|---|---|---|
| `PoolsAgree` | two goroutines draw the same RAN UE NGAP id (`CTE/gnb/context/context.go:283`) | `gnb_n2`, `UE = {u1, u2}`, `HomeGnb <- TwoHomes`, `Timers <- N2Only` |
| `TeidIdentifiesUe` | `CopyFromPreviousContext` (`CTE/gnb/context/ue.go:80`) keeps the TEIDs of the source gNodeB: two UEs of a gNodeB share one | the same with `Timers <- XnOnly` |
| `KnownUeWasPrepared` | an Xn handover back finds the old context and is completed as an NGAP one (`CTE/gnb/nas/service/service.go:45`) | `gnb_xn_idle`, `Timers = {"xn", "n2"}` |
| `UnknownSwitchSkipped` | a session release overtakes a path switch acknowledge that gives the session a new uplink tunnel: nil dereference (`CTE/gnb/ngap/handler.go:982`, `:996`) | `gnb_xn_idle`, `Timers <- XnOnly`, `MaxN2 = 2` |
| `NoClosedSend` (gNodeB) | a UE refused for want of an AMF stays in the pools with its closed channel (`CTE/gnb/nas/service/service.go:63`); an Xn handover sends on it | `gnb_live` |
| `DeregTimerWorks` | UE and scenario block on each other's unbuffered channel (`internal/common/tools/tools.go:163`) | `ue_live`, `Timers <- Dereg` |
| `NoClosedSend` (UE) | a handover order closes the channel a T3580 retry is sending on (`CTE/ue/ue.go:99`) | `ue_live` |
| `TemplateProceeds` | the loop template blocks sending Kill to a scenario that has ended (`internal/templates/test-multi-ues-in-queue.go:80`) | `ue_live`, `Timers <- Dereg`, `Stop = "Kill"` |
| `UnknownAcceptReported` | the accept of the sixteenth session is a nil dereference (`CTE/ue/nas/handler/handler.go:370`) | `ue_live`, `NumPdu = 3` |
| `RetryBound` | a reject read before the retry was counted gives one retry too many (`CTE/ue/nas/handler/handler.go:427`) | `ue_live` |
| `StopDeregisters` | an idle UE ends without deregistering (`CTE/ue/ue.go:156`) | `ue_stop` |
| `CustomFinishes` | a custom scenario stops after its first call (`internal/templates/test-custom-scenario.go:36`) | `ue_live`, `Custom = TRUE` |
| `UlCountsUnique` | the UE and a T3580 goroutine protect two messages with one count (`integrity-ciphering-nas.go:82`) | `nas_fifo`, `Retries <- OneRetry` |
| `DlCountsUnique` | `SetDLCount` of the mocked core assigns the uplink count, the downlink count never advances (`test/aio5gc/context/security.go:96`) | `nas_fifo`, `Core = "aio5gc"` |
| `KeysFresh` | the sequence number is stored in a copy of the subscription (`CTE/ue/context/context.go:637`): a delayed challenge takes the UE back to an older key | `nas_reorder` |
| `Served` without `calm` | a UE whose AMF was selected before an indication or a removal removes it is bound to it afterwards (`CTE/gnb/ngap/handler.go:780`, `:898`) | `amf_pool`, `\in calm` replaced by `\in Ue` |
| `Served` without `OwnId` | two AMFs get one id, the second hides the first (`CTE/gnb/context/context.go:308`) | `amf_pool`, `\in OwnId` replaced by `# Nil` |
| `Served` | an AMF removes the endpoint to which an indication is moving UEs (`CTE/gnb/ngap/handler.go:898`) | `amf_pool`, `Overlaps = {"crossing"}`, `Procedures` without `"add"`, `MaxProc = 3`, `MaxLost = 0` |
| `OneAssociationPerIp` | an AMF adds an endpoint over two of its associations: neither goroutine finds the address (`CTE/gnb/ngap/handler.go:741`) | `amf_pool`, `Overlaps = {"twice"}`, `Procedures = {"add"}`, `MaxObj = 6`, `MaxProc = 3`, three endpoints of `a1`, the first of them configured |
| `NoFatal` (tunnel) | the socket of the old tunnel is still bound, or the link not created, when the second is over (`CTE/ue/gtp/service/service.go:57`, `:76`); a UE moves to the gNodeB whose address another tunnel holds | `gtp_tunnel`, `Races` = `{"slow"}`, `{"handover"}` |
| `UplinkRouted` | a released session leaves its rule: when the UPF gives its TEID to another UE, the first one's traffic leaves by the wrong link (`CTE/ue/gtp/service/service.go:138`) | `gtp_tunnel`, `Reuse = {"tun"}` |
| `OneRegistered` | messages of a killed UE that arrive after its successor's authentication leave two registered contexts (`authenticationResponse.go:47`) | `aio_core`, `Races = {"late"}` |
| `AssociationsServed` | a UE deregisters while the core has a session of it: `ForceReleaseAllPDUSession` takes the mutex it holds (`sessionManagement.go:226`) and the gNodeB is never served again | `aio_core`, `Races` = `{"early"}`, `{"timeout"}` |
| `NoFatal` (mocked core) | UEs of two gNodeBs have the same RAN id; the lookup by RAN id finds the first (`test/aio5gc/context/amf.go:107`) | `aio_core`, `Gnb <- Two` |
| `SessionsKnown` | confirming the release of one session deletes the others too (`sessionManagement.go:221`) | `aio_core`, `Sess <- Two` |

That an Xn handover ends is not claimed: `SendMessageToUe` runs on the goroutine of the
scenario and waits until the UE has read the message before (`gnbTx` holds one), while
the UE may be announcing a state change that only this goroutine reads.
`DeregTimerWorks` shows the same cycle with another message of the scenario.

A context of the mocked core is replaced only when its subscriber registers again and
only if it was registered: a UE killed before `Registration Complete` leaves a context
that is never deregistered. An Authentication Request that reaches an idle UE takes it
to `REGISTERED_INITIATED`, where it answers neither pages nor its scenario;
`PagedConnects` excepts it. Entries of the list of paged UEs never expire
(`slices.Delete(i, i)` deletes nothing), so the return with `pagedUELock` held
(`CTE/gnb/context/context.go:402`) is never taken, and an old entry wakes the UE again
in its next idle period.

`NothingLost` is checked for delivery in order only. When messages are reordered
it does not hold: an overtaken message makes `DispatchNas` increment the overflow
part of the downlink count, the MAC check fails, and the count stays one overflow
ahead, so that later messages fail too. `DownlinkChannel`, with
`Lossy`, is what remains true.

### Bounds

- Two gNodeBs, one UE (two where the property is about two), one session: the
  pools, generators and goroutines of different UEs meet only in the id
  generators and the pools. Three contexts, three connections and three RAN ids let
  a UE attach, move or reconnect twice. `MaxN2` bounds the messages the AMF sends
  on its own initiative that are on their way to a handler, in one that has drawn its
  ids, or from it to the UE; its answers come on top.
- `NSlot` = 3 keeps a first, a middle and the refused last id. `MaxRetry` = 2
  against `MaxReject` = 3 lets the retries run out. One handover order suffices
  to close a channel.
- `SqnMod` = 3 or 4 and `OvfMod` = 2 let both parts of the count wrap within the
  messages of the run (`nas_fifo`). `OvfMod` = 6 in `nas_reorder` does not wrap:
  after 2^24 messages the order of counts is meaningless, in the code as in the
  model.
- Two AMFs, one of them with two endpoints, three AMF objects, two procedures, one
  association that is lost: any two procedures can meet, an addition can meet the
  start-up, and the AMF of a UE can go while another is removed. `amf_remove` needs three
  procedures. One UE is enough since UEs do not interact there.
- Two UEs with a gNodeB each, three TEIDs and four steps of the network: a session can
  be set up, moved, released and set up again while another UE takes the TEID it gave
  back.
- Three lives of two subscribers and two session requests in the mocked core: the
  third life of a subscriber finds one replaced and one registered context, and a
  session id can be used twice.
- Deadlock is not checked: every system here may come to rest (all timers fired,
  bounds reached). What must not get stuck is stated as a liveness property.

### Fairness

Goroutines that can run do run: weak fairness on each handler that a property depends
on (in `GnbContext` only `gnbListen` and a UE that waits for its answer, in `AmfPool`
the handlers of updates and what they connect). Go's `select`
chooses at random among the ready cases, so a case that is ready again and again
is eventually chosen: strong fairness on a UE's reception of gNodeB messages, on the
DRX tick that finds a page and on the template's message to a scenario. The timers
of a scenario need not fire, except where a property says so (`TimersFire`). The external core answers what it is sent; it need not send
anything on its own initiative. Nothing is assumed about who wins a race.

## 5. What is proved

TLAPS checks the theorems for every value of the constants that satisfies the
modules' `ConstAssumption`s, the bounds included (and `NilAssumption` of `GnbContext`:
the nil of an empty channel is not a connection request).

- **`GnbContextProofs!TypeCorrect`** (`Spec => []TypeOK`). `TypeOK` is inductive
  as it stands because it says more than types: pool entries, goroutines and
  messages refer to allocated contexts and made channels, identifiers drawn lie
  below their generators. One lemma per operation on the pools, one step per
  action.
- **`GnbPoolProofs`**. Every action is first shown to have one of a few *shapes*: it
  keeps the contexts' ids, channels and pool entries (`Keep`), deletes one context
  (`Drop`) or makes one (`New`); it leaves the requests alone (`Quiet`) or sends one
  on a new channel (`Ask`). The invariants are then proved once per shape.
  - `PoolsAgreeProved` and `NoOverwriteProved`, assuming no NGAP handover
    (`"n2" \notin Timers`), whether or not AMFs fail. `IdInv`: a RAN id lies below its
    generator and belongs to one context of a gNodeB; `PoolInv`: a pool holds a context
    under the context's own ids, and `prUePool` only what `uePool` holds; `NoN2`: no
    message of an NGAP handover is under way. With NGAP handovers two goroutines can
    draw one id (section 4).
  - `NoClosedSendProved`, assuming AMFs that stay active (`AmfMayFail = FALSE`), with
    both kinds of handover. `TxInv`: the channel of a context or of a request is open
    and held once, and channels not made yet are open. With AMFs that fail there is the
    counterexample of section 4.
  - `ServedWhileOpenProved` and `ServedIsFoundProved`, assuming `XnScenario`: no NGAP
    handover, AMFs that stay active, and Xn handovers, if any, to another gNodeB (the
    templates start at least two gNodeBs for them). A channel has one owner, a UE at a
    gNodeB, named by the request that brings it and then by the context made for it
    (`RxInv`). `LinkInv` follows the handover through request, order and message: a UE
    is at its first gNodeB until its timer has fired (`HomeInv`), a handover request
    comes to a gNodeB that does not know the UE (`HoReq`), the UE of any other request
    waits for the answer (`ConnReq`), a UE reads a channel of its own (`UeTxInv`), and an
    order leads to a channel of the same UE at the other gNodeB (`OrderInv`, `MsgInv`).
    `OpenInv`: a context whose channel is open holds it and is in the UE pool.
    `FoundInv`: found by PacketRusher id is the context that serves the UE, and also the
    one at the target that will serve it once it reads the order, without which the step
    that reads the order would not preserve the property.
- **`UeScenarioProofs!NoClosedSendProved`** (assuming `MaxHo = 0`). Inductive
  invariant: `LinkInv` (the channel in use is not a closed one), `RetryInv` (a
  retry goroutine in its send holds the mutex, so there is at most one), `OpenInv`
  (its channel is open) and `DownInv` (no handover order is under way). The
  assumption is necessary: with `MaxHo` = 1 there is the counterexample of section 4.
- **`UeScenarioProofs!NoNilSendProved`** and **`NoLateUplinkProved`** (no further
  assumption). `TodoInv`: ending is the last step of a handler; `OutInv`: the
  message to stop is sent alone, and nothing remains to be sent after it;
  `EndingInv`: a UE that took it is on its way to the end and announces no
  registration, which would make the scenario send again; `DeadInv`: an ended UE
  has no channel, and no sender that holds one.
- **`UeSessionProofs`** (no further assumption: any number of slots, sessions, retries,
  rejects and handovers, any timers).
  - `TypeCorrect` (`Spec => []TypeOK`). Types are not inductive here: that the scenario
    makes no more objects than it was configured with needs that it sends its requests
    once, after the first registration (`CountInv`), and that a custom scenario never
    gets as far as its second call (`CustomInv`); that a stopping UE takes none of the
    other steps is `StepInv`.
  - `OneRequestProved` (`OneRequest`). A slot keeps its object while a goroutine is to
    request it again (`HomeInv`). `Turn`: of the first request and the retries of a
    session at most one is under way, and none while the session is active or the core
    has not answered. That needs `Life`: until the UE stops, request, answer and release
    of a session follow one another, and of each at most one message is under way.
  - `SessionsAgreeProved` (`SessionsAgree`). `Agree`: an active session is active in the
    core, or its release is on the way; and a UE that stops has a release of every active
    session in front of its deregistration (`Released`). The last slot never gets active,
    as `GetPduSession` does not find it.
- **`NasSecurityProofs!NasTypeCorrect`** (`Spec => []TypeOK`).
- **`NasSecurityProofs!NothingLostProved`**, assuming `InOrder`: a core that keeps
  both counts, delivery in order and no retry goroutine. The argument is that the
  counts of the messages in each direction are consecutive, from the last one the
  receiver has stored to the next one of the sender (`DlInv`, `UlInv`, with
  `EncInv` for the message being encoded), and that `Estimate` maps a count and
  the sequence number of its successor to the successor (lemma about `AddOne`,
  wraps included). `BeforeInv` covers authentication: of all challenges only the
  answer to the newest is accepted, and when it is accepted both sides derive the
  key from the same vector. Each assumption is needed: see
  `DlCountsUnique`, `UlCountsUnique` and the text on reordering in section 4.
- **`NasSecurityProofs!ImplementsChannel`**, also assuming `InOrder`: the initial states
  are initial states of `NasChannel`, and every step is one of its steps or changes
  neither `ndl` nor `last`. From the invariant above, the message that verifies is the
  next one.
- **`AmfPoolProofs!TypeCorrect`** (`Spec => []TypeOK`).
- **`AmfPoolProofs!OneAssociationTheorem`** (`OneAssociationPerIp`), assuming `Once`
  (`"twice" \notin Overlaps`): no AMF adds an endpoint again before an earlier addition of
  it is done with. Start-up, additions, updates, removals and indications interleave as
  they like. Invariant `Assoc`: messages and goroutines name objects that were made, and
  an object is stored under its own id (`RefInv`); an address is on its way into the pool
  once, and not in it yet (`AskInv`), which is what the look-up found and nothing in
  between can change; no AMF acts before the start-up has come to its endpoint
  (`BootInv`). The assumption is needed: section 4.
- **`AmfPoolProofs!ServedTheorem`** (`Served`), assuming `Once` and `Alone`: AMFs send one
  indication or removal at a time, and ask for the removal of the endpoint they speak on
  only. UEs, additions, updates, the start-up and the loss of AMFs go on around it. `Serving`
  adds to `Assoc` that names belong to the AMF of the endpoint (`NameInv`), that nothing in
  the pool has been closed (`CloseInv`), that an AMF with an id of its own that a calm UE
  is bound to, or has selected, is where the UE looks for it (`Good`, `UeInv`, `CalmInv`),
  that the backup of an indication is sound and no calm UE is on the association about to
  be released (`MoveInv`), nor on an endpoint a removal is on its way for (`RemoveInv`).
  `Alone` is needed: `amf_remove`, and `Served` in section 4.

- **`GtpTunnelProofs`**. One lemma per action states what the action does to each
  piece of state; the invariants, each on top of the one before, are about one UE, its
  messages and the `CmdAdd` goroutines it started, and a lemma shows that a step of
  one UE leaves those of the others alone.
  - `TypeCorrect` (`Spec => []TypeOK`), for any races.
  - `NoGoroutineIsOrphaned` (`NoOrphan`), assuming `NoTunnelLoop`: a UE that is
    started again has no tunnel (with one, `gtp_loop` shows the process end). Any
    races. `OrphanInv` says what the session has at each place of the UE's
    goroutine, and that the goroutine it can stop is the only one of the UE that was
    not told to (`Place`, `Stops`, `Started`).
  - `SetupsSucceed` (`NoFatal`), assuming also `NoRaces`: no slow goroutine and no
    move to the gNodeB of another UE. `AliveInv`: a goroutine that has not ended is
    the one its UE can stop, and has no link before it waits (`Alive`, `Linked`); the
    gNodeB a UE is told to use is its own, or the UE is alone (`Address`, `Heard`);
    the accept of a session is handled before its setup (`Accepted`) and finds the
    session (`Expected`). The rest is
    that every option `SetupGtpInterface` passes parses (`CommandsParse`).
  - `TunnelsFollowTheNetwork` (`TunnelCurrent`), same assumptions. `CurrentInv`: the
    last setup under way says what the network has, or the session does (`Told`),
    and the link is made of what the session has (`Built`). A release that overtakes
    the setup is covered: the network then has no session to agree with.
  - `UplinksAreRouted` (`UplinkRouted`), assuming also that the UPF gives no TEID
    twice in tun mode. `RouteInv`: a TEID belongs to one UE, in tun mode for good, as
    rules are left behind (`OneOwner`); a route of a table is that of its owner's
    link (`Routes`, `Reached`).
- **`Aio5gcProofs`**. With one gNodeB (`OneGnb`) a life of a UE has its position as
  RAN id, so that contexts, messages and lives can be matched.
  - `TypeCorrect` (`Spec => []TypeOK`), no assumption.
  - `CoreSurvives` (`NoFatal`), assuming `OneGnb`, any races. `IdInv`: each life has
    at most one context, made of its first message, and every message carries its
    two ids.
  - `UniqueRegistration` (`OneRegistered`), assuming also that no message is late
    (`"late" \notin Races`). `RegInv`: lives of a subscriber follow one another, what
    an earlier one sent is read first, and a context that got as far as
    authentication has replaced the registered ones before it.
  - `AssociationsStayServed` (`AssociationsServed`), assuming `OneGnb` and no races.
    `SessInv` follows each session through request, accept, release and response in
    both directions: a UE that deregisters has none left in the core (`Gone`), so
    that nothing is released under the mutex its response would need.
  - `SessionsAreKnown` (`SessionsKnown`), assuming also one session id: a response to
    one release deletes all sessions of the context. `KnownInv`: what the UE holds the
    core holds (`Kept`), and the response to a release precedes the next request
    (`Ordered`).

  Section 4 says what happens without each of these assumptions.

Only model-checked: `ListenNeverWaits`, all liveness properties (`ConnAnswered`,
`SessionsRequested`, `SessionsSettle`, `EndsOnceTold`, `PagedConnects`, `Registers`,
`DownlinkDelivered`, `UpdateAcknowledged`, `UeResponds`, `UesSettle`; liveness under
fairness is beyond the prover), and `DownlinkChannel` with reordering.

## 6. What is not modelled

The encoding of NGAP and NAS messages (what each handler reads and writes is
modelled, its bytes are not); ciphering, MAC and SUCI arithmetic; the gtp5g kernel
module (third party); the commands of the GTP tools that PacketRusher does not call
(mod, delete, get, list, URR, flow descriptions: arguments translated to a netlink
request, without state); in the mocked core NG Setup, Identity Request, the hooks of
tests and the pool of IP addresses, of which none is ever given back; command-line
and YAML parsing and the generators of MSIN, gNodeB id and IP; monitoring,
load-test templates and the distributions of `work_load_model`, which do not
touch the UE state machine; Helm charts, manifests and scripts. In the UE, the
handlers `Deregistration` and `DestroyPDUSession` are reachable only from a
custom scenario, in which the UE blocks before it gets to them (`CustomFinishes`).
Durations are not modelled: a timer that is set may fire at any moment.

Two modules leave out what another one has or what would end the program:

- `UeScenario` has a gNodeB that accepts every connection (`ConnectStep`) and reads what
  the UE sends. A gNodeB without an active AMF closes the channel instead, which
  `InitConn` (`CTE/ue/nas/service/service.go`) takes for an answer; nobody reads `gnbRx`
  then, and the UE's second send on it blocks for ever, so that `EndsOnceTold` and the other
  liveness properties hold only of a UE that is accepted. The refusal itself is in
  `GnbContext` (`ListenNewUe`, `ConnAnswered`). The
  capacity of `gnbRx` (one message) is not modelled: `processingConn` reads the channel of
  an accepted UE until the first message after its context was released, and the channel
  holds a second one. A third would wait for ever, under the mutex of the UE; it takes the
  T3580 goroutines of three sessions that fire in one idle period, and the runs have at
  most two sessions. The safety theorems lose nothing by it, as a send that waits only
  takes behaviours away.
- `Aio5gc` has UEs that stay connected to one gNodeB. The dispatcher of the mocked core
  knows NG Setup, Initial UE Message, Uplink NAS Transport and four responses, and calls
  `log.Fatal` for any other message in its default branches
  (`test/aio5gc/msg/ngap/ngapDispatcher.go:66-67`, `:90-106`): the UE Context Release
  Request of a UE that goes idle, a Path Switch Request, a Handover Required. Idle periods
  and handovers against the mocked core are therefore excluded, from `NoFatal` too.
