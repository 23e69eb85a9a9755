------------------------------- MODULE XhciProofs ------------------------------
(***************************************************************************)
(* The xHCI driver for rings of every size: driver and controller agree on *)
(* the event ring across any number of wraps, run() gets past a request    *)
(* only by its own completion, and reports go through the one buffer one   *)
(* at a time.  When the device sends nothing before run() returns, the     *)
(* keyboard is armed or has an interrupt under way ever after.             *)
(***************************************************************************)
EXTENDS Xhci, FiniteSetTheorems, TLAPS

--------------------------------------------------------------------------------
(* The event ring *)

\* Entries posted and not yet consumed: those from the driver's index up to
\* the controller's, past the end of the ring when the cycles differ.
Held(i) ==
    IF evt_cycle = pcs THEN evt_idx <= i /\ i < enq ELSE evt_idx <= i \/ i < enq

\* The cycle bits up to the controller's index are those of its lap, the
\* others those of the lap before; `waiting' is the distance between the
\* two indices; only an entry that is held has contents.
EventInv ==
    /\ erdp = evt_idx
    /\ evt_cycle = pcs => evt_idx <= enq /\ waiting = enq - evt_idx
    /\ evt_cycle # pcs => enq < evt_idx /\ waiting = enq - evt_idx + RING_TRBS
    /\ \A i \in Slots : evt_ring[i].cycle = IF i < enq THEN pcs ELSE 1 - pcs
    /\ \A i \in Slots : ~Held(i) => evt_ring[i].body = Stale

\* The variables of TypeOK that make up the event ring.
EventTypes ==
    /\ evt_idx \in Slots /\ evt_cycle \in {0, 1}
    /\ evt_ring \in [Slots -> [cycle : {0, 1}, body : Events]]
    /\ enq \in Slots /\ pcs \in {0, 1} /\ erdp \in Slots /\ waiting \in Nat

\* The index after i, as the driver's and the controller's code compute it.
LEMMA NextIndex ==
    \A i \in Slots : (i + 1) % RING_TRBS = (IF i = Link THEN 0 ELSE i + 1)
<1>1. ASSUME NEW i \in Slots, i = Link
      PROVE (i + 1) % RING_TRBS = 0
  BY <1>1, RingAssumption DEF Slots, Link
<1>2. ASSUME NEW i \in Slots, i # Link
      PROVE (i + 1) % RING_TRBS = i + 1
  BY <1>2, RingAssumption DEF Slots, Link
<1> QED BY <1>1, <1>2

\* The controller writes an event: it takes an entry without contents, and
\* the ring stays in order.
LEMMA PostKeeps ==
    ASSUME EventTypes, EventInv, NEW b \in Events, Post(b), UNCHANGED evdrv
    PROVE  /\ EventTypes' /\ EventInv'
           /\ ~Held(enq) /\ evt_ring[enq].body = Stale
           /\ \A i \in Slots : evt_ring'[i].body = IF i = enq THEN b ELSE evt_ring[i].body
<1> USE RingAssumption DEF Slots, Link
<1>1. enq' = IF enq = Link THEN 0 ELSE enq + 1
  BY NextIndex DEF Post, EventTypes
<1>2. enq' # evt_idx /\ evt_idx' = evt_idx /\ evt_cycle' = evt_cycle /\ erdp' = erdp
      /\ pcs' = (IF enq = Link THEN 1 - pcs ELSE pcs) /\ waiting' = waiting + 1
  BY DEF Post, RingFull, EventInv, evdrv
<1>3. evt_ring' = [evt_ring EXCEPT ![enq] = [cycle |-> pcs, body |-> b]]
  BY DEF Post
<1>4. \A i \in Slots : /\ evt_ring'[i].body = IF i = enq THEN b ELSE evt_ring[i].body
                       /\ evt_ring'[i].cycle = IF i = enq THEN pcs ELSE evt_ring[i].cycle
  BY <1>3 DEF EventTypes
<1>5. ~Held(enq) /\ evt_ring[enq].body = Stale
  BY <1>1, <1>2 DEF Held, EventInv, EventTypes
<1>6. EventTypes'
  BY <1>1, <1>2, <1>3 DEF EventTypes
<1>7. EventInv'
  <2>1. erdp' = evt_idx'
    BY <1>2 DEF EventInv
  <2>2. /\ (evt_cycle = pcs => evt_idx <= enq /\ waiting = enq - evt_idx)'
        /\ (evt_cycle # pcs => enq < evt_idx /\ waiting = enq - evt_idx + RING_TRBS)'
    BY <1>1, <1>2 DEF EventInv, EventTypes
  <2>3. ASSUME NEW i \in Slots
        PROVE evt_ring'[i].cycle = IF i < enq' THEN pcs' ELSE 1 - pcs'
    <3>1. evt_ring[i].cycle = IF i < enq THEN pcs ELSE 1 - pcs
      BY DEF EventInv
    <3> QED BY <1>1, <1>2, <1>4, <3>1 DEF EventTypes
  <2>4. ASSUME NEW i \in Slots, ~Held(i)'
        PROVE evt_ring'[i].body = Stale
    <3>1. ~Held(i) /\ i # enq
      BY <2>4, <1>1, <1>2 DEF Held, EventInv, EventTypes
    <3> QED BY <3>1, <1>4 DEF EventInv
  <2> QED BY <2>1, <2>2, <2>3, <2>4 DEF EventInv
<1> QED BY <1>4, <1>5, <1>6, <1>7

\* The driver consumes the event at its index.
LEMMA AdvanceKeeps ==
    ASSUME EventTypes, EventInv, evt_advance, EventThere
    PROVE  /\ EventTypes' /\ EventInv' /\ Held(evt_idx)
           /\ \A i \in Slots :
                 evt_ring'[i].body = IF i = evt_idx THEN Stale ELSE evt_ring[i].body
<1> USE RingAssumption DEF Slots, Link
<1>1. evt_idx' = IF evt_idx = Link THEN 0 ELSE evt_idx + 1
  BY NextIndex DEF evt_advance, EvtAdvanceIndex, EventTypes
<1>2. evt_cycle' = (IF evt_idx = Link THEN 1 - evt_cycle ELSE evt_cycle)
      /\ erdp' = evt_idx' /\ waiting' = waiting - 1 /\ enq' = enq /\ pcs' = pcs
  BY DEF evt_advance, EvtAdvanceIndex, EventTypes
<1>3. evt_ring' = [evt_ring EXCEPT ![evt_idx].body = Stale]
  BY DEF evt_advance
<1>4. \A i \in Slots : /\ evt_ring'[i].body = IF i = evt_idx THEN Stale ELSE evt_ring[i].body
                       /\ evt_ring'[i].cycle = evt_ring[i].cycle
  BY <1>3 DEF EventTypes
<1>5. Held(evt_idx) /\ waiting > 0
  BY DEF Held, EventThere, EventInv, EventTypes
<1>6. EventTypes'
  <2>1. evt_ring' \in [Slots -> [cycle : {0, 1}, body : Events]]
    BY <1>3 DEF EventTypes, Stale, Events
  <2> QED BY <1>1, <1>2, <1>5, <2>1 DEF EventTypes
<1>7. EventInv'
  <2>2. /\ (evt_cycle = pcs => evt_idx <= enq /\ waiting = enq - evt_idx)'
        /\ (evt_cycle # pcs => enq < evt_idx /\ waiting = enq - evt_idx + RING_TRBS)'
    BY <1>1, <1>2, <1>5 DEF EventInv, EventTypes, Held
  <2>3. \A i \in Slots : evt_ring'[i].cycle = IF i < enq' THEN pcs' ELSE 1 - pcs'
    BY <1>2, <1>4 DEF EventInv
  <2>4. ASSUME NEW i \in Slots, ~Held(i)'
        PROVE evt_ring'[i].body = Stale
    <3>1. ~Held(i) \/ i = evt_idx
      BY <2>4, <1>1, <1>2, <1>5 DEF Held, EventInv, EventTypes
    <3> QED BY <3>1, <1>4 DEF EventInv
  <2> QED BY <1>2, <2>2, <2>3, <2>4 DEF EventInv
<1> QED BY <1>4, <1>5, <1>6, <1>7

--------------------------------------------------------------------------------
(* Steps and types *)

\* There are eight requests.
LEMMA Eight == LastRequest = 8
BY DEF LastRequest, Requests

\* The event that a step of the controller may post.
HcEvents == [type : {"cmd", "xfer", "port"}, id : Slots \cup 0 .. LastRequest, code : {1, 4}]

\* What a step does to the event ring.
EventStep ==
    \/ \E b \in HcEvents : Post(b) /\ UNCHANGED evdrv
    \/ evt_advance /\ EventThere
    \/ UNCHANGED <<evdrv, evt_ring, enq, pcs, erdp, waiting>>

RunTypes ==
    /\ pc \in {"scan", "absent", "submit", "wait", "failed", "msix", "inte", "ack",
               "enable", "queue", "doorbell", "bump", "ready"}
    /\ stage \in 1 .. LastRequest
    /\ isr \in {"idle", "ack", "loop", "process", "queue", "doorbell", "bump", "end"}
    /\ got_xfer \in BOOLEAN /\ budget \in 0 .. RING_TRBS

CmdTypes ==
    /\ cmd_ring \in [Slots -> [cycle : {0, 1}, request : 0 .. LastRequest]]
    /\ cmd_idx \in 0 .. Link /\ cmd_cycle \in {0, 1}
    /\ cmd \in [deq : Slots, dcs : {0, 1}, bell : BOOLEAN]

EpTypes ==
    /\ intr_ring \in [Slots -> {0, 1}] /\ intr_idx \in 0 .. Link /\ intr_cycle \in {0, 1}
    /\ ep \in [deq : Slots, dcs : {0, 1}, bell : BOOLEAN, halted : BOOLEAN]

KeyTypes == intr_buf \subseteq Keys /\ prev_keys \subseteq Keys /\ lastReport \subseteq Keys

FlagTypes ==
    ehb \in BOOLEAN /\ ip \in BOOLEAN /\ ie \in BOOLEAN /\ inte \in BOOLEAN /\ msi \in BOOLEAN

RestTypes ==
    /\ ep0 \in [queue : Seq(1 .. LastRequest), halted : BOOLEAN]
    /\ ports \in 0 .. MaxPortEvents
    /\ completed \subseteq 1 .. LastRequest

\* TypeOK by groups of variables.
LEMMA TypeParts ==
    TypeOK <=> /\ RunTypes /\ EventTypes /\ CmdTypes /\ EpTypes
               /\ KeyTypes /\ FlagTypes /\ RestTypes
BY DEF TypeOK, RunTypes, EventTypes, CmdTypes, EpTypes, KeyTypes, FlagTypes, RestTypes

\* Every step of the system is one of three kinds on the event ring.
LEMMA EventSteps ==
    ASSUME RunTypes, CmdTypes, RestTypes, [Next]_vars
    PROVE  EventStep
<1> USE RingAssumption, Eight
<1>1. CASE UNCHANGED vars
  BY <1>1 DEF vars, evhc, EventStep, evdrv
<1>2. CASE Run
  BY <1>2 DEF Run, ScanPorts, SubmitCmd, SubmitXfer, WaitEvent, WaitTimeout, SetupMsix,
      EnableInte, AckIman, EnableIman, RunQueue, RunDoorbell, RunBump, QueueTrb,
      RingDoorbell, BumpIndex, WriteIman, evhc, EventStep
<1>3. CASE Handler
  BY <1>3 DEF Handler, IsrEnter, IsrAck, IsrEvent, IsrProcess, IsrDrained, IsrQueue,
      IsrDoorbell, IsrBump, IsrEnd, QueueTrb, RingDoorbell, BumpIndex, WriteIman, evhc,
      EventStep
<1>4. CASE Controller
  <2> USE DEF EventStep, driver, HcEvents
  <2>1. CASE HcCommand
    <3>1. \A c \in {1, 4} : Ev("cmd", cmd.deq, c) \in HcEvents
      BY DEF Ev, CmdTypes
    <3> QED BY <2>1, <3>1 DEF HcCommand
  <2>2. CASE HcControl
    <3>1. ep0.queue \in Seq(1 .. LastRequest) /\ ep0.queue # << >>
      BY <2>2 DEF HcControl, RestTypes
    <3>2. Head(ep0.queue) \in 1 .. LastRequest
      BY <3>1
    <3>3. \A c \in {1, 4} : Ev("xfer", Head(ep0.queue), c) \in HcEvents
      BY <3>2 DEF Ev
    <3> QED BY <2>2, <3>3 DEF HcControl
  <2>3. CASE HcPortChange
    <3>1. Ev("port", 0, 1) \in HcEvents
      BY DEF Ev
    <3> QED BY <2>3, <3>1 DEF HcPortChange
  <2>4. CASE HcReport
    <3>1. Ev("xfer", 0, 1) \in HcEvents
      BY DEF Ev
    <3> QED BY <2>4, <3>1 DEF HcReport
  <2>5. CASE HcTransferError
    <3>1. Ev("xfer", 0, 4) \in HcEvents
      BY DEF Ev
    <3> QED BY <2>5, <3>1 DEF HcTransferError
  <2>6. CASE HcCommandIdle \/ HcEndpointIdle
    BY <2>6 DEF HcCommandIdle, HcEndpointIdle, evhc
  <2> QED BY <1>4, <2>1, <2>2, <2>3, <2>4, <2>5, <2>6 DEF Controller
<1> QED BY <1>1, <1>2, <1>3, <1>4 DEF Next

\* run() and the handler stay at their labels, and the handler in its budget.
LEMMA RunTypesKept ==
    ASSUME RunTypes, EventTypes, [Next]_vars
    PROVE  RunTypes'
<1> USE RingAssumption, Eight DEF RunTypes
<1>1. CASE UNCHANGED vars
  BY <1>1 DEF vars, task, irq
<1>2. CASE Run
  <2>1. ASSUME NEW code \in {1, 4, 0, -1}, Conclude(code), UNCHANGED irq
        PROVE  RunTypes'
    BY <2>1 DEF Conclude, irq
  <2>2. CASE WaitTimeout
    BY <2>2, <2>1 DEF WaitTimeout
  <2>3. CASE WaitEvent
    <3>1. CASE Matches
      <4>1. evt_ring[evt_idx].body.code \in {0, 1, 4}
        BY DEF EventTypes, Events
      <4> QED BY <2>1, <2>3, <3>1, <4>1 DEF WaitEvent, Event
    <3>2. CASE ~Matches
      BY <2>3, <3>2 DEF WaitEvent, task, irq
    <3> QED BY <3>1, <3>2
  <2>4. CASE ScanPorts
    BY <2>4 DEF ScanPorts, irq
  <2>5. CASE SubmitCmd \/ SubmitXfer
    BY <2>5 DEF SubmitCmd, SubmitXfer, irq
  <2>6. CASE SetupMsix \/ EnableInte \/ AckIman \/ EnableIman \/ RunQueue \/ RunDoorbell \/ RunBump
    BY <2>6 DEF SetupMsix, EnableInte, AckIman, EnableIman, RunQueue, RunDoorbell, RunBump,
        Proceed, irq
  <2> QED BY <1>2, <2>2, <2>3, <2>4, <2>5, <2>6 DEF Run
<1>3. CASE Handler
  <2>1. CASE IsrEvent
    BY <2>1 DEF IsrEvent, task
  <2>2. CASE IsrDrained
    <3>1. isr' \in {"queue", "end"} /\ got_xfer' = FALSE /\ budget' = 0 /\ UNCHANGED task
      BY <2>2 DEF IsrDrained
    <3>2. got_xfer' \in BOOLEAN
      BY <3>1
    <3>3. budget' \in 0 .. RING_TRBS /\ isr' \in {"queue", "end"}
      BY <3>1
    <3>4. pc' = pc /\ stage' = stage
      BY <3>1 DEF task
    <3> QED BY <3>2, <3>3, <3>4
  <2>3. CASE IsrProcess
    BY <2>3 DEF IsrProcess, task
  <2>4. ASSUME NEW l \in {"idle", "ack", "loop", "doorbell", "bump", "end"}, IsrTo(l)
        PROVE  RunTypes'
    BY <2>4 DEF IsrTo, task
  <2> QED BY <1>3, <2>1, <2>2, <2>3, <2>4 DEF Handler, IsrEnter, IsrAck, IsrQueue,
          IsrDoorbell, IsrBump, IsrEnd
<1>4. CASE Controller
  BY <1>4 DEF Controller, HcCommand, HcCommandIdle, HcControl, HcPortChange, HcReport,
      HcTransferError, HcEndpointIdle, driver, task, irq
<1> QED BY <1>1, <1>2, <1>3, <1>4 DEF Next

\* The command ring's indices stay inside the ring on both sides.
LEMMA CmdTypesKept ==
    ASSUME RunTypes, CmdTypes, [Next]_vars
    PROVE  CmdTypes'
<1> USE RingAssumption, Eight DEF CmdTypes, Slots, Link
<1>1. CASE UNCHANGED vars
  BY <1>1 DEF vars, cmddrv, hc
<1>2. CASE Run
  <2>1. CASE SubmitCmd
    <3> DEFINE wrap == cmd_idx = Link
               i    == IF wrap THEN 0 ELSE cmd_idx
               cyc  == IF wrap THEN 1 - cmd_cycle ELSE cmd_cycle
               v    == IF wrap THEN cmd_cycle ELSE cmd_ring[Link].cycle
    <3>1. i \in 0 .. Link - 1 /\ cyc \in {0, 1} /\ v \in {0, 1}
      OBVIOUS
    <3>2. cmd_ring' = [cmd_ring EXCEPT ![Link].cycle = v,
                                       ![i] = [cycle |-> cyc, request |-> stage]]
          /\ cmd_idx' = i + 1 /\ cmd_cycle' = cyc /\ cmd' = [cmd EXCEPT !.bell = TRUE]
      BY <2>1 DEF SubmitCmd
    <3> HIDE DEF i, cyc, wrap, v
    <3>3. [cmd_ring EXCEPT ![Link].cycle = v]
              \in [Slots -> [cycle : {0, 1}, request : 0 .. LastRequest]]
      BY <3>1
    <3>4. [cycle |-> cyc, request |-> stage] \in [cycle : {0, 1}, request : 0 .. LastRequest]
      BY <3>1 DEF RunTypes
    <3>5. cmd_ring' \in [Slots -> [cycle : {0, 1}, request : 0 .. LastRequest]]
      BY <3>1, <3>2, <3>3, <3>4
    <3>6. cmd' \in [deq : Slots, dcs : {0, 1}, bell : BOOLEAN]
      BY <3>2
    <3> QED BY <3>1, <3>2, <3>5, <3>6
  <2>2. CASE UNCHANGED <<cmddrv, cmd>>
    BY <2>2 DEF cmddrv
  <2> QED BY <1>2, <2>1, <2>2 DEF Run, ScanPorts, SubmitCmd, SubmitXfer, WaitEvent, WaitTimeout, SetupMsix,
      EnableInte, AckIman, EnableIman, RunQueue, RunDoorbell, RunBump, QueueTrb, RingDoorbell, BumpIndex, hc
<1>3. CASE Handler
  BY <1>3 DEF Handler, IsrEnter, IsrAck, IsrEvent, IsrProcess, IsrDrained, IsrQueue,
      IsrDoorbell, IsrBump, IsrEnd, QueueTrb, RingDoorbell, BumpIndex, hc, cmddrv
<1>4. CASE Controller
  <2>1. CASE HcCommand
    BY <2>1 DEF HcCommand, HasWork, driver, cmddrv
  <2>2. CASE HcCommandIdle
    <3>1. UNCHANGED cmddrv /\ cmd' = Follow(cmd, CmdCycles)
      BY <2>2 DEF HcCommandIdle, driver
    <3>2. Follow(cmd, CmdCycles) \in [deq : Slots, dcs : {0, 1}, bell : BOOLEAN]
      <4>1. [cmd EXCEPT !.deq = 0, !.dcs = 1 - cmd.dcs] \in [deq : Slots, dcs : {0, 1}, bell : BOOLEAN]
        <5>1. cmd.dcs \in {0, 1} /\ 0 \in Slots
          OBVIOUS
        <5>2. 1 - cmd.dcs \in {0, 1}
          BY <5>1
        <5> HIDE DEF Slots
        <5> QED BY <5>1, <5>2
      <4>2. [cmd EXCEPT !.bell = FALSE] \in [deq : Slots, dcs : {0, 1}, bell : BOOLEAN]
        OBVIOUS
      <4> QED BY <4>1, <4>2 DEF Follow
    <3> QED BY <3>1, <3>2 DEF cmddrv
  <2>3. CASE UNCHANGED <<cmddrv, cmd>>
    BY <2>3 DEF cmddrv
  <2> QED BY <1>4, <2>1, <2>2, <2>3 DEF Controller, HcCommand, HcCommandIdle, HcControl, HcPortChange, HcReport,
      HcTransferError, HcEndpointIdle, driver
<1> QED BY <1>1, <1>2, <1>3, <1>4 DEF Next

\* The interrupter's flags are flags.
LEMMA FlagTypesKept ==
    ASSUME FlagTypes, [Next]_vars
    PROVE  FlagTypes'
<1> USE DEF FlagTypes
<1>1. CASE UNCHANGED vars
  BY <1>1 DEF vars, evhc
<1>2. CASE Run
  BY <1>2 DEF Run, ScanPorts, SubmitCmd, SubmitXfer, WaitEvent, WaitTimeout, SetupMsix,
      EnableInte, AckIman, EnableIman, RunQueue, RunDoorbell, RunBump, evt_advance, Raise, WriteIman, QueueTrb, RingDoorbell, BumpIndex, evhc
<1>3. CASE Handler
  BY <1>3 DEF Handler, IsrEnter, IsrAck, IsrEvent, IsrProcess, IsrDrained, IsrQueue,
      IsrDoorbell, IsrBump, IsrEnd, evt_advance, Raise, WriteIman, QueueTrb, RingDoorbell, BumpIndex, evhc
<1>4. CASE Controller
  BY <1>4 DEF Controller, HcCommand, HcCommandIdle, HcControl, HcPortChange, HcReport,
      HcTransferError, HcEndpointIdle, Post, Raise, evhc
<1> QED BY <1>1, <1>2, <1>3, <1>4 DEF Next

\* The buffers hold keys.
LEMMA KeyTypesKept ==
    ASSUME KeyTypes, [Next]_vars
    PROVE  KeyTypes'
<1> USE DEF KeyTypes
<1>1. CASE UNCHANGED vars
  BY <1>1 DEF vars, keys, hc
<1>2. CASE Run
  BY <1>2 DEF Run, ScanPorts, SubmitCmd, SubmitXfer, WaitEvent, WaitTimeout, SetupMsix,
      EnableInte, AckIman, EnableIman, RunQueue, RunDoorbell, RunBump, QueueTrb, RingDoorbell, BumpIndex, keys, hc
<1>3. CASE Handler
  BY <1>3 DEF Handler, IsrEnter, IsrAck, IsrEvent, IsrProcess, IsrDrained, IsrQueue,
      IsrDoorbell, IsrBump, IsrEnd, QueueTrb, RingDoorbell, BumpIndex, keys, hc
<1>4. CASE Controller
  BY <1>4 DEF Controller, HcCommand, HcCommandIdle, HcControl, HcPortChange, HcReport,
      HcTransferError, HcEndpointIdle, keys
<1> QED BY <1>1, <1>2, <1>3, <1>4 DEF Next

\* Control requests on their way and those carried out are requests.
LEMMA RestTypesKept ==
    ASSUME RunTypes, CmdTypes, RestTypes, [Next]_vars,
           HcCommand => cmd_ring[cmd.deq].request # 0
    PROVE  RestTypes'
<1> USE BoundAssumption DEF RestTypes
<1>1. CASE UNCHANGED vars
  BY <1>1 DEF vars, hc
<1>2. CASE Run
  <2>1. CASE SubmitXfer
    <3>1. Append(ep0.queue, stage) \in Seq(1 .. LastRequest)
      BY DEF RunTypes
    <3> QED BY <2>1, <3>1 DEF SubmitXfer
  <2>2. CASE UNCHANGED <<ep0, ports, completed>>
    BY <2>2
  <2> QED BY <1>2, <2>1, <2>2 DEF Run, ScanPorts, SubmitCmd, SubmitXfer, WaitEvent, WaitTimeout, SetupMsix,
      EnableInte, AckIman, EnableIman, RunQueue, RunDoorbell, RunBump, QueueTrb, RingDoorbell, BumpIndex, hc
<1>3. CASE Handler
  BY <1>3 DEF Handler, IsrEnter, IsrAck, IsrEvent, IsrProcess, IsrDrained, IsrQueue,
      IsrDoorbell, IsrBump, IsrEnd, QueueTrb, RingDoorbell, BumpIndex, hc
<1>4. CASE Controller
  <2>1. CASE HcCommand
    <3>1. cmd_ring[cmd.deq].request \in 1 .. LastRequest
      BY <2>1, Eight DEF CmdTypes
    <3> QED BY <2>1, <3>1 DEF HcCommand
  <2>2. CASE HcControl
    <3>1. ep0.queue \in Seq(1 .. LastRequest) /\ ep0.queue # << >>
      BY <2>2 DEF HcControl
    <3>2. Head(ep0.queue) \in 1 .. LastRequest /\ Tail(ep0.queue) \in Seq(1 .. LastRequest)
      BY <3>1, Eight
    <3>3. completed' \subseteq 1 .. LastRequest /\ UNCHANGED ports
      BY <2>2, <3>2 DEF HcControl
    <3>4. PICK c \in {1, 4} : ep0' = [queue |-> Tail(ep0.queue), halted |-> c # 1]
      BY <2>2 DEF HcControl
    <3>5. ep0' \in [queue : Seq(1 .. LastRequest), halted : BOOLEAN]
      BY <3>2, <3>4
    <3> QED BY <3>3, <3>5
  <2>3. CASE HcPortChange
    BY <2>3 DEF HcPortChange
  <2>4. CASE UNCHANGED <<ep0, ports, completed>>
    BY <2>4
  <2> QED BY <1>4, <2>1, <2>2, <2>3, <2>4 DEF Controller, HcCommand, HcCommandIdle, HcControl, HcPortChange, HcReport,
      HcTransferError, HcEndpointIdle
<1> QED BY <1>1, <1>2, <1>3, <1>4 DEF Next

--------------------------------------------------------------------------------
(* The enumeration *)

\* Where run() is after its last request.
Enumerated ==
    {"msix", "inte", "ack", "enable", "queue", "doorbell", "bump", "ready"}

StageInv ==
    /\ pc \in {"scan", "absent"} => stage = 1
    /\ pc \in Enumerated => stage = 8

\* The number of commands that run() has written to the command ring.
Sent ==
    IF stage = 1 THEN (IF pc \in {"scan", "absent", "submit"} THEN 0 ELSE 1)
    ELSE IF stage = 2 /\ pc = "submit" THEN 1
    ELSE IF stage = 8 /\ pc # "submit" THEN 3 ELSE 2

IsCmdEvent(i) == evt_ring[i].body.type = "cmd"

\* The controller has yet to execute the last command, or it has executed all
\* of them; in both cases it may be before or behind the link entry.
CmdPending ==
    \/ cmd.dcs = cmd_cycle /\ cmd.deq = cmd_idx - 1
    \/ cmd.dcs # cmd_cycle /\ cmd.deq = Link /\ cmd_cycle = 0
CmdDone ==
    \/ cmd.dcs = cmd_cycle /\ cmd.deq = cmd_idx
    \/ cmd.dcs # cmd_cycle /\ cmd.deq = 0 /\ cmd_idx = Link

\* The command ring holds the commands sent, on its second lap only if it has
\* three entries.
CmdRingInv ==
    /\ cmd_cycle = 1 => cmd_idx = Sent
    /\ cmd_cycle = 0 => Link = 2 /\ cmd_idx = 1 /\ Sent = 3
    /\ \A i \in Slots \ {Link} :
          cmd_ring[i].cycle = IF i < cmd_idx THEN cmd_cycle ELSE 1 - cmd_cycle
    /\ cmd_ring[Link].cycle = 1

\* A command is pending only while run() waits for it or has given up; its
\* completion is the only one on the event ring.
CmdEventInv ==
    \/ /\ CmdPending
       /\ pc \in {"wait", "failed"} /\ IsCmd(stage)
       /\ cmd_ring[cmd_idx - 1].request = stage
       /\ \A i \in Slots : ~IsCmdEvent(i)
    \/ /\ CmdDone
       /\ \A i \in Slots : IsCmdEvent(i) =>
             /\ pc \in {"wait", "failed"} /\ IsCmd(stage)
             /\ evt_ring[i].body.code = 1 => stage \in completed
             /\ \A j \in Slots : IsCmdEvent(j) => j = i

CmdInv == CmdRingInv /\ CmdEventInv

\* The completion of a control request says what became of that request.
XferEvents ==
    \A i \in Slots :
        evt_ring[i].body.type = "xfer" /\ evt_ring[i].body.id # 0
            /\ evt_ring[i].body.code = 1 => evt_ring[i].body.id \in completed

\* Steps that write no command and execute none.
LEMMA CmdFrame ==
    ASSUME RunTypes, CmdTypes, CmdInv, UNCHANGED <<cmddrv, cmd, stage>>,
           Sent' = Sent, completed \subseteq completed',
           pc \in {"wait", "failed"} => pc' \in {"wait", "failed"},
           \A i \in Slots : IsCmdEvent(i)' => evt_ring'[i].body = evt_ring[i].body
    PROVE  CmdInv'
<1>1. CmdRingInv'
  BY DEF CmdInv, CmdRingInv, cmddrv
<1>2. \A i \in Slots : IsCmdEvent(i)' => IsCmdEvent(i)
  BY DEF IsCmdEvent
<1>3. IsCmd(stage)' = IsCmd(stage) /\ CmdPending' = CmdPending /\ CmdDone' = CmdDone
  BY DEF IsCmd, CmdPending, CmdDone, cmddrv
<1>4. CmdEventInv'
  BY <1>2, <1>3 DEF CmdInv, CmdEventInv, cmddrv
<1> QED BY <1>1, <1>4 DEF CmdInv

\* run() goes on to the next request, when the last command is done and its
\* completion consumed.
LEMMA CmdGoesOn ==
    ASSUME RunTypes, CmdTypes, CmdInv, UNCHANGED <<cmddrv, cmd>>, Sent' = Sent, CmdDone,
           \A i \in Slots : ~IsCmdEvent(i)'
    PROVE  CmdInv'
<1>1. CmdRingInv'
  BY DEF CmdInv, CmdRingInv, cmddrv
<1>2. CmdDone'
  BY DEF CmdDone, cmddrv
<1> QED BY <1>1, <1>2 DEF CmdInv, CmdEventInv

\* run() writes a command.
LEMMA CmdSubmit ==
    ASSUME RunTypes, CmdTypes, StageInv, CmdInv, SubmitCmd
    PROVE  CmdInv'
<1> USE RingAssumption, Eight
<1>1. pc = "submit" /\ stage \in {1, 2, 8} /\ pc' = "wait" /\ stage' = stage /\ IsCmd(stage)
  BY DEF SubmitCmd, Running, IsCmd
<1>2. cmd_cycle = 1 /\ cmd_idx = Sent /\ Sent \in 0 .. 2 /\ Sent' = Sent + 1
  BY <1>1 DEF CmdInv, CmdRingInv, Sent, CmdTypes, RunTypes
<1>3. CmdDone /\ \A i \in Slots : ~IsCmdEvent(i)
  BY <1>1 DEF CmdInv, CmdEventInv
<1>4. evt_ring' = evt_ring /\ completed' = completed
      /\ cmd'.deq = cmd.deq /\ cmd'.dcs = cmd.dcs
  BY DEF SubmitCmd, evhc, CmdTypes
<1>5. \A i \in Slots : ~IsCmdEvent(i)'
  BY <1>3, <1>4 DEF IsCmdEvent
<1>6. CASE cmd_idx = Link
  <2>1. Link = 2 /\ cmd_idx' = 1 /\ cmd_cycle' = 0 /\ Sent' = 3
    BY <1>1, <1>2, <1>6 DEF SubmitCmd, Link
  <2>2. cmd_ring' = [cmd_ring EXCEPT ![2].cycle = 1, ![0] = [cycle |-> 0, request |-> stage]]
    BY <1>2, <1>6, <2>1 DEF SubmitCmd
  <2>3. Slots = {0, 1, 2}
    BY <2>1 DEF Slots, Link
  <2>4. cmd_ring'[2].cycle = 1 /\ cmd_ring'[0] = [cycle |-> 0, request |-> stage]
        /\ cmd_ring'[1] = cmd_ring[1]
    BY <2>2, <2>3 DEF CmdTypes
  <2>5. cmd_ring[1].cycle = 1
    BY <2>1, <2>3, <1>2, <1>6 DEF CmdInv, CmdRingInv
  <2>6. CmdRingInv'
    BY <2>1, <2>3, <2>4, <2>5 DEF CmdRingInv
  <2>7. CmdPending'
    BY <1>2, <1>3, <1>4, <1>6, <2>1 DEF CmdDone, CmdPending, CmdTypes
  <2>8. CmdEventInv'
    BY <2>1, <2>4, <2>7, <1>1, <1>5 DEF CmdEventInv, IsCmd
  <2> QED BY <2>6, <2>8 DEF CmdInv
<1>7. CASE cmd_idx # Link
  <2>1. cmd_idx' = cmd_idx + 1 /\ cmd_cycle' = 1
    BY <1>2, <1>7 DEF SubmitCmd
  <2>2. cmd_ring' = [cmd_ring EXCEPT ![Link].cycle = cmd_ring[Link].cycle,
                                     ![cmd_idx] = [cycle |-> 1, request |-> stage]]
    BY <1>2, <1>7 DEF SubmitCmd
  <2>3. /\ cmd_ring'[cmd_idx] = [cycle |-> 1, request |-> stage]
        /\ \A i \in Slots : i # cmd_idx => cmd_ring'[i].cycle = cmd_ring[i].cycle
    BY <2>2, <1>7 DEF CmdTypes, Slots, Link
  <2>4. CmdRingInv'
    <3>1. cmd_ring'[Link].cycle = 1
      BY <2>3, <1>7 DEF CmdInv, CmdRingInv, Slots, Link
    <3>2. \A i \in Slots \ {Link} :
              cmd_ring'[i].cycle = IF i < cmd_idx' THEN 1 ELSE 1 - 1
      BY <2>1, <2>3, <1>2 DEF CmdInv, CmdRingInv, CmdTypes, Slots
    <3> QED BY <3>1, <3>2, <2>1, <1>2 DEF CmdRingInv
  <2>5. CmdPending'
    BY <1>2, <1>3, <1>4, <1>7, <2>1 DEF CmdDone, CmdPending, CmdTypes
  <2>6. CmdEventInv'
    BY <2>1, <2>3, <2>5, <1>1, <1>2, <1>5 DEF CmdEventInv, IsCmd
  <2> QED BY <2>4, <2>6 DEF CmdInv
<1> QED BY <1>6, <1>7

\* The controller executes a command: it is the one that run() sent last.
LEMMA CmdExecuted ==
    ASSUME RunTypes, EventTypes, EventInv, CmdTypes, CmdInv, HcCommand
    PROVE  CmdInv' /\ CmdPending /\ cmd_ring[cmd.deq].request = stage
<1> USE RingAssumption, Eight DEF Slots, Link
<1>1. cmd.deq # Link /\ cmd_ring[cmd.deq].cycle = cmd.dcs
  BY DEF HcCommand, HasWork, CmdCycles, CmdTypes
<1>2. cmd.dcs = cmd_cycle /\ cmd.deq = cmd_idx - 1 /\ CmdPending
  <2>1. cmd_ring[cmd.deq].cycle = IF cmd.deq < cmd_idx THEN cmd_cycle ELSE 1 - cmd_cycle
    BY <1>1 DEF CmdInv, CmdRingInv, CmdTypes
  <2>2. ~CmdDone
    BY <1>1, <2>1 DEF CmdDone, CmdTypes
  <2> QED BY <2>2, <1>1 DEF CmdInv, CmdEventInv, CmdPending
<1>3. /\ pc \in {"wait", "failed"} /\ IsCmd(stage) /\ cmd_ring[cmd_idx - 1].request = stage
      /\ \A i \in Slots : ~IsCmdEvent(i)
  <2>1. ~CmdDone
    BY <1>2 DEF CmdDone, CmdTypes
  <2> QED BY <2>1 DEF CmdInv, CmdEventInv
<1>4. PICK c \in {1, 4} : /\ Post(Ev("cmd", cmd.deq, c))
                          /\ c = 1 => stage \in completed'
  BY <1>2, <1>3 DEF HcCommand
<1>5. Ev("cmd", cmd.deq, c) \in Events /\ UNCHANGED evdrv
  BY DEF Ev, Events, CmdTypes, HcCommand, driver
<1>6. \A i \in Slots : evt_ring'[i].body = IF i = enq THEN Ev("cmd", cmd.deq, c)
                                                    ELSE evt_ring[i].body
  <2> HIDE DEF Slots
  <2> QED BY <1>4, <1>5, PostKeeps
<1>7. \A i \in Slots : IsCmdEvent(i)' => i = enq /\ evt_ring'[i].body.code = c
  BY <1>3, <1>6 DEF IsCmdEvent, Ev
<1>8. UNCHANGED <<task, cmddrv>> /\ cmd'.deq = cmd.deq + 1 /\ cmd'.dcs = cmd.dcs
  BY DEF HcCommand, driver, CmdTypes
<1>9. CmdRingInv'
  BY <1>8 DEF CmdInv, CmdRingInv, Sent, task, cmddrv
<1>10. CmdDone'
  BY <1>2, <1>8 DEF CmdDone, CmdTypes, cmddrv
<1>11. pc' = pc /\ stage' = stage
  BY <1>8 DEF task
<1>12. CmdEventInv'
  BY <1>3, <1>4, <1>7, <1>10, <1>11 DEF CmdEventInv, IsCmd
<1> QED BY <1>2, <1>3, <1>9, <1>12 DEF CmdInv

\* The controller follows the link entry or stops.
LEMMA CmdFollowed ==
    ASSUME RunTypes, CmdTypes, CmdInv, HcCommandIdle
    PROVE  CmdInv'
<1> USE RingAssumption, Eight DEF Slots, Link
<1>1. UNCHANGED <<task, cmddrv, evt_ring, completed>> /\ cmd' = Follow(cmd, CmdCycles)
  BY DEF HcCommandIdle, driver, evhc
<1>2. \/ cmd.deq = Link /\ cmd.dcs = 1 /\ cmd'.deq = 0 /\ cmd'.dcs = 0
      \/ cmd'.deq = cmd.deq /\ cmd'.dcs = cmd.dcs
  <2>1. CmdCycles[Link] = 1
    BY DEF CmdCycles, CmdInv, CmdRingInv
  <2>2. CASE cmd.deq = Link /\ cmd.dcs = 1
    <3>1. cmd' = [cmd EXCEPT !.deq = 0, !.dcs = 1 - cmd.dcs]
      BY <1>1, <2>1, <2>2 DEF Follow
    <3> QED BY <3>1, <2>2 DEF CmdTypes
  <2>3. CASE ~(cmd.deq = Link /\ cmd.dcs = 1)
    <3>1. cmd' = [cmd EXCEPT !.bell = FALSE]
      BY <1>1, <2>1, <2>3 DEF Follow
    <3> QED BY <3>1 DEF CmdTypes
  <2> QED BY <2>2, <2>3
<1>3. pc' = pc /\ stage' = stage /\ cmd_ring' = cmd_ring /\ cmd_idx' = cmd_idx
      /\ cmd_cycle' = cmd_cycle /\ evt_ring' = evt_ring /\ completed' = completed
  BY <1>1 DEF task, cmddrv
<1>4. (CmdPending => CmdPending') /\ (CmdDone => CmdDone')
  BY <1>2, <1>3 DEF CmdPending, CmdDone, CmdTypes, CmdInv, CmdRingInv
<1>5. CmdRingInv' /\ CmdEventInv'
  BY <1>3, <1>4 DEF CmdInv, CmdRingInv, CmdEventInv, Sent, IsCmd, IsCmdEvent
<1> QED BY <1>5 DEF CmdInv

\* The enumeration is in order, and no request was passed without success.
EnumInv == StageInv /\ CmdInv /\ XferEvents /\ OwnCompletion

\* Steps that leave the enumeration where it is.
LEMMA EnumFrame ==
    ASSUME RunTypes, CmdTypes, EnumInv, UNCHANGED <<task, cmddrv, cmd>>,
           completed \subseteq completed',
           \A i \in Slots : \/ evt_ring'[i].body = evt_ring[i].body
                            \/ /\ evt_ring'[i].body.type # "cmd"
                               /\ \/ evt_ring'[i].body.type # "xfer"
                                  \/ evt_ring'[i].body.id = 0
                                  \/ evt_ring'[i].body.code # 1
                                  \/ evt_ring'[i].body.id \in completed'
    PROVE  EnumInv'
<1>1. pc' = pc /\ stage' = stage
  BY DEF task
<1>2. StageInv' /\ OwnCompletion'
  BY <1>1 DEF EnumInv, StageInv, OwnCompletion, Enumerated
<1>3. XferEvents'
  BY DEF EnumInv, XferEvents
<1>4. Sent' = Sent
  BY <1>1 DEF Sent
<1>5. \A i \in Slots : IsCmdEvent(i)' => evt_ring'[i].body = evt_ring[i].body
  BY DEF IsCmdEvent
<1>6. CmdInv'
  BY <1>1, <1>4, <1>5, CmdFrame DEF EnumInv
<1> QED BY <1>2, <1>3, <1>6 DEF EnumInv

\* The handler leaves it alone: it consumes events, and writes nothing to the
\* command ring.
LEMMA EnumHandler ==
    ASSUME RunTypes, EventTypes, EventInv, CmdTypes, EnumInv, Handler
    PROVE  EnumInv'
<1>1. UNCHANGED <<task, cmddrv, cmd, completed>>
  BY DEF Handler, IsrEnter, IsrAck, IsrEvent, IsrProcess, IsrDrained, IsrQueue, IsrDoorbell,
      IsrBump, IsrEnd, IsrTo, QueueTrb, RingDoorbell, BumpIndex, hc
<1>2. \A i \in Slots : evt_ring'[i].body = evt_ring[i].body \/ evt_ring'[i].body = Stale
  <2>1. CASE IsrEvent
    BY <2>1, AdvanceKeeps DEF IsrEvent
  <2>2. CASE evt_ring' = evt_ring
    BY <2>2
  <2> QED BY <2>1, <2>2 DEF Handler, IsrEnter, IsrAck, IsrProcess, IsrDrained, IsrQueue,
          IsrDoorbell, IsrBump, IsrEnd, QueueTrb, RingDoorbell, BumpIndex, WriteIman, evhc
<1> QED BY <1>1, <1>2, EnumFrame DEF Stale

\* The controller: a completion tells what was carried out.
LEMMA EnumController ==
    ASSUME RunTypes, EventTypes, EventInv, CmdTypes, RestTypes, EnumInv, Controller
    PROVE  EnumInv'
<1> USE Eight
<1>1. CASE HcCommand
  <2>1. CmdInv' /\ UNCHANGED task /\ completed \subseteq completed'
    BY <1>1, CmdExecuted DEF EnumInv, HcCommand, driver
  <2>2. PICK c \in {1, 4} : Post(Ev("cmd", cmd.deq, c))
    BY <1>1 DEF HcCommand
  <2>3. Ev("cmd", cmd.deq, c) \in Events /\ UNCHANGED evdrv
    BY <1>1 DEF Ev, Events, CmdTypes, HcCommand, driver
  <2>4. \A i \in Slots : evt_ring'[i].body = IF i = enq THEN Ev("cmd", cmd.deq, c)
                                                      ELSE evt_ring[i].body
    BY <2>2, <2>3, PostKeeps
  <2>5. XferEvents'
    BY <2>1, <2>4 DEF EnumInv, XferEvents, Ev
  <2>6. StageInv' /\ OwnCompletion'
    BY <2>1 DEF task, EnumInv, StageInv, OwnCompletion, Enumerated
  <2> QED BY <2>1, <2>5, <2>6 DEF EnumInv
<1>2. CASE HcCommandIdle
  <2>1. CmdInv' /\ UNCHANGED <<task, evt_ring, completed>>
    BY <1>2, CmdFollowed DEF EnumInv, HcCommandIdle, driver, evhc
  <2> QED BY <2>1 DEF EnumInv, StageInv, OwnCompletion, XferEvents, task, Enumerated
<1>3. ASSUME NEW b \in Events, Post(b), UNCHANGED <<driver, cmd>>, completed \subseteq completed',
             \/ b.type = "port"
             \/ b.type = "xfer" /\ (b.id = 0 \/ b.code # 1 \/ b.id \in completed')
      PROVE  EnumInv'
  <2>1. UNCHANGED <<task, cmddrv, cmd>> /\ UNCHANGED evdrv
    BY <1>3 DEF driver
  <2>2. \A i \in Slots : evt_ring'[i].body = IF i = enq THEN b ELSE evt_ring[i].body
    BY <1>3, <2>1, PostKeeps
  <2> QED BY <1>3, <2>1, <2>2, EnumFrame
<1>4. CASE HcControl
  <2>1. Head(ep0.queue) \in 1 .. LastRequest
    BY <1>4 DEF HcControl, RestTypes
  <2>2. PICK c \in {1, 4} : /\ Post(Ev("xfer", Head(ep0.queue), c))
                            /\ c = 1 => Head(ep0.queue) \in completed'
                            /\ completed \subseteq completed'
    BY <1>4 DEF HcControl
  <2>3. Ev("xfer", Head(ep0.queue), c) \in Events
    BY <2>1 DEF Ev, Events
  <2> QED BY <1>4, <2>2, <2>3, <1>3 DEF HcControl, Ev
<1>5. CASE HcPortChange
  <2>1. Ev("port", 0, 1) \in Events
    BY DEF Ev, Events
  <2> QED BY <1>5, <2>1, <1>3 DEF HcPortChange, Ev
<1>6. CASE HcReport \/ HcTransferError
  <2>1. \A c \in {1, 4} : Ev("xfer", 0, c) \in Events
    BY DEF Ev, Events
  <2> QED BY <1>6, <2>1, <1>3 DEF HcReport, HcTransferError, Ev
<1>7. CASE HcEndpointIdle
  <2>1. UNCHANGED <<task, cmddrv, cmd, evt_ring, completed>>
    BY <1>7 DEF HcEndpointIdle, driver, evhc
  <2> QED BY <2>1, EnumFrame
<1> QED BY <1>1, <1>2, <1>4, <1>5, <1>6, <1>7 DEF Controller

\* run(): it goes on only after a success of the request at hand, or of one
\* that it does not look at.
LEMMA EnumRun ==
    ASSUME RunTypes, EventTypes, EventInv, CmdTypes, RestTypes, EnumInv, Run
    PROVE  EnumInv'
<1> USE Eight
<1> DEFINE Other == UNCHANGED <<cmddrv, cmd, evt_ring, completed>>
<1>1. CASE ScanPorts
  <2>1. pc = "scan" /\ pc' \in {"submit", "absent"} /\ stage' = stage /\ stage = 1 /\ Other
    BY <1>1 DEF ScanPorts, Running, hc, evhc, EnumInv, StageInv
  <2>2. Sent' = Sent
    BY <2>1 DEF Sent
  <2>3. CmdInv'
    BY <2>1, <2>2, CmdFrame DEF EnumInv
  <2>4. StageInv' /\ XferEvents' /\ OwnCompletion'
    BY <2>1 DEF EnumInv, StageInv, XferEvents, OwnCompletion, Enumerated
  <2> QED BY <2>3, <2>4 DEF EnumInv
<1>2. CASE SubmitCmd
  <2>1. CmdInv'
    BY <1>2, CmdSubmit DEF EnumInv
  <2>2. pc = "submit" /\ pc' = "wait" /\ UNCHANGED <<stage, evt_ring, completed>>
    BY <1>2 DEF SubmitCmd, Running, evhc
  <2> QED BY <2>1, <2>2 DEF EnumInv, StageInv, XferEvents, OwnCompletion, Enumerated
<1>3. CASE SubmitXfer
  <2>1. pc = "submit" /\ pc' = "wait" /\ stage' = stage /\ Other /\ stage \notin {1, 2, 8}
    BY <1>3 DEF SubmitXfer, Running, evhc, IsCmd
  <2>2. Sent' = Sent
    BY <2>1 DEF Sent
  <2>3. CmdInv'
    BY <2>1, <2>2, CmdFrame DEF EnumInv
  <2> QED BY <2>1, <2>3 DEF EnumInv, StageInv, XferEvents, OwnCompletion, Enumerated
<1>4. CASE WaitEvent
  <2>1. pc = "wait" /\ evt_advance /\ EventThere /\ UNCHANGED <<cmddrv, cmd, completed>>
    BY <1>4 DEF WaitEvent, Running, hc
  <2>2. \A i \in Slots :
            evt_ring'[i].body = IF i = evt_idx THEN Stale ELSE evt_ring[i].body
    BY <2>1, AdvanceKeeps
  <2>3. XferEvents'
    BY <2>1, <2>2 DEF EnumInv, XferEvents, Stale
  <2>4. CASE ~Matches
    <3>1. UNCHANGED task
      BY <1>4, <2>4 DEF WaitEvent
    <3> QED BY <2>1, <2>2, <3>1, EnumFrame DEF Stale
  <2>5. CASE Matches /\ Event.code # 1 /\ ~Ignored(stage)
    <3>1. pc' = "failed" /\ stage' = stage
      BY <1>4, <2>5 DEF WaitEvent, Conclude
    <3>2. Sent' = Sent
      BY <2>1, <3>1 DEF Sent
    <3>3. \A i \in Slots : IsCmdEvent(i)' => evt_ring'[i].body = evt_ring[i].body
      BY <2>2 DEF IsCmdEvent, Stale
    <3>4. CmdInv'
      BY <2>1, <3>1, <3>2, <3>3, CmdFrame DEF EnumInv
    <3> QED BY <2>1, <2>3, <3>1, <3>4 DEF EnumInv, StageInv, OwnCompletion, Enumerated
  <2>6. CASE Matches /\ (Event.code = 1 \/ Ignored(stage))
    <3>1. ~Ignored(stage) => stage \in completed
      <4>1. CASE IsCmd(stage)
        <5>1. IsCmdEvent(evt_idx) /\ Event.code = 1
          BY <2>6, <4>1 DEF Matches, IsCmdEvent, Event, IsCmd, Ignored
        <5> QED BY <5>1 DEF EnumInv, CmdInv, CmdEventInv, Event, EventTypes
      <4>2. CASE ~IsCmd(stage)
        <5>1. Event.type = "xfer" /\ Event.id = stage
          BY <2>6, <4>2 DEF Matches
        <5> QED BY <5>1, <2>6 DEF EnumInv, XferEvents, Event, EventTypes, RunTypes
      <4> QED BY <4>1, <4>2
    <3>2. CmdDone /\ \A i \in Slots : ~IsCmdEvent(i)'
      <4>1. CASE IsCmd(stage)
        <5>1. IsCmdEvent(evt_idx) /\ evt_idx \in Slots
          BY <2>6, <4>1 DEF Matches, IsCmdEvent, Event, EventTypes
        <5>2. CmdDone /\ \A i \in Slots : IsCmdEvent(i) => i = evt_idx
          BY <5>1 DEF EnumInv, CmdInv, CmdEventInv
        <5> QED BY <5>2, <2>2 DEF IsCmdEvent, Stale
      <4>2. CASE ~IsCmd(stage)
        <5>1. CmdDone /\ \A i \in Slots : ~IsCmdEvent(i)
          BY <4>2 DEF EnumInv, CmdInv, CmdEventInv
        <5> QED BY <5>1, <2>2 DEF IsCmdEvent, Stale
      <4> QED BY <4>1, <4>2
    <3>3. \/ stage < 8 /\ pc' = "submit" /\ stage' = stage + 1
          \/ stage = 8 /\ pc' = "msix" /\ stage' = stage
          \/ stage = 4 /\ pc' = "failed" /\ stage' = stage
      <4>1. Conclude(Event.code)
        BY <1>4, <2>6 DEF WaitEvent
      <4>2. Requests[stage] = "get_config_descriptor" => stage = 4
        BY DEF Requests, RunTypes
      <4> QED BY <2>6, <4>1, <4>2 DEF Conclude
    <3>4. Sent' = Sent
      BY <2>1, <3>3 DEF Sent, RunTypes
    <3>5. CmdInv'
      BY <2>1, <3>2, <3>4, CmdGoesOn DEF EnumInv
    <3>6. StageInv'
      BY <3>3 DEF StageInv, Enumerated, RunTypes
    <3>7. OwnCompletion'
      BY <2>1, <3>1, <3>3 DEF EnumInv, OwnCompletion, RunTypes, Ignored
    <3> QED BY <2>3, <3>5, <3>6, <3>7 DEF EnumInv
  <2> QED BY <2>4, <2>5, <2>6
<1>5. CASE WaitTimeout
  <2>1. pc = "wait" /\ Conclude(-1) /\ Other
    BY <1>5 DEF WaitTimeout, Running, hc, evhc
  <2>2. CASE ~Ignored(stage)
    <3>1. pc' = "failed" /\ stage' = stage
      BY <2>1, <2>2 DEF Conclude
    <3>2. Sent' = Sent
      BY <2>1, <3>1 DEF Sent
    <3>3. CmdInv'
      BY <2>1, <3>1, <3>2, CmdFrame DEF EnumInv
    <3> QED BY <2>1, <3>1, <3>3 DEF EnumInv, StageInv, XferEvents, OwnCompletion, Enumerated
  <2>3. CASE Ignored(stage)
    <3>1. stage \in {6, 7} /\ pc' = "submit" /\ stage' = stage + 1
      BY <2>1, <2>3 DEF Conclude, Ignored, Requests
    <3>2. CmdDone /\ \A i \in Slots : ~IsCmdEvent(i)'
      BY <2>1, <3>1 DEF EnumInv, CmdInv, CmdEventInv, IsCmd, IsCmdEvent
    <3>3. Sent' = Sent
      BY <2>1, <3>1 DEF Sent
    <3>4. CmdInv'
      BY <2>1, <3>2, <3>3, CmdGoesOn DEF EnumInv
    <3>5. OwnCompletion'
      BY <2>1, <3>1 DEF EnumInv, OwnCompletion, Ignored
    <3> QED BY <2>1, <3>1, <3>4, <3>5 DEF EnumInv, StageInv, XferEvents, Enumerated
  <2> QED BY <2>2, <2>3
<1>6. CASE SetupMsix \/ EnableInte \/ AckIman \/ EnableIman \/ RunQueue \/ RunDoorbell \/ RunBump
  <2>1. pc \in Enumerated /\ pc' \in Enumerated \cup {"failed"} /\ stage' = stage
    BY <1>6 DEF SetupMsix, EnableInte, AckIman, EnableIman, RunQueue, RunDoorbell, RunBump,
        Running, Proceed, Enumerated
  <2>2. Other
    BY <1>6 DEF SetupMsix, EnableInte, AckIman, EnableIman, RunQueue, RunDoorbell, RunBump,
        QueueTrb, RingDoorbell, BumpIndex, WriteIman, hc, evhc
  <2>3. Sent' = Sent
    BY <2>1 DEF Sent, Enumerated, EnumInv, StageInv
  <2>4. CmdInv'
    BY <2>1, <2>2, <2>3, CmdFrame DEF EnumInv, Enumerated
  <2>5. StageInv' /\ OwnCompletion'
    BY <2>1, <2>2 DEF EnumInv, StageInv, OwnCompletion, Enumerated
  <2> QED BY <2>2, <2>4, <2>5 DEF EnumInv, XferEvents
<1> QED BY <1>1, <1>2, <1>3, <1>4, <1>5, <1>6 DEF Run

\* All steps.
LEMMA EnumKept ==
    ASSUME RunTypes, EventTypes, EventInv, CmdTypes, RestTypes, EnumInv, [Next]_vars
    PROVE  EnumInv'
<1>1. CASE UNCHANGED vars
  <2>1. UNCHANGED <<task, cmddrv, cmd, evt_ring, completed>>
    BY <1>1 DEF vars, evhc, hc
  <2> QED BY <2>1, EnumFrame
<1> QED BY <1>1, EnumRun, EnumHandler, EnumController DEF Next

--------------------------------------------------------------------------------
(* The reports *)

IsReport(i) == evt_ring[i].body.type = "xfer" /\ evt_ring[i].body.id = 0
NoFlight    == \A i \in Slots : ~IsReport(i)
OneFlight   == \E i \in Slots : IsReport(i) /\ \A j \in Slots : IsReport(j) => j = i

\* The handler in its last steps, or before it has met a report.
Aside == isr \in {"idle", "ack", "loop", "end"}

\* The first entry of the interrupt ring that the driver has not written: its
\* index, or the next one when an entry is written and the index not bumped.
Written  == pc \in {"doorbell", "bump"} \/ isr \in {"doorbell", "bump"}
Frontier == IF Written THEN intr_idx + 1 ELSE intr_idx

\* The entries before w are of the driver's lap, the others of the lap before.
RingTo(w) ==
    \A i \in Slots : intr_ring[i] = IF i < w THEN intr_cycle ELSE 1 - intr_cycle

\* The controller has executed all entries before w, or all but one.
Executed(w) == ep.dcs = intr_cycle /\ ep.deq = w
Queued(w) ==
    \/ ep.dcs = intr_cycle /\ w = ep.deq + 1
    \/ ep.dcs # intr_cycle /\ ep.deq = Link /\ w = 1

\* run() has not queued the first transfer.
BeforeQueue ==
    /\ pc \notin {"doorbell", "bump", "ready"}
    /\ intr_idx = 0 /\ intr_cycle = 1 /\ RingTo(0)
    /\ Executed(0) /\ ~ep.bell
    /\ NoFlight /\ ~got_xfer /\ Aside
    /\ prev_keys = lastReport

InUse ==
    /\ pc \in {"doorbell", "bump", "ready"}
    /\ pc # "ready" => intr_idx = 0 /\ intr_cycle = 1
    /\ Frontier <= Link /\ RingTo(Frontier)

\* The transfer is with the controller.
OnRing ==
    /\ InUse /\ Queued(Frontier) /\ NoFlight /\ ~got_xfer
    /\ isr \notin {"process", "queue"}
    /\ pc # "ready" => Aside
    /\ IF pc = "doorbell" THEN ~ep.bell ELSE ep.bell \/ isr = "doorbell"
    /\ intr_buf = {} /\ prev_keys = lastReport

\* Its report, or its error, is on the event ring.
Announced ==
    /\ InUse /\ Executed(Frontier) /\ OneFlight /\ ~got_xfer
    /\ isr \notin {"process", "queue"}
    /\ pc # "ready" => pc = "bump" /\ FastDevice /\ Aside
    /\ intr_buf = lastReport

\* The handler has consumed the event; process_keys follows, then the next
\* transfer.
Processing ==
    /\ InUse /\ Executed(Frontier) /\ NoFlight
    /\ isr = "process" /\ ~got_xfer
    /\ pc # "ready" => pc = "bump" /\ FastDevice
    /\ intr_buf = lastReport
Processed ==
    /\ InUse /\ Executed(Frontier) /\ NoFlight
    /\ IF got_xfer THEN isr = "loop" ELSE isr = "queue"
    /\ pc # "ready" => pc = "bump" /\ FastDevice
    /\ prev_keys = lastReport

\* The first report came before run() bumped the index: the second transfer
\* went to the first one's entry, and the controller never meets it.
Lost ==
    /\ FastDevice
    /\ \/ pc = "bump" /\ isr \in {"doorbell", "bump"} /\ intr_idx = 0
       \/ pc = "bump" /\ Aside /\ intr_idx = 1
       \/ pc = "ready" /\ Aside /\ intr_idx = 2
    /\ intr_cycle = 1 /\ RingTo(1) /\ Executed(1)
    /\ NoFlight /\ ~got_xfer /\ prev_keys = lastReport

XferInv == BeforeQueue \/ OnRing \/ Announced \/ Processing \/ Processed \/ Lost

\* What a new event does to the reports on the event ring.
LEMMA ReportPosted ==
    ASSUME EventTypes, EventInv, NEW b \in Events, Post(b), UNCHANGED evdrv
    PROVE  /\ b.type # "xfer" \/ b.id # 0 =>
                  (NoFlight => NoFlight') /\ (OneFlight => OneFlight')
           /\ b.type = "xfer" /\ b.id = 0 /\ NoFlight => OneFlight'
<1>1. /\ evt_ring[enq].body = Stale /\ enq \in Slots
      /\ \A i \in Slots : evt_ring'[i].body = IF i = enq THEN b ELSE evt_ring[i].body
  BY PostKeeps DEF EventTypes
<1>2. ~IsReport(enq)
  BY <1>1 DEF IsReport, Stale
<1>3. \A i \in Slots : i # enq => IsReport(i)' = IsReport(i)
  BY <1>1 DEF IsReport
<1>4. \A i \in Slots : i = enq => (IsReport(i)' <=> b.type = "xfer" /\ b.id = 0)
  BY <1>1 DEF IsReport
<1>5. ASSUME b.type # "xfer" \/ b.id # 0
      PROVE  (NoFlight => NoFlight') /\ (OneFlight => OneFlight')
  <2>1. \A i \in Slots : IsReport(i)' <=> IsReport(i)
    BY <1>2, <1>3, <1>4, <1>5
  <2> QED BY <2>1 DEF NoFlight, OneFlight
<1>6. ASSUME b.type = "xfer", b.id = 0, NoFlight
      PROVE  OneFlight'
  BY <1>1, <1>3, <1>4, <1>6 DEF NoFlight, OneFlight
<1> QED BY <1>5, <1>6

\* What consuming an event does to them.
LEMMA ReportTaken ==
    ASSUME EventTypes, EventInv, evt_advance, EventThere
    PROVE  /\ NoFlight => NoFlight' /\ ~FromKeyboard
           /\ OneFlight /\ FromKeyboard => NoFlight'
           /\ OneFlight /\ ~FromKeyboard => OneFlight'
<1>1. /\ evt_idx \in Slots
      /\ \A i \in Slots :
            evt_ring'[i].body = IF i = evt_idx THEN Stale ELSE evt_ring[i].body
  BY AdvanceKeeps DEF EventTypes
<1>2. \A i \in Slots : i = evt_idx => ~IsReport(i)'
  BY <1>1 DEF IsReport, Stale
<1>3. \A i \in Slots : i # evt_idx => IsReport(i)' = IsReport(i)
  BY <1>1 DEF IsReport
<1>4. FromKeyboard <=> IsReport(evt_idx)
  BY DEF FromKeyboard, Event, IsReport
<1>5. NoFlight => NoFlight' /\ ~FromKeyboard
  BY <1>1, <1>2, <1>3, <1>4 DEF NoFlight
<1>6. OneFlight /\ FromKeyboard => NoFlight'
  BY <1>1, <1>2, <1>3, <1>4 DEF NoFlight, OneFlight
<1>7. OneFlight /\ ~FromKeyboard => OneFlight'
  BY <1>1, <1>2, <1>3, <1>4 DEF OneFlight
<1> QED BY <1>5, <1>6, <1>7

\* Steps of run() on other business, of the handler, and of the controller, that
\* leave the interrupt ring and the reports where they are.
LEMMA XferFrame ==
    ASSUME XferInv, UNCHANGED <<epdrv, ep, keys, lastReport, got_xfer>>,
           NoFlight => NoFlight', OneFlight => OneFlight',
           \/ UNCHANGED <<pc, isr>>
           \/ UNCHANGED pc /\ Aside /\ Aside' /\ ~got_xfer
           \/ isr' = isr /\ {pc, pc'} \cap {"doorbell", "bump", "ready"} = {}
    PROVE  XferInv'
<1> DEFINE same == /\ intr_ring' = intr_ring /\ intr_idx' = intr_idx
                   /\ intr_cycle' = intr_cycle /\ intr_buf' = intr_buf
                   /\ prev_keys' = prev_keys /\ ep' = ep
<1>1. same
  BY DEF epdrv, keys
<1>2. \A w : /\ RingTo(w)' <=> RingTo(w)
             /\ Executed(w)' <=> Executed(w)
             /\ Queued(w)' <=> Queued(w)
  BY <1>1 DEF RingTo, Executed, Queued
<1>3. CASE UNCHANGED <<pc, isr>>
  <2>1. Frontier' = Frontier /\ (Aside' <=> Aside)
    BY <1>1, <1>3 DEF Frontier, Written, Aside
  <2>2. InUse' <=> InUse
    BY <1>1, <1>2, <1>3, <2>1 DEF InUse
  <2>3. CASE BeforeQueue
    BY <1>1, <1>2, <1>3, <2>1, <2>3 DEF BeforeQueue, XferInv
  <2>4. CASE OnRing
    BY <1>1, <1>2, <1>3, <2>1, <2>2, <2>4 DEF OnRing, XferInv
  <2>5. CASE Announced
    BY <1>1, <1>2, <1>3, <2>1, <2>2, <2>5 DEF Announced, XferInv
  <2>6. CASE Processing
    BY <1>1, <1>2, <1>3, <2>1, <2>2, <2>6 DEF Processing, XferInv
  <2>7. CASE Processed
    BY <1>1, <1>2, <1>3, <2>1, <2>2, <2>7 DEF Processed, XferInv
  <2>8. CASE Lost
    BY <1>1, <1>2, <1>3, <2>1, <2>8 DEF Lost, XferInv
  <2> QED BY <2>3, <2>4, <2>5, <2>6, <2>7, <2>8 DEF XferInv
<1>4. CASE UNCHANGED pc /\ Aside /\ Aside' /\ ~got_xfer
  <2>1. Frontier' = Frontier /\ isr' \notin {"process", "queue", "doorbell", "bump"}
        /\ isr \notin {"process", "queue", "doorbell", "bump"}
    BY <1>1, <1>4 DEF Frontier, Written, Aside
  <2>2. InUse' <=> InUse
    BY <1>1, <1>2, <1>4, <2>1 DEF InUse
  <2>3. CASE BeforeQueue
    BY <1>1, <1>2, <1>4, <2>3 DEF BeforeQueue, XferInv
  <2>4. CASE OnRing
    BY <1>1, <1>2, <1>4, <2>1, <2>2, <2>4 DEF OnRing, XferInv
  <2>5. CASE Announced
    BY <1>1, <1>2, <1>4, <2>1, <2>2, <2>5 DEF Announced, XferInv
  <2>6. CASE Processing \/ Processed
    BY <1>4, <2>1, <2>6 DEF Processing, Processed
  <2>8. CASE Lost
    BY <1>1, <1>2, <1>4, <2>1, <2>8 DEF Lost, XferInv
  <2> QED BY <2>3, <2>4, <2>5, <2>6, <2>8 DEF XferInv
<1>5. CASE isr' = isr /\ {pc, pc'} \cap {"doorbell", "bump", "ready"} = {}
  <2>1. pc \notin {"doorbell", "bump", "ready"} /\ pc' \notin {"doorbell", "bump", "ready"}
    BY <1>5
  <2>2. BeforeQueue
    BY <2>1 DEF XferInv, OnRing, Announced, Processing, Processed, InUse, Lost
  <2> QED BY <1>1, <1>2, <1>5, <2>1, <2>2 DEF BeforeQueue, XferInv, Aside
<1> QED BY <1>3, <1>4, <1>5

\* Writing an entry, at its index w or past the link entry.
LEMMA EntryWritten ==
    ASSUME EpTypes, WrapAndWrite, intr_idx = 0 \/ Executed(intr_idx), RingTo(intr_idx)
    PROVE  /\ intr_idx' = (IF intr_idx = Link THEN 0 ELSE intr_idx)
           /\ intr_cycle' = (IF intr_idx = Link THEN 1 - intr_cycle ELSE intr_cycle)
           /\ RingTo(intr_idx + 1)'
           /\ intr_ring' \in [Slots -> {0, 1}]
<1> USE RingAssumption DEF EpTypes
<1>1. CASE intr_idx = Link
  <2>1. intr_idx' = 0 /\ intr_cycle' = 1 - intr_cycle
        /\ intr_ring' = [intr_ring EXCEPT ![Link] = intr_cycle, ![0] = 1 - intr_cycle]
    BY <1>1 DEF WrapAndWrite, Link
  <2>2. \A i \in Slots : intr_ring'[i] = IF i = 0 THEN 1 - intr_cycle ELSE intr_cycle
    BY <1>1, <2>1 DEF RingTo, Slots, Link
  <2>3. intr_ring' \in [Slots -> {0, 1}]
    BY <2>1 DEF Slots, Link
  <2> QED BY <1>1, <2>1, <2>2, <2>3 DEF RingTo, Slots
<1>2. CASE intr_idx # Link
  <2>1. intr_idx' = intr_idx /\ intr_cycle' = intr_cycle
        /\ intr_ring' = [intr_ring EXCEPT ![Link] = intr_ring[Link], ![intr_idx] = intr_cycle]
    <3>1. ~(intr_idx >= Link)
      BY <1>2 DEF Link
    <3> QED BY <3>1 DEF WrapAndWrite
  <2>2. \A i \in Slots :
            intr_ring'[i] = IF i = intr_idx THEN intr_cycle ELSE intr_ring[i]
    BY <1>2, <2>1 DEF Slots, Link
  <2>3. intr_ring' \in [Slots -> {0, 1}]
    BY <1>2, <2>1 DEF Slots, Link
  <2> QED BY <1>2, <2>1, <2>2, <2>3 DEF RingTo, Slots
<1> QED BY <1>1, <1>2

\* run(): the first transfer.
LEMMA XferRun ==
    ASSUME RunTypes, EventTypes, EventInv, EpTypes, FlagTypes, XferInv, Run
    PROVE  XferInv'
<1> USE RingAssumption
<1> DEFINE rest == UNCHANGED <<epdrv, ep, keys, lastReport, got_xfer>>
<1> DEFINE early == {pc, pc'} \cap {"doorbell", "bump", "ready"} = {}
<1> HIDE DEF rest, early
<1>1. CASE WaitEvent
  <2>1. rest /\ early /\ isr' = isr
    BY <1>1 DEF WaitEvent, Running, Conclude, task, hc, irq, rest, early
  <2>2. evt_advance /\ EventThere
    BY <1>1 DEF WaitEvent
  <2>3. NoFlight
    BY <1>1 DEF WaitEvent, Running, XferInv, BeforeQueue, OnRing, Announced, Processing,
        Processed, InUse, Lost
  <2>4. NoFlight' /\ ~OneFlight
    BY <2>2, <2>3, ReportTaken DEF NoFlight, OneFlight
  <2> QED BY <2>1, <2>4, XferFrame DEF rest, early
<1>2. CASE ScanPorts \/ SubmitCmd \/ SubmitXfer \/ WaitTimeout \/ SetupMsix
           \/ EnableInte \/ AckIman \/ EnableIman
  <2>1. rest /\ isr' = isr /\ evt_ring' = evt_ring
    BY <1>2 DEF ScanPorts, SubmitCmd, SubmitXfer, WaitTimeout, SetupMsix, EnableInte,
        AckIman, EnableIman, Proceed, WriteIman, irq, hc, evhc, rest
  <2>2. pc \notin {"doorbell", "bump", "ready"} /\ pc' \notin {"doorbell", "bump", "ready"}
    BY <1>2 DEF ScanPorts, SubmitCmd, SubmitXfer, WaitTimeout, SetupMsix, EnableInte,
        AckIman, EnableIman, Proceed, Running, Conclude
  <2>3. (NoFlight' <=> NoFlight) /\ (OneFlight' <=> OneFlight)
    BY <2>1 DEF NoFlight, OneFlight, IsReport
  <2>4. early
    BY <2>2 DEF early
  <2> QED BY <2>1, <2>3, <2>4, XferFrame DEF rest, early
<1>3. CASE RunQueue
  <2>1. pc = "queue" /\ pc' = "doorbell" /\ isr = "idle" /\ isr' = "idle" /\ got_xfer' = got_xfer
        /\ WrapAndWrite /\ intr_buf' = {}
        /\ prev_keys' = prev_keys /\ ep' = ep /\ lastReport' = lastReport /\ evt_ring' = evt_ring
    BY <1>3 DEF RunQueue, Running, Proceed, QueueTrb, irq, evhc, hc
  <2>2. BeforeQueue
    BY <2>1 DEF XferInv, OnRing, Announced, Processing, Processed, InUse, Lost
  <2>3. intr_idx = 0 /\ RingTo(intr_idx) /\ intr_cycle = 1 /\ Link # 0 /\ 1 <= Link
    BY <2>2 DEF BeforeQueue, Link
  <2>4. intr_idx' = 0 /\ intr_cycle' = 1 /\ RingTo(intr_idx + 1)'
    BY <2>1, <2>3, EntryWritten
  <2>5. Frontier' = 1 /\ intr_idx' + 1 = 1
    BY <2>1, <2>4 DEF Frontier, Written
  <2>6. InUse'
    BY <2>1, <2>3, <2>4, <2>5 DEF InUse
  <2>7. Queued(Frontier)'
    BY <2>1, <2>2, <2>3, <2>4, <2>5 DEF BeforeQueue, Executed, Queued
  <2>8. NoFlight'
    BY <2>1, <2>2 DEF BeforeQueue, NoFlight, IsReport
  <2>9. OnRing'
    BY <2>1, <2>2, <2>6, <2>7, <2>8 DEF OnRing, BeforeQueue, Aside
  <2> QED BY <2>9 DEF XferInv
<1>4. CASE RunDoorbell
  <2>1. pc = "doorbell" /\ pc' = "bump" /\ isr = "idle" /\ isr' = "idle" /\ got_xfer' = got_xfer
        /\ UNCHANGED <<epdrv, keys, lastReport, evt_ring>>
        /\ ep' = [ep EXCEPT !.bell = TRUE]
    BY <1>4 DEF RunDoorbell, Running, Proceed, RingDoorbell, irq, evhc
  <2>2. OnRing
    BY <2>1 DEF XferInv, BeforeQueue, Announced, Processing, Processed, Lost, Aside
  <2>3. ep'.deq = ep.deq /\ ep'.dcs = ep.dcs /\ ep'.bell
    BY <2>1 DEF EpTypes
  <2>4. intr_ring' = intr_ring /\ intr_idx' = intr_idx /\ intr_cycle' = intr_cycle
        /\ intr_buf' = intr_buf /\ prev_keys' = prev_keys /\ Frontier' = Frontier
    BY <2>1 DEF epdrv, keys, Frontier, Written
  <2>5. InUse'
    BY <2>1, <2>2, <2>4 DEF InUse, OnRing, RingTo
  <2>6. Queued(Frontier)' /\ NoFlight'
    BY <2>1, <2>2, <2>3, <2>4 DEF OnRing, Queued, NoFlight, IsReport
  <2>7. OnRing'
    BY <2>1, <2>2, <2>3, <2>4, <2>5, <2>6 DEF OnRing, Aside
  <2> QED BY <2>7 DEF XferInv
<1>5. CASE RunBump
  <2>1. pc = "bump" /\ pc' = "ready" /\ isr = "idle" /\ isr' = "idle" /\ got_xfer' = got_xfer
        /\ intr_idx' = intr_idx + 1 /\ intr_ring' = intr_ring /\ intr_cycle' = intr_cycle
        /\ intr_buf' = intr_buf /\ prev_keys' = prev_keys /\ ep' = ep
        /\ lastReport' = lastReport /\ evt_ring' = evt_ring
    BY <1>5 DEF RunBump, Running, Proceed, BumpIndex, irq, keys, evhc, hc
  <2>2. \A w : /\ RingTo(w)' <=> RingTo(w)
               /\ Executed(w)' <=> Executed(w)
               /\ Queued(w)' <=> Queued(w)
    BY <2>1 DEF RingTo, Executed, Queued
  <2>3. (NoFlight' <=> NoFlight) /\ (OneFlight' <=> OneFlight)
    BY <2>1 DEF NoFlight, OneFlight, IsReport
  <2>4. Frontier' = Frontier
    BY <2>1 DEF Frontier, Written
  <2>5. InUse => InUse'
    BY <2>1, <2>2, <2>4 DEF InUse
  <2>6. CASE OnRing
    BY <2>1, <2>2, <2>3, <2>4, <2>5, <2>6 DEF OnRing, XferInv
  <2>7. CASE Announced
    BY <2>1, <2>2, <2>3, <2>4, <2>5, <2>7 DEF Announced, XferInv
  <2>8. CASE Lost
    BY <2>1, <2>2, <2>3, <2>8 DEF Lost, XferInv, Aside
  <2>9. ~BeforeQueue /\ ~Processing /\ ~Processed
    <3>1. ~BeforeQueue /\ ~Processing
      BY <2>1 DEF BeforeQueue, Processing
    <3>2. ~Processed
      BY <2>1 DEF Processed
    <3> QED BY <3>1, <3>2
  <2> QED BY <2>6, <2>7, <2>8, <2>9 DEF XferInv
<1> QED BY <1>1, <1>2, <1>3, <1>4, <1>5 DEF Run

\* The handler: a report consumed, processed, and the next transfer queued.
LEMMA XferHandler ==
    ASSUME RunTypes, EventTypes, EventInv, EpTypes, FlagTypes, XferInv, Handler
    PROVE  XferInv'
<1> USE RingAssumption
<1> DEFINE rest == UNCHANGED <<epdrv, ep, keys, lastReport>>
<1> HIDE DEF rest
<1>1. CASE IsrEnter \/ IsrAck \/ IsrEnd
  <2>1. rest /\ got_xfer' = got_xfer /\ pc' = pc /\ evt_ring' = evt_ring
    BY <1>1 DEF IsrEnter, IsrAck, IsrEnd, IsrTo, WriteIman, hc, task, rest
  <2>2. Aside /\ Aside' /\ isr \in {"idle", "ack", "end"}
    BY <1>1 DEF IsrEnter, IsrAck, IsrEnd, IsrTo, Aside
  <2>3. (NoFlight' <=> NoFlight) /\ (OneFlight' <=> OneFlight)
    BY <2>1 DEF NoFlight, OneFlight, IsReport
  <2>4. ~got_xfer
    BY <2>2 DEF XferInv, BeforeQueue, OnRing, Announced, Processing, Processed, Lost
  <2> QED BY <2>1, <2>2, <2>3, <2>4, XferFrame DEF rest
<1>2. CASE IsrEvent
  <2>1. rest /\ got_xfer' = got_xfer /\ pc' = pc /\ isr = "loop"
        /\ isr' = IF FromKeyboard THEN "process" ELSE "loop"
    BY <1>2 DEF IsrEvent, hc, task, rest
  <2>2. evt_advance /\ EventThere
    BY <1>2 DEF IsrEvent
  <2>3. CASE ~FromKeyboard
    <3>1. (NoFlight => NoFlight') /\ (OneFlight => OneFlight')
      BY <2>2, <2>3, ReportTaken
    <3>2. isr' = isr
      BY <2>1, <2>3
    <3> QED BY <2>1, <3>1, <3>2, XferFrame DEF rest
  <2>4. CASE FromKeyboard
    <3>1. ~NoFlight /\ (OneFlight => NoFlight')
      BY <2>2, <2>4, ReportTaken
    <3>2. Announced
      BY <3>1 DEF XferInv, BeforeQueue, OnRing, Processing, Processed, Lost
    <3>3. NoFlight' /\ isr' = "process" /\ pc' = pc /\ ~got_xfer'
      BY <2>1, <2>4, <3>1, <3>2 DEF Announced
    <3>4. intr_ring' = intr_ring /\ intr_idx' = intr_idx /\ intr_cycle' = intr_cycle
          /\ intr_buf' = intr_buf /\ ep' = ep /\ lastReport' = lastReport
      BY <2>1 DEF rest, epdrv, keys
    <3>5. Frontier' = Frontier
      BY <2>1, <3>3, <3>4 DEF Frontier, Written
    <3>6. InUse' /\ Executed(Frontier)'
      BY <3>2, <3>3, <3>4, <3>5 DEF Announced, InUse, RingTo, Executed
    <3>7. Processing'
      BY <3>2, <3>3, <3>4, <3>6 DEF Announced, Processing
    <3> QED BY <3>7 DEF XferInv
  <2> QED BY <2>3, <2>4
<1>3. CASE IsrProcess
  <2>1. isr = "process" /\ isr' = "loop" /\ got_xfer' = TRUE /\ prev_keys' = intr_buf
        /\ pc' = pc /\ intr_buf' = intr_buf /\ evt_ring' = evt_ring
        /\ intr_ring' = intr_ring /\ intr_idx' = intr_idx /\ intr_cycle' = intr_cycle
        /\ ep' = ep /\ lastReport' = lastReport
    BY <1>3 DEF IsrProcess, task, epdrv, evhc, hc
  <2>2. Processing
    BY <2>1 DEF XferInv, BeforeQueue, OnRing, Announced, Processed, Lost, Aside
  <2>3. Frontier' = Frontier
    BY <2>1 DEF Frontier, Written
  <2>4. InUse' /\ Executed(Frontier)' /\ NoFlight'
    BY <2>1, <2>2, <2>3 DEF Processing, InUse, RingTo, Executed, NoFlight, IsReport
  <2>5. Processed'
    BY <2>1, <2>2, <2>4 DEF Processing, Processed
  <2> QED BY <2>5 DEF XferInv
<1>4. CASE IsrDrained
  <2>1. isr = "loop" /\ (isr' = IF got_xfer THEN "queue" ELSE "end") /\ got_xfer' = FALSE
        /\ pc' = pc /\ evt_ring' = evt_ring /\ rest
    BY <1>4 DEF IsrDrained, Drained, task, evhc, hc, rest
  <2>2. (NoFlight' <=> NoFlight) /\ (OneFlight' <=> OneFlight)
    BY <2>1 DEF NoFlight, OneFlight, IsReport
  <2>3. CASE ~got_xfer
    <3>1. isr' = "end"
      BY <2>1, <2>3
    <3>2. got_xfer' = got_xfer /\ Aside /\ Aside'
      BY <2>1, <2>3, <3>1 DEF RunTypes, Aside
    <3> QED BY <2>1, <2>2, <2>3, <3>2, XferFrame DEF rest
  <2>4. CASE got_xfer
    <3>1. Processed
      BY <2>4 DEF XferInv, BeforeQueue, OnRing, Announced, Processing, Lost
    <3>2. isr' = "queue" /\ ~got_xfer'
      BY <2>1, <2>4
    <3>3. intr_ring' = intr_ring /\ intr_idx' = intr_idx /\ intr_cycle' = intr_cycle
          /\ prev_keys' = prev_keys /\ ep' = ep /\ lastReport' = lastReport
      BY <2>1 DEF rest, epdrv, keys
    <3>4. Frontier' = Frontier
      BY <2>1, <3>2, <3>3 DEF Frontier, Written
    <3>5. InUse' /\ Executed(Frontier)'
      BY <2>1, <3>1, <3>3, <3>4 DEF Processed, InUse, RingTo, Executed
    <3>6. Processed'
      BY <2>1, <2>2, <3>1, <3>2, <3>3, <3>5 DEF Processed
    <3> QED BY <3>6 DEF XferInv
  <2> QED BY <2>3, <2>4
<1>5. CASE IsrQueue
  <2>1. isr = "queue" /\ isr' = "doorbell" /\ got_xfer' = got_xfer /\ pc' = pc
        /\ WrapAndWrite /\ intr_buf' = {} /\ prev_keys' = prev_keys
        /\ ep' = ep /\ lastReport' = lastReport /\ evt_ring' = evt_ring
    BY <1>5 DEF IsrQueue, IsrTo, QueueTrb, task, evhc, hc
  <2>2. Processed /\ ~got_xfer
    BY <2>1 DEF XferInv, BeforeQueue, OnRing, Announced, Processing, Processed, Lost, Aside
  <2>3. NoFlight'
    BY <2>1, <2>2 DEF Processed, NoFlight, IsReport
  <2>4. CASE pc = "ready"
    <3>1. Frontier = intr_idx /\ Executed(intr_idx) /\ RingTo(intr_idx) /\ intr_idx <= Link
      BY <2>1, <2>2, <2>4 DEF Frontier, Written, Processed, InUse
    <3>2. /\ intr_idx' = (IF intr_idx = Link THEN 0 ELSE intr_idx)
          /\ intr_cycle' = (IF intr_idx = Link THEN 1 - intr_cycle ELSE intr_cycle)
          /\ RingTo(intr_idx + 1)'
      BY <2>1, <3>1, EntryWritten
    <3>3. Frontier' = intr_idx' + 1 /\ intr_idx' + 1 <= Link
      BY <2>1, <3>1, <3>2 DEF Frontier, Written, EpTypes, Link
    <3>4. InUse'
      BY <2>1, <2>4, <3>2, <3>3 DEF InUse
    <3>5. Queued(Frontier)'
      BY <2>1, <3>1, <3>2, <3>3 DEF Queued, Executed, EpTypes
    <3>6. OnRing'
      BY <2>1, <2>2, <2>3, <2>4, <3>4, <3>5 DEF OnRing, Processed
    <3> QED BY <3>6 DEF XferInv
  <2>5. CASE pc # "ready"
    <3>1. pc = "bump" /\ FastDevice /\ intr_idx = 0 /\ intr_cycle = 1
      BY <2>2, <2>5 DEF Processed, InUse
    <3>2. Frontier = 1 /\ RingTo(1) /\ Executed(1) /\ 0 # Link /\ Link \in Nat
      BY <2>2, <3>1 DEF Frontier, Written, Processed, InUse, Link
    <3>3. intr_idx' = 0 /\ intr_cycle' = 1
          /\ intr_ring' = [intr_ring EXCEPT ![Link] = intr_ring[Link], ![0] = 1]
      <4>1. ~(intr_idx >= Link)
        BY <3>1, <3>2
      <4> QED BY <2>1, <3>1, <4>1 DEF WrapAndWrite
    <3>4. \A i \in Slots : intr_ring'[i] = intr_ring[i]
      BY <3>1, <3>2, <3>3 DEF RingTo, EpTypes, Slots, Link
    <3>5. RingTo(1)' /\ Executed(1)'
      BY <2>1, <3>1, <3>2, <3>3, <3>4 DEF RingTo, Executed
    <3>6. Lost'
      BY <2>1, <2>2, <2>3, <3>1, <3>3, <3>5 DEF Lost, Processed
    <3> QED BY <3>6 DEF XferInv
  <2> QED BY <2>4, <2>5
<1>6. CASE IsrDoorbell
  <2>1. isr = "doorbell" /\ isr' = "bump" /\ got_xfer' = got_xfer /\ pc' = pc
        /\ intr_ring' = intr_ring /\ intr_idx' = intr_idx /\ intr_cycle' = intr_cycle
        /\ intr_buf' = intr_buf /\ prev_keys' = prev_keys
        /\ lastReport' = lastReport /\ evt_ring' = evt_ring
        /\ ep' = [ep EXCEPT !.bell = TRUE]
    BY <1>6 DEF IsrDoorbell, IsrTo, RingDoorbell, task, epdrv, keys, evhc
  <2>2. ep'.deq = ep.deq /\ ep'.dcs = ep.dcs /\ ep'.bell
    BY <2>1 DEF EpTypes
  <2>3. \A w : /\ RingTo(w)' <=> RingTo(w)
               /\ Executed(w)' <=> Executed(w)
               /\ Queued(w)' <=> Queued(w)
    BY <2>1, <2>2 DEF RingTo, Executed, Queued
  <2>4. (NoFlight' <=> NoFlight) /\ (OneFlight' <=> OneFlight) /\ Frontier' = Frontier
    BY <2>1 DEF NoFlight, OneFlight, IsReport, Frontier, Written
  <2>5. InUse => InUse'
    BY <2>1, <2>3, <2>4 DEF InUse
  <2>6. CASE OnRing
    BY <2>1, <2>2, <2>3, <2>4, <2>5, <2>6 DEF OnRing, XferInv, Aside
  <2>7. CASE Announced
    BY <2>1, <2>3, <2>4, <2>5, <2>7 DEF Announced, XferInv, Aside
  <2>8. CASE Lost
    BY <2>1, <2>3, <2>4, <2>8 DEF Lost, XferInv, Aside
  <2>9. ~BeforeQueue /\ ~Processing /\ ~Processed
    BY <2>1 DEF BeforeQueue, Processing, Processed, Aside
  <2> QED BY <2>6, <2>7, <2>8, <2>9 DEF XferInv
<1>7. CASE IsrBump
  <2>1. isr = "bump" /\ isr' = "end" /\ got_xfer' = got_xfer /\ pc' = pc
        /\ intr_ring' = intr_ring /\ intr_idx' = intr_idx + 1 /\ intr_cycle' = intr_cycle
        /\ intr_buf' = intr_buf /\ prev_keys' = prev_keys /\ ep' = ep
        /\ lastReport' = lastReport /\ evt_ring' = evt_ring
    BY <1>7 DEF IsrBump, IsrTo, BumpIndex, task, keys, evhc, hc
  <2>2. \A w : /\ RingTo(w)' <=> RingTo(w)
               /\ Executed(w)' <=> Executed(w)
               /\ Queued(w)' <=> Queued(w)
    BY <2>1 DEF RingTo, Executed, Queued
  <2>3. (NoFlight' <=> NoFlight) /\ (OneFlight' <=> OneFlight)
    BY <2>1 DEF NoFlight, OneFlight, IsReport
  <2>4. pc = "ready" => Frontier' = Frontier
    BY <2>1 DEF Frontier, Written
  <2>5. pc = "ready" /\ InUse => InUse'
    BY <2>1, <2>2, <2>4 DEF InUse
  <2>6. CASE OnRing
    <3>1. pc = "ready"
      BY <2>1, <2>6 DEF OnRing, InUse, Aside
    <3> QED BY <2>1, <2>2, <2>3, <2>4, <2>5, <2>6, <3>1 DEF OnRing, XferInv
  <2>7. CASE Announced
    <3>1. pc = "ready"
      BY <2>1, <2>7 DEF Announced, InUse, Aside
    <3> QED BY <2>1, <2>2, <2>3, <2>4, <2>5, <2>7, <3>1 DEF Announced, XferInv
  <2>8. CASE Lost
    BY <2>1, <2>2, <2>3, <2>8 DEF Lost, XferInv, Aside
  <2>9. ~BeforeQueue /\ ~Processing /\ ~Processed
    BY <2>1 DEF BeforeQueue, Processing, Processed, Aside
  <2> QED BY <2>6, <2>7, <2>8, <2>9 DEF XferInv
<1> QED BY <1>1, <1>2, <1>3, <1>4, <1>5, <1>6, <1>7 DEF Handler

\* The controller has an entry to execute only if the driver queued one.
LEMMA WorkQueued ==
    ASSUME EpTypes, XferInv, ep.bell
    PROVE  /\ HasWork(ep, intr_ring) => OnRing /\ Executed(Frontier - 1) /\ pc # "doorbell"
           /\ ~HasWork(ep, intr_ring) /\ OnRing =>
                  ep.deq = Link /\ ep.dcs # intr_cycle /\ Frontier = 1
                  /\ intr_ring[Link] = ep.dcs
<1> USE RingAssumption DEF EpTypes, Slots, Link
<1>1. Frontier \in Nat
  BY DEF Frontier
<1>2. ASSUME NEW w \in 0 .. Link, Executed(w), RingTo(w)
      PROVE  ~HasWork(ep, intr_ring)
  BY <1>2 DEF Executed, RingTo, HasWork
<1>3. HasWork(ep, intr_ring) => OnRing
  <2>1. Announced \/ Processing \/ Processed => ~HasWork(ep, intr_ring)
    BY <1>1, <1>2 DEF Announced, Processing, Processed, InUse
  <2>2. Lost => ~HasWork(ep, intr_ring)
    BY <1>2 DEF Lost
  <2> QED BY <2>1, <2>2 DEF XferInv, BeforeQueue
<1>4. ASSUME HasWork(ep, intr_ring), OnRing
      PROVE  Executed(Frontier - 1) /\ pc # "doorbell"
  BY <1>1, <1>4 DEF OnRing, InUse, Queued, HasWork, Executed
<1>5. ASSUME ~HasWork(ep, intr_ring), OnRing
      PROVE  /\ ep.deq = Link /\ ep.dcs # intr_cycle /\ Frontier = 1
             /\ intr_ring[Link] = ep.dcs
  <2>1. RingTo(Frontier) /\ Frontier <= Link /\ Queued(Frontier)
    BY <1>5 DEF OnRing, InUse
  <2>2. CASE ep.dcs = intr_cycle /\ Frontier = ep.deq + 1
    BY <1>1, <1>5, <2>1, <2>2 DEF RingTo, HasWork
  <2>3. CASE ep.dcs # intr_cycle /\ ep.deq = Link /\ Frontier = 1
    BY <2>1, <2>3 DEF RingTo
  <2> QED BY <2>1, <2>2, <2>3 DEF Queued
<1> QED BY <1>3, <1>4, <1>5

\* The controller executes the transfer, or follows the link entry to it.
LEMMA XferController ==
    ASSUME RunTypes, EventTypes, EventInv, CmdTypes, RestTypes, EpTypes, XferInv, Controller
    PROVE  XferInv'
<1> USE RingAssumption
<1> DEFINE rest == UNCHANGED <<epdrv, keys, got_xfer, pc, isr>> /\ UNCHANGED evdrv
<1> HIDE DEF rest
<1>1. ASSUME NEW b \in Events, Post(b), b.type # "xfer" \/ b.id # 0,
             UNCHANGED <<ep, lastReport>>, rest
      PROVE  XferInv'
  <2>1. (NoFlight => NoFlight') /\ (OneFlight => OneFlight')
    BY <1>1, ReportPosted DEF rest
  <2> QED BY <1>1, <2>1, XferFrame DEF rest
<1>2. CASE HcCommand
  <2>1. \A c \in {1, 4} : Ev("cmd", cmd.deq, c) \in Events /\ Ev("cmd", cmd.deq, c).type # "xfer"
    BY DEF Ev, Events, CmdTypes
  <2>2. rest
    BY <1>2 DEF HcCommand, driver, task, irq, rest
  <2> QED BY <1>1, <1>2, <2>1, <2>2 DEF HcCommand
<1>3. CASE HcControl
  <2>1. Head(ep0.queue) \in 1 .. LastRequest
    BY <1>3, Eight DEF HcControl, RestTypes
  <2>2. \A c \in {1, 4} : Ev("xfer", Head(ep0.queue), c) \in Events
                          /\ Ev("xfer", Head(ep0.queue), c).id # 0
    BY <2>1, Eight DEF Ev, Events
  <2>3. rest
    BY <1>3 DEF HcControl, driver, task, irq, rest
  <2> QED BY <1>1, <1>3, <2>2, <2>3 DEF HcControl
<1>4. CASE HcPortChange
  <2>1. Ev("port", 0, 1) \in Events /\ Ev("port", 0, 1).type # "xfer"
    BY Eight DEF Ev, Events
  <2>2. rest
    BY <1>4 DEF HcPortChange, driver, task, irq, rest
  <2> QED BY <1>1, <1>4, <2>1, <2>2 DEF HcPortChange
<1>5. CASE HcCommandIdle
  <2>1. rest /\ UNCHANGED <<ep, lastReport, evt_ring>>
    BY <1>5 DEF HcCommandIdle, driver, task, irq, evhc, rest
  <2>2. (NoFlight' <=> NoFlight) /\ (OneFlight' <=> OneFlight)
    BY <2>1 DEF NoFlight, OneFlight, IsReport
  <2> QED BY <2>1, <2>2, XferFrame DEF rest
<1>6. CASE HcReport \/ HcTransferError
  <2>1. HasWork(ep, intr_ring) /\ ep.bell /\ (FastDevice \/ pc = "ready")
    BY <1>6 DEF HcReport, HcTransferError, HasWork
  <2>2. OnRing /\ Executed(Frontier - 1) /\ pc # "doorbell"
    BY <2>1, WorkQueued
  <2>3. /\ pc' = pc /\ isr' = isr /\ got_xfer' = got_xfer /\ intr_ring' = intr_ring
        /\ intr_idx' = intr_idx /\ intr_cycle' = intr_cycle /\ UNCHANGED evdrv
    BY <1>6 DEF HcReport, HcTransferError, driver, task, irq, epdrv
  <2>4. ep'.deq = ep.deq + 1 /\ ep'.dcs = ep.dcs
    BY <1>6 DEF HcReport, HcTransferError, EpTypes
  <2>5. intr_buf' = lastReport'
    BY <1>6, <2>2 DEF HcReport, HcTransferError, OnRing, keys
  <2>6. OneFlight'
    <3>1. PICK c \in {1, 4} : Post(Ev("xfer", 0, c))
      BY <1>6 DEF HcReport, HcTransferError
    <3>2. Ev("xfer", 0, c) \in Events /\ Ev("xfer", 0, c).type = "xfer" /\ Ev("xfer", 0, c).id = 0
      BY Eight DEF Ev, Events
    <3> QED BY <2>2, <2>3, <3>1, <3>2, ReportPosted DEF OnRing
  <2>7. Frontier' = Frontier /\ Frontier \in Int
    BY <2>3 DEF Frontier, Written, EpTypes
  <2>8. InUse'
    BY <2>2, <2>3, <2>7 DEF OnRing, InUse, RingTo
  <2>9. Executed(Frontier)'
    BY <2>2, <2>3, <2>4, <2>7 DEF Executed, EpTypes
  <2>10. Announced'
    <3>1. pc # "ready" => pc = "bump" /\ FastDevice /\ Aside'
      BY <2>1, <2>2, <2>3 DEF OnRing, InUse, Aside
    <3> QED BY <2>2, <2>3, <2>5, <2>6, <2>8, <2>9, <3>1 DEF OnRing, Announced
  <2> QED BY <2>10 DEF XferInv
<1>7. CASE HcEndpointIdle
  <2>1. /\ pc' = pc /\ isr' = isr /\ got_xfer' = got_xfer /\ intr_ring' = intr_ring
        /\ intr_idx' = intr_idx /\ intr_cycle' = intr_cycle
        /\ intr_buf' = intr_buf /\ prev_keys' = prev_keys
        /\ lastReport' = lastReport /\ evt_ring' = evt_ring
    BY <1>7 DEF HcEndpointIdle, driver, task, irq, epdrv, keys, evhc
  <2>2. ep.bell /\ ~HasWork(ep, intr_ring) /\ ep' = Follow(ep, intr_ring)
    BY <1>7 DEF HcEndpointIdle
  <2>3. (NoFlight' <=> NoFlight) /\ (OneFlight' <=> OneFlight) /\ Frontier' = Frontier
        /\ (Aside' <=> Aside)
    BY <2>1 DEF NoFlight, OneFlight, IsReport, Frontier, Written, Aside
  <2>4. \A w : RingTo(w)' <=> RingTo(w)
    BY <2>1 DEF RingTo
  <2>5. InUse' <=> InUse
    BY <2>1, <2>3, <2>4 DEF InUse
  <2>6. CASE OnRing
    <3>1. ep.deq = Link /\ ep.dcs # intr_cycle /\ Frontier = 1 /\ intr_ring[Link] = ep.dcs
      BY <2>2, <2>6, WorkQueued
    <3>2. ep' = [ep EXCEPT !.deq = 0, !.dcs = 1 - ep.dcs]
      BY <2>2, <3>1 DEF Follow
    <3>3. ep'.deq = 0 /\ ep'.dcs = intr_cycle /\ ep'.bell = ep.bell
      BY <3>1, <3>2 DEF EpTypes
    <3>4. Queued(Frontier)'
      BY <2>1, <2>3, <3>1, <3>3 DEF Queued
    <3> QED BY <2>1, <2>2, <2>3, <2>5, <2>6, <3>3, <3>4 DEF OnRing, XferInv
  <2>7. ASSUME NEW w \in 0 .. Link, Executed(w), RingTo(w)
        PROVE  Executed(w)'
    <3>1. ~(ep.deq = Link /\ intr_ring[Link] = ep.dcs)
      BY <2>7 DEF Executed, RingTo, EpTypes, Slots, Link
    <3>2. ep' = [ep EXCEPT !.bell = FALSE]
      BY <2>2, <3>1 DEF Follow
    <3>3. ep'.deq = ep.deq /\ ep'.dcs = ep.dcs
      BY <3>2 DEF EpTypes
    <3> QED BY <2>1, <2>7, <3>3 DEF Executed
  <2>8. InUse => Frontier \in 0 .. Link /\ RingTo(Frontier)
    BY DEF InUse, Frontier, EpTypes, Link
  <2>9. InUse /\ Executed(Frontier) => Executed(Frontier)'
    BY <2>3, <2>7, <2>8 DEF Executed
  <2>10. CASE Announced
    BY <2>1, <2>3, <2>5, <2>9, <2>10 DEF Announced, XferInv
  <2>11. CASE Processing
    BY <2>1, <2>3, <2>5, <2>9, <2>11 DEF Processing, XferInv
  <2>12. CASE Processed
    BY <2>1, <2>3, <2>5, <2>9, <2>12 DEF Processed, XferInv
  <2>13. CASE Lost
    <3>1. 1 \in 0 .. Link
      BY DEF Link
    <3>2. Executed(1)'
      BY <2>7, <2>13, <3>1 DEF Lost
    <3> QED BY <2>1, <2>3, <2>4, <2>13, <3>2 DEF Lost, XferInv
  <2>14. ~BeforeQueue
    BY <2>2 DEF BeforeQueue
  <2> QED BY <2>6, <2>10, <2>11, <2>12, <2>13, <2>14 DEF XferInv
<1> QED BY <1>2, <1>3, <1>4, <1>5, <1>6, <1>7 DEF Controller

\* The interrupt ring's indices stay inside the ring on both sides.
LEMMA EpTypesKept ==
    ASSUME RunTypes, EpTypes, XferInv, [Next]_vars
    PROVE  EpTypes'
<1> USE RingAssumption
<1> DEFINE EpType == [deq : Slots, dcs : {0, 1}, bell : BOOLEAN, halted : BOOLEAN]
<1>1. Link \in Nat /\ Link >= 2 /\ 0 \in Slots /\ \A i \in Slots : i # Link => i + 1 \in Slots
  BY DEF Link, Slots
<1>2. CASE UNCHANGED <<epdrv, ep>>
  BY <1>2 DEF epdrv, EpTypes
<1>3. CASE WrapAndWrite /\ ep' = ep
  <2>1. intr_ring' \in [Slots -> {0, 1}]
    <3>1. DEFINE wrap == intr_idx >= Link
                 a == IF wrap THEN intr_cycle ELSE intr_ring[Link]
                 i == IF wrap THEN 0 ELSE intr_idx
                 c == IF wrap THEN 1 - intr_cycle ELSE intr_cycle
    <3>2. a \in {0, 1} /\ i \in Slots /\ c \in {0, 1}
      BY <1>1 DEF EpTypes, Slots, Link
    <3>3. intr_ring' = [intr_ring EXCEPT ![Link] = a, ![i] = c]
      BY <1>3 DEF WrapAndWrite
    <3> HIDE DEF a, i, c
    <3> QED BY <3>2, <3>3 DEF EpTypes
  <2> QED BY <1>1, <1>3, <2>1 DEF WrapAndWrite, EpTypes
<1>4. CASE RunBump \/ IsrBump
  <2>1. (pc = "bump" /\ isr = "idle") \/ isr = "bump"
    BY <1>4 DEF RunBump, IsrBump, Running
  <2>2. intr_idx + 1 <= Link
    <3>1. InUse => intr_idx + 1 <= Link
      BY <2>1 DEF InUse, Frontier, Written
    <3>2. Lost => intr_idx + 1 <= Link
      BY <1>1, <2>1 DEF Lost, Aside
    <3>3. ~BeforeQueue
      BY <2>1 DEF BeforeQueue, Aside
    <3> QED BY <3>1, <3>2, <3>3 DEF XferInv, OnRing, Announced, Processing, Processed
  <2>3. intr_idx' = intr_idx + 1 /\ intr_ring' = intr_ring /\ intr_cycle' = intr_cycle /\ ep' = ep
    BY <1>4 DEF RunBump, IsrBump, BumpIndex, hc
  <2> QED BY <1>1, <2>2, <2>3 DEF EpTypes
<1>5. ASSUME ep' \in EpType, UNCHANGED epdrv
      PROVE  EpTypes'
  BY <1>5 DEF epdrv, EpTypes
<1>6. CASE RunDoorbell \/ IsrDoorbell
  <2>1. ep' = [ep EXCEPT !.bell = TRUE] /\ UNCHANGED epdrv
    BY <1>6 DEF RunDoorbell, IsrDoorbell, RingDoorbell
  <2>2. ep' \in EpType
    BY <2>1 DEF EpTypes
  <2> QED BY <2>1, <2>2, <1>5
<1>7. CASE HcReport \/ HcTransferError
  <2>1. ep.deq + 1 \in Slots
    BY <1>1, <1>7 DEF HcReport, HcTransferError, HasWork, EpTypes
  <2>2. UNCHANGED epdrv
    BY <1>7 DEF HcReport, HcTransferError, driver
  <2>3. ep' \in EpType
    <3>1. ep' = [ep EXCEPT !.deq = ep.deq + 1]
          \/ ep' = [ep EXCEPT !.deq = ep.deq + 1, !.halted = TRUE]
      BY <1>7 DEF HcReport, HcTransferError
    <3> QED BY <2>1, <3>1 DEF EpTypes
  <2> QED BY <2>2, <2>3, <1>5
<1>8. CASE HcEndpointIdle
  <2>1. ep' = Follow(ep, intr_ring) /\ UNCHANGED epdrv
    BY <1>8 DEF HcEndpointIdle, driver
  <2>2. 1 - ep.dcs \in {0, 1}
    BY DEF EpTypes
  <2>3. [ep EXCEPT !.deq = 0, !.dcs = 1 - ep.dcs] \in EpType
    BY <1>1, <2>2 DEF EpTypes
  <2>4. [ep EXCEPT !.bell = FALSE] \in EpType
    BY DEF EpTypes
  <2>5. ep' \in EpType
    BY <2>1, <2>3, <2>4 DEF Follow
  <2> QED BY <2>1, <2>5, <1>5
<1>9. CASE UNCHANGED vars
  BY <1>2, <1>9 DEF vars, hc
<1>10. CASE Run
  BY <1>2, <1>3, <1>4, <1>6, <1>10 DEF Run, ScanPorts, SubmitCmd, SubmitXfer, WaitEvent,
      WaitTimeout, SetupMsix, EnableInte, AckIman, EnableIman, RunQueue, QueueTrb, hc
<1>11. CASE Handler
  BY <1>2, <1>3, <1>4, <1>6, <1>11 DEF Handler, IsrEnter, IsrAck, IsrEvent, IsrProcess,
      IsrDrained, IsrQueue, IsrEnd, QueueTrb, hc
<1>12. CASE Controller
  BY <1>2, <1>7, <1>8, <1>12 DEF Controller, HcCommand, HcCommandIdle, HcControl,
      HcPortChange, driver
<1> QED BY <1>9, <1>10, <1>11, <1>12 DEF Next

--------------------------------------------------------------------------------
(* The invariant *)

IInv == TypeOK /\ EventInv /\ EnumInv /\ XferInv

\* It holds when the rings are set up.
LEMMA InitInv == Init => IInv
<1> SUFFICES ASSUME Init PROVE IInv
  OBVIOUS
<1> USE RingAssumption, BoundAssumption, Eight DEF Init, Slots, Link
<1>1. RunTypes /\ CmdTypes /\ EpTypes /\ KeyTypes /\ FlagTypes
  <2>1. RunTypes
    <3>1. pc = "scan" /\ isr = "idle" /\ stage \in 1 .. LastRequest /\ budget \in 0 .. RING_TRBS
      OBVIOUS
    <3>2. got_xfer \in BOOLEAN
      OBVIOUS
    <3> QED BY <3>1, <3>2 DEF RunTypes
  <2>2. CmdTypes
    BY DEF CmdTypes
  <2>3. EpTypes
    BY DEF EpTypes
  <2>4. KeyTypes /\ FlagTypes
    BY DEF KeyTypes, FlagTypes
  <2> QED BY <2>1, <2>2, <2>3, <2>4
<1>2. EventTypes
  <2>1. Stale \in Events
    BY DEF Stale, Events
  <2> QED BY <2>1 DEF EventTypes
<1>3. RestTypes
  <2>1. << >> \in Seq(1 .. LastRequest)
    OBVIOUS
  <2> QED BY <2>1 DEF RestTypes
<1>4. EventInv
  BY DEF EventInv
<1>5. EnumInv
  <2>1. \A i \in Slots : ~IsCmdEvent(i)
    BY DEF IsCmdEvent, Stale
  <2>2. CmdInv
    BY <2>1 DEF CmdInv, CmdRingInv, CmdEventInv, CmdDone, Sent
  <2>3. StageInv /\ XferEvents /\ OwnCompletion
    BY DEF StageInv, Enumerated, XferEvents, OwnCompletion, Stale
  <2> QED BY <2>2, <2>3 DEF EnumInv
<1>6. XferInv
  <2>1. BeforeQueue
    BY DEF BeforeQueue, RingTo, Executed, NoFlight, IsReport, Stale, Aside
  <2> QED BY <2>1 DEF XferInv
<1> QED BY <1>1, <1>2, <1>3, <1>4, <1>5, <1>6, TypeParts DEF IInv

\* Every step keeps it.
LEMMA StepInv == IInv /\ [Next]_vars => IInv'
<1> SUFFICES ASSUME IInv, [Next]_vars PROVE IInv'
  OBVIOUS
<1>1. RunTypes /\ EventTypes /\ CmdTypes /\ EpTypes /\ KeyTypes /\ FlagTypes /\ RestTypes
  BY TypeParts DEF IInv
<1>2. EventInv /\ EnumInv /\ XferInv
  BY DEF IInv
<1>3. EventTypes' /\ EventInv'
  <2>1. HcEvents \subseteq Events
    BY DEF HcEvents, Events
  <2>2. CASE \E b \in HcEvents : Post(b) /\ UNCHANGED evdrv
    BY <1>1, <1>2, <2>1, <2>2, PostKeeps
  <2>3. CASE evt_advance /\ EventThere
    BY <1>1, <1>2, <2>3, AdvanceKeeps
  <2>4. CASE UNCHANGED <<evdrv, evt_ring, enq, pcs, erdp, waiting>>
    BY <1>1, <1>2, <2>4 DEF EventTypes, EventInv, Held, evdrv
  <2> QED BY <1>1, <2>2, <2>3, <2>4, EventSteps DEF EventStep
<1>4. EnumInv'
  BY <1>1, <1>2, EnumKept
<1>5. XferInv'
  <2>1. CASE UNCHANGED vars
    <3>1. UNCHANGED <<epdrv, ep, keys, lastReport, got_xfer, pc, isr>> /\ evt_ring' = evt_ring
      BY <2>1 DEF vars, hc, irq, task, evhc
    <3>2. (NoFlight' <=> NoFlight) /\ (OneFlight' <=> OneFlight)
      BY <3>1 DEF NoFlight, OneFlight, IsReport
    <3> QED BY <1>2, <3>1, <3>2, XferFrame
  <2> QED BY <1>1, <1>2, <2>1, XferRun, XferHandler, XferController DEF Next
<1>6. HcCommand => cmd_ring[cmd.deq].request # 0
  <2>1. HcCommand => cmd_ring[cmd.deq].request = stage
    BY <1>1, <1>2, CmdExecuted DEF EnumInv
  <2> QED BY <1>1, <2>1, Eight DEF RunTypes
<1>7. RunTypes' /\ CmdTypes' /\ EpTypes' /\ KeyTypes' /\ FlagTypes' /\ RestTypes'
  BY <1>1, <1>2, <1>6, RunTypesKept, CmdTypesKept, EpTypesKept, KeyTypesKept, FlagTypesKept,
     RestTypesKept
<1>8. TypeOK'
  BY <1>3, <1>7, TypeParts DEF TypeOK, RunTypes, EventTypes, CmdTypes, EpTypes, KeyTypes,
      FlagTypes, RestTypes
<1> QED BY <1>3, <1>4, <1>5, <1>8 DEF IInv

\* So it always holds.
LEMMA AlwaysInv == SafetySpec => []IInv
BY InitInv, StepInv, PTL DEF SafetySpec

\* The driver finds an event at its index with its cycle bit exactly when the
\* controller has posted one that was not consumed (wait_cmd, wait_xfer and
\* handle_interrupt read the ring so), for a ring of any size.
THEOREM RingsAlwaysInSync == SafetySpec => []RingsInSync
<1>1. IInv => RingsInSync
  <2> SUFFICES ASSUME IInv PROVE EventRingInSync /\ TypeOK
    BY DEF RingsInSync
  <2>1. EventTypes /\ EventInv
    BY TypeParts DEF IInv
  <2>2. EventThere <=> waiting > 0
    <3>1. evt_ring[evt_idx].cycle = IF evt_idx < enq THEN pcs ELSE 1 - pcs
      BY <2>1 DEF EventTypes, EventInv
    <3>2. evt_idx \in 0 .. RING_TRBS - 1 /\ enq \in 0 .. RING_TRBS - 1
          /\ evt_cycle \in {0, 1} /\ pcs \in {0, 1}
      BY <2>1 DEF EventTypes, Slots
    <3> QED BY <2>1, <3>1, <3>2, RingAssumption DEF EventInv, EventThere
  <2> QED BY <2>2 DEF EventRingInSync, IInv
<1> QED BY <1>1, AlwaysInv, PTL

\* setup_keyboard gets past a request whose result it checks only when the
\* controller carried that request out: wait_cmd and wait_xfer take no other
\* completion for it, however late.
THEOREM CompletionAlwaysOwn == SafetySpec => []OwnCompletion
<1>1. IInv => OwnCompletion
  BY DEF IInv, EnumInv
<1> QED BY <1>1, AlwaysInv, PTL

\* handle_interrupt and process_keys: one transfer at a time uses intr_buf, and
\* the keys remembered are those of the last report once it is processed.
THEOREM ReportsAlwaysInStep == SafetySpec => []ReportsInStep
<1>1. IInv => ReportsInStep
  <2> SUFFICES ASSUME IInv PROVE ReportsInStep
    OBVIOUS
  <2> USE RingAssumption
  <2>1. EpTypes /\ XferInv
    BY TypeParts DEF IInv
  <2>2. InFlight = {i \in Slots : IsReport(i)}
    BY DEF InFlight, IsReport
  <2>3. NoFlight => InFlight = {} /\ Cardinality(InFlight) = 0
    BY <2>2, FS_EmptySet DEF NoFlight
  <2>4. OneFlight => InFlight # {} /\ Cardinality(InFlight) = 1
    <3>1. SUFFICES ASSUME OneFlight PROVE \E i : InFlight = {i}
      BY FS_Singleton
    <3> QED BY <2>2, <3>1 DEF OneFlight
  <2>5. ASSUME NEW w \in 0 .. Link, RingTo(w), Executed(w)
        PROVE  Armed = {} /\ Cardinality(Armed) = 0
    <3>1. Armed = {}
      BY <2>1, <2>5 DEF Armed, RingTo, Executed, EpTypes, Slots, Link
    <3> QED BY <3>1, FS_EmptySet
  <2>6. ASSUME NEW w \in 0 .. Link, RingTo(w), Queued(w)
        PROVE  Cardinality(Armed) = 1
    <3>1. \E i : Armed = {i}
      <4>1. CASE ep.dcs = intr_cycle /\ w = ep.deq + 1
        <5>1. Armed = {ep.deq}
          BY <2>1, <2>6, <4>1 DEF Armed, RingTo, EpTypes, Slots, Link
        <5> QED BY <5>1
      <4>2. CASE ep.dcs # intr_cycle /\ ep.deq = Link /\ w = 1
        <5>1. Armed = {0}
          BY <2>1, <2>6, <4>2 DEF Armed, RingTo, EpTypes, Slots, Link
        <5> QED BY <5>1
      <4> QED BY <2>6, <4>1, <4>2 DEF Queued
    <3> QED BY <3>1, FS_Singleton
  <2>7. InUse => Frontier \in 0 .. Link /\ RingTo(Frontier)
    BY <2>1 DEF InUse, Frontier, EpTypes, Link
  <2>8. CASE BeforeQueue
    <3>1. 0 \in 0 .. Link
      BY DEF Link
    <3>2. Cardinality(Armed) = 0 /\ Cardinality(InFlight) = 0 /\ isr # "process"
      BY <2>3, <2>5, <2>8, <3>1 DEF BeforeQueue, Aside
    <3> QED BY <2>8, <3>2 DEF ReportsInStep, OneTransfer, KeysInStep, BeforeQueue
  <2>9. CASE OnRing
    <3>1. Cardinality(Armed) = 1 /\ Cardinality(InFlight) = 0 /\ isr # "process"
      BY <2>3, <2>6, <2>7, <2>9 DEF OnRing
    <3> QED BY <2>9, <3>1 DEF ReportsInStep, OneTransfer, KeysInStep, OnRing
  <2>10. CASE Announced
    <3>1. Cardinality(Armed) = 0 /\ Cardinality(InFlight) = 1 /\ InFlight # {} /\ isr # "process"
      BY <2>4, <2>5, <2>7, <2>10 DEF Announced
    <3> QED BY <3>1 DEF ReportsInStep, OneTransfer, KeysInStep
  <2>11. CASE Processing
    <3>1. Cardinality(Armed) = 0 /\ Cardinality(InFlight) = 0 /\ isr = "process"
      BY <2>3, <2>5, <2>7, <2>11 DEF Processing
    <3> QED BY <3>1 DEF ReportsInStep, OneTransfer, KeysInStep
  <2>12. CASE Processed
    <3>1. Cardinality(Armed) = 0 /\ Cardinality(InFlight) = 0 /\ isr # "process"
      BY <2>3, <2>5, <2>7, <2>12 DEF Processed
    <3> QED BY <2>12, <3>1 DEF ReportsInStep, OneTransfer, KeysInStep, Processed
  <2>13. CASE Lost
    <3>1. 1 \in 0 .. Link
      BY DEF Link
    <3>2. Cardinality(Armed) = 0 /\ Cardinality(InFlight) = 0 /\ isr # "process"
      BY <2>3, <2>5, <2>13, <3>1 DEF Lost, Aside
    <3> QED BY <2>13, <3>2 DEF ReportsInStep, OneTransfer, KeysInStep, Lost
  <2> QED BY <2>1, <2>8, <2>9, <2>10, <2>11, <2>12, <2>13 DEF XferInv
<1> QED BY <1>1, AlwaysInv, PTL

--------------------------------------------------------------------------------
(* The keyboard stays armed, when nothing comes before run() returns *)

\* EHB says that the event ring is not empty.  Nothing is on it while run()
\* enables the interrupter, so that no event is older than the interrupts;
\* after that an event has its message on the way, or finds the handler
\* running with IP set for the end of it.
ReadyInv ==
    /\ ehb <=> waiting > 0
    /\ pc # "ready" => ~msi /\ isr = "idle"
    /\ pc \in Enumerated \ {"ready"} => waiting = 0
    /\ pc = "enable" => ~ip
    /\ pc \in {"ack", "enable", "queue", "doorbell", "bump", "ready"} => inte
    /\ IF pc \in {"queue", "doorbell", "bump", "ready"}
       THEN (isr = "idle" => ie) /\ (isr \notin {"idle", "ack"} => ~ie)
       ELSE ~ie
    /\ isr \notin {"loop", "process"} => budget = 0
    /\ isr = "process" => budget # 0
    /\ isr \notin {"idle", "ack"} /\ waiting > 0 => ip \/ (isr = "loop" /\ budget = 0)
    /\ pc = "ready" /\ isr = "idle" /\ waiting > 0 => msi
    /\ pc = "wait" /\ stage = 8 =>
          \A i \in Slots : IsCmdEvent(i) => enq = (i + 1) % RING_TRBS

\* An event is posted.
LEMMA ReadyPost ==
    ASSUME RunTypes, FlagTypes, EventTypes, EventInv, ReadyInv,
           NEW b \in Events, Post(b), UNCHANGED <<task, irq>>, UNCHANGED evdrv,
           pc \notin Enumerated \ {"ready"},
           pc = "wait" /\ stage = 8 => b.type = "cmd" /\ \A i \in Slots : ~IsCmdEvent(i)
    PROVE  ReadyInv'
<1> USE DEF ReadyInv
<1>1. pc' = pc /\ stage' = stage /\ isr' = isr /\ budget' = budget
  BY DEF task, irq
<1>2. ehb' = TRUE /\ ie' = ie /\ inte' = inte /\ waiting' = waiting + 1 /\ waiting \in Nat
      /\ enq' = (enq + 1) % RING_TRBS
  BY DEF Post, Raise, EventTypes
<1>3. IF ~ehb /\ ie /\ inte THEN msi' = TRUE /\ ip' = FALSE ELSE ip' = TRUE /\ msi' = msi
  BY DEF Post, Raise
<1>4. pc' = "wait" /\ stage' = 8 =>
          \A i \in Slots : IsCmdEvent(i)' => enq' = (i + 1) % RING_TRBS
  <2>1. \A i \in Slots : evt_ring'[i].body = IF i = enq THEN b ELSE evt_ring[i].body
    BY PostKeeps
  <2> QED BY <1>1, <1>2, <2>1 DEF IsCmdEvent
<1>5. pc' # "ready" => ~msi' /\ isr' = "idle"
  <2>1. pc # "ready" => ~ie
    BY DEF Enumerated
  <2> QED BY <1>1, <1>3, <2>1
<1>6. isr \notin {"idle", "ack"} => ip'
  <2>1. isr \notin {"idle", "ack"} => ~ie
    BY DEF FlagTypes
  <2> QED BY <1>3, <2>1
<1>7. pc = "ready" /\ isr = "idle" => msi'
  <2>1. pc = "ready" /\ isr = "idle" => ie /\ inte /\ (ehb => msi)
    BY <1>2
  <2> QED BY <1>3, <2>1
<1>8. (ehb <=> waiting > 0)' /\ (pc' \in Enumerated \ {"ready"} => waiting' = 0)
      /\ pc' # "enable"
  BY <1>1, <1>2 DEF Enumerated
<1>9. pc' \in {"ack", "enable", "queue", "doorbell", "bump", "ready"} => inte'
  BY <1>1, <1>2
<1>10. IF pc' \in {"queue", "doorbell", "bump", "ready"}
       THEN (isr' = "idle" => ie') /\ (isr' \notin {"idle", "ack"} => ~ie')
       ELSE ~ie'
  BY <1>1, <1>2
<1>11. (isr' \notin {"loop", "process"} => budget' = 0) /\ (isr' = "process" => budget' # 0)
  BY <1>1
<1>12. isr' \notin {"idle", "ack"} /\ waiting' > 0 => ip' \/ (isr' = "loop" /\ budget' = 0)
  BY <1>1, <1>6
<1>13. pc' = "ready" /\ isr' = "idle" /\ waiting' > 0 => msi'
  BY <1>1, <1>7
<1>14. pc' = "enable" => ~ip'
  BY <1>8
<1>15. (ehb' <=> waiting' > 0) /\ (pc' \in Enumerated \ {"ready"} => waiting' = 0)
  BY <1>8
<1> HIDE DEF ReadyInv
<1> QED BY <1>4, <1>5, <1>9, <1>10, <1>11, <1>12, <1>13, <1>14, <1>15 DEF ReadyInv

\* An event is consumed while the interrupter is disabled.
LEMMA ReadyAdvance ==
    ASSUME FlagTypes, EventTypes, EventInv, ReadyInv, evt_advance, EventThere, ~ie
    PROVE  /\ (ehb <=> waiting > 0)'
           /\ waiting' > 0 => ip'
           /\ UNCHANGED <<msi, ie, inte, enq>>
           /\ \A i \in Slots : IsCmdEvent(i)' => IsCmdEvent(i)
           /\ evt_idx' = (evt_idx + 1) % RING_TRBS
           /\ waiting' > 0 <=> evt_idx' # enq
<1>1. EventInv' /\ EventTypes'
      /\ \A i \in Slots : evt_ring'[i].body = IF i = evt_idx THEN Stale ELSE evt_ring[i].body
  BY AdvanceKeeps
<1>2. enq' = enq /\ ie' = ie /\ inte' = inte /\ evt_idx' = (evt_idx + 1) % RING_TRBS
  BY DEF evt_advance, EvtAdvanceIndex
<1>3. waiting' > 0 <=> evt_idx' # enq
  BY <1>1, <1>2, RingAssumption DEF EventInv, EventTypes, Slots
<1>4. IF evt_idx' # enq THEN ehb' = TRUE /\ ip' = TRUE /\ msi' = msi
                        ELSE ehb' = FALSE /\ msi' = msi
  BY DEF evt_advance, Raise
<1>5. \A i \in Slots : IsCmdEvent(i)' => IsCmdEvent(i)
  BY <1>1 DEF IsCmdEvent, Stale
<1> QED BY <1>2, <1>3, <1>4, <1>5

\* run(): the event ring is empty from the completion of configure_endpoint to
\* "keyboard ready".
LEMMA ReadyRun ==
    ASSUME ~FastDevice, ~LateEvents, IInv, ReadyInv, Run
    PROVE  ReadyInv'
<1> USE Eight
<1>1. RunTypes /\ EventTypes /\ EventInv /\ CmdTypes /\ FlagTypes /\ EnumInv
  BY TypeParts DEF IInv
<1>2. isr = "idle" /\ isr' = "idle" /\ budget' = budget /\ budget = 0
  BY DEF Run, ScanPorts, SubmitCmd, SubmitXfer, WaitEvent, WaitTimeout, SetupMsix, EnableInte,
      AckIman, EnableIman, RunQueue, RunDoorbell, RunBump, Running, Proceed, irq, ReadyInv
<1>3. CASE WaitEvent
  <2>1. pc = "wait" /\ evt_advance /\ EventThere
    BY <1>3 DEF WaitEvent, Running
  <2>2. ~ie /\ ~msi
    BY <2>1 DEF ReadyInv
  <2>3. /\ (ehb <=> waiting > 0)'
        /\ msi' = msi /\ ie' = ie /\ inte' = inte /\ enq' = enq
        /\ \A i \in Slots : IsCmdEvent(i)' => IsCmdEvent(i)
        /\ evt_idx' = (evt_idx + 1) % RING_TRBS
        /\ waiting' > 0 <=> evt_idx' # enq
    BY <1>1, <2>1, <2>2, ReadyAdvance
  <2>4. EventTypes'
    BY <1>1, <2>1, AdvanceKeeps
  <2>5. pc' \in {"wait", "submit", "failed", "msix"}
    BY <1>3, <2>1 DEF WaitEvent, Conclude, task
  <2>6. pc' = "msix" => waiting' = 0
    <3>1. SUFFICES ASSUME pc' = "msix" PROVE ~(waiting' > 0)
      BY <2>4 DEF EventTypes
    <3>2. Matches /\ stage = 8
      BY <1>3, <2>1, <3>1 DEF WaitEvent, Conclude, task
    <3>3. IsCmdEvent(evt_idx) /\ evt_idx \in Slots
      BY <1>1, <3>2 DEF Matches, IsCmd, IsCmdEvent, Event, EventTypes
    <3>4. enq = (evt_idx + 1) % RING_TRBS
      BY <2>1, <3>2, <3>3 DEF ReadyInv
    <3> QED BY <2>3, <3>4
  <2>7. pc' = "wait" => stage' = stage
    BY <1>3, <2>1 DEF WaitEvent, Conclude, task
  <2>8. pc' = "wait" /\ stage' = 8 => \A i \in Slots : IsCmdEvent(i)' => enq' = (i + 1) % RING_TRBS
    BY <2>1, <2>3, <2>7 DEF ReadyInv
  <2> QED BY <1>2, <2>2, <2>3, <2>5, <2>6, <2>8 DEF ReadyInv, Enumerated
<1>4. CASE ScanPorts \/ SubmitCmd \/ SubmitXfer \/ WaitTimeout \/ SetupMsix
           \/ RunQueue \/ RunDoorbell \/ RunBump
  <2>1. UNCHANGED evhc
    BY <1>4 DEF ScanPorts, SubmitCmd, SubmitXfer, WaitTimeout, SetupMsix, RunQueue,
        RunDoorbell, RunBump, QueueTrb, RingDoorbell, BumpIndex
  <2>2. /\ evt_ring' = evt_ring /\ enq' = enq /\ ehb' = ehb /\ ip' = ip /\ ie' = ie
        /\ inte' = inte /\ msi' = msi /\ waiting' = waiting
    BY <2>1 DEF evhc
  <2>3. \/ pc \notin Enumerated /\ pc' \notin Enumerated
        \/ pc = "msix" /\ pc' \in {"inte", "failed"}
        \/ pc = "queue" /\ pc' = "doorbell"
        \/ pc = "doorbell" /\ pc' = "bump"
        \/ pc = "bump" /\ pc' = "ready"
    <3>1. CASE ScanPorts \/ SubmitCmd \/ SubmitXfer
      BY <3>1 DEF ScanPorts, SubmitCmd, SubmitXfer, Running, Enumerated
    <3>2. CASE WaitTimeout
      BY <3>2 DEF WaitTimeout, Running, Enumerated, Conclude, Ignored
    <3>3. CASE SetupMsix \/ RunQueue \/ RunDoorbell \/ RunBump
      BY <3>3 DEF SetupMsix, RunQueue, RunDoorbell, RunBump, Running, Proceed
    <3> QED BY <1>4, <3>1, <3>2, <3>3
  <2>4. pc' = "wait" /\ stage' = 8 => \A i \in Slots : ~IsCmdEvent(i)
    <3>1. pc' = "wait" => pc = "submit" /\ stage' = stage
      BY <1>4 DEF ScanPorts, SubmitCmd, SubmitXfer, WaitTimeout, SetupMsix, RunQueue,
          RunDoorbell, RunBump, Running, Proceed, Conclude
    <3> QED BY <1>1, <3>1 DEF EnumInv, CmdInv, CmdEventInv
  <2>5. \A i \in Slots : IsCmdEvent(i)' <=> IsCmdEvent(i)
    BY <2>2 DEF IsCmdEvent
  <2>6. pc' = "wait" /\ stage' = 8 => \A i \in Slots : IsCmdEvent(i)' => enq' = (i + 1) % RING_TRBS
    BY <2>4, <2>5
  <2> QED BY <1>2, <2>2, <2>3, <2>6 DEF ReadyInv, Enumerated
<1>5. CASE EnableInte \/ AckIman \/ EnableIman
  <2>1. waiting' = waiting /\ ehb' = ehb /\ waiting = 0
    BY <1>5 DEF EnableInte, AckIman, EnableIman, WriteIman, Running, ReadyInv, Enumerated
  <2>2. CASE EnableInte
    <3>1. pc' = "ack" /\ inte' = TRUE /\ ie' = ie /\ msi' = msi /\ pc = "inte"
      BY <2>2 DEF EnableInte, Running, Proceed
    <3>2. ~ie' /\ ~msi' /\ inte'
      BY <3>1 DEF ReadyInv
    <3> QED BY <1>2, <2>1, <3>1, <3>2 DEF ReadyInv, Enumerated
  <2>3. CASE AckIman
    <3>1. pc' = "enable" /\ inte' = inte /\ pc = "ack" /\ ie' = FALSE /\ WriteIman(TRUE, FALSE)
      BY <2>3 DEF AckIman, Running, Proceed, WriteIman
    <3>2. ip' = FALSE /\ msi' = msi
      BY <3>1 DEF WriteIman
    <3>3. ~ip' /\ ~msi' /\ ~ie' /\ inte'
      BY <3>1, <3>2 DEF ReadyInv
    <3> QED BY <1>2, <2>1, <3>1, <3>3 DEF ReadyInv, Enumerated
  <2>4. CASE EnableIman
    <3>1. pc' = "queue" /\ inte' = inte /\ pc = "enable" /\ ie' = TRUE /\ WriteIman(FALSE, TRUE)
      BY <2>4 DEF EnableIman, Running, Proceed, WriteIman
    <3>2. ~ip /\ ~msi /\ inte
      BY <3>1 DEF ReadyInv
    <3>3. msi' = msi
      BY <3>1, <3>2 DEF WriteIman
    <3>4. ~msi' /\ ie' /\ inte'
      BY <3>1, <3>2, <3>3
    <3> QED BY <1>2, <2>1, <3>1, <3>4 DEF ReadyInv, Enumerated
  <2> QED BY <1>5, <2>2, <2>3, <2>4
<1> QED BY <1>3, <1>4, <1>5 DEF Run

\* The handler: it empties the event ring, or leaves with IP set; its last
\* step enables the interrupter and so sends the message.
LEMMA ReadyHandler ==
    ASSUME ~FastDevice, ~LateEvents, IInv, ReadyInv, Handler
    PROVE  ReadyInv'
<1> USE RingAssumption
<1>1. RunTypes /\ EventTypes /\ EventInv /\ FlagTypes
  BY TypeParts DEF IInv
<1>2. pc' = pc
  BY DEF Handler, IsrEnter, IsrAck, IsrEvent, IsrProcess, IsrDrained, IsrQueue, IsrDoorbell,
      IsrBump, IsrEnd, IsrTo, task
<1>3. pc = "ready"
  BY DEF Handler, IsrEnter, IsrAck, IsrEvent, IsrProcess, IsrDrained, IsrQueue, IsrDoorbell,
      IsrBump, IsrEnd, Drained, ReadyInv
<1>4. inte /\ (ehb <=> waiting > 0)
  BY <1>3 DEF ReadyInv
<1>5. CASE IsrEnter
  <2>1. isr = "idle" /\ isr' = "ack" /\ budget' = budget /\ ie' = ie /\ inte' = inte
        /\ ehb' = ehb /\ waiting' = waiting
    BY <1>5 DEF IsrEnter, IsrTo
  <2>2. ie /\ budget = 0
    BY <1>3, <2>1 DEF ReadyInv
  <2> QED BY <1>2, <1>3, <1>4, <2>1, <2>2 DEF ReadyInv, Enumerated
<1>6. CASE IsrAck
  <2>1. isr = "ack" /\ isr' = "loop" /\ budget' = budget /\ WriteIman(TRUE, FALSE)
    BY <1>6 DEF IsrAck, IsrTo
  <2>2. ie' = FALSE /\ inte' = inte /\ ehb' = ehb /\ waiting' = waiting
    BY <2>1 DEF WriteIman
  <2>3. ~ie' /\ inte' /\ budget = 0
    BY <1>4, <2>1, <2>2 DEF ReadyInv
  <2> QED BY <1>2, <1>3, <1>4, <2>1, <2>2, <2>3 DEF ReadyInv, Enumerated
<1>7. CASE IsrEvent
  <2>1. isr = "loop" /\ isr' \in {"process", "loop"} /\ budget' = budget + 1
        /\ evt_advance /\ EventThere
    BY <1>7 DEF IsrEvent
  <2>2. ~ie
    BY <1>3, <2>1 DEF ReadyInv
  <2>3. /\ (ehb <=> waiting > 0)'
        /\ waiting' > 0 => ip'
        /\ ie' = ie /\ inte' = inte
    BY <1>1, <2>1, <2>2, ReadyAdvance
  <2>4. ~ie' /\ inte'
    BY <1>4, <2>2, <2>3
  <2>5. budget' # 0
    BY <1>1, <2>1 DEF RunTypes
  <2> QED BY <1>2, <1>3, <2>1, <2>3, <2>4, <2>5 DEF ReadyInv, Enumerated
<1>8. CASE IsrDrained
  <2>1. isr = "loop" /\ isr' \in {"queue", "end"} /\ budget' = 0 /\ UNCHANGED evhc
        /\ (~EventThere \/ budget = RING_TRBS)
    BY <1>8 DEF IsrDrained, Drained
  <2>2. ehb' = ehb /\ ie' = ie /\ inte' = inte /\ ip' = ip /\ waiting' = waiting
    BY <2>1 DEF evhc
  <2>3. ~EventThere => waiting = 0
    BY <1>1 DEF EventThere, EventInv, EventTypes, Slots
  <2>4. waiting > 0 => ip
    BY <2>1, <2>3, <1>1 DEF ReadyInv, RunTypes
  <2>5. ~ie
    BY <1>3, <2>1 DEF ReadyInv
  <2>6. ~ie' /\ inte' /\ (waiting' > 0 => ip') /\ (ehb' <=> waiting' > 0)
    BY <1>4, <2>2, <2>4, <2>5
  <2> QED BY <1>2, <1>3, <2>1, <2>6 DEF ReadyInv, Enumerated
<1>9. CASE IsrProcess \/ IsrQueue \/ IsrDoorbell \/ IsrBump
  <2>1. /\ isr \in {"process", "queue", "doorbell", "bump"}
        /\ isr' \in {"loop", "doorbell", "bump", "end"} /\ (isr' = "loop" <=> isr = "process")
        /\ budget' = budget /\ UNCHANGED evhc
    BY <1>9 DEF IsrProcess, IsrQueue, IsrDoorbell, IsrBump, IsrTo, QueueTrb, RingDoorbell, BumpIndex
  <2>2. ehb' = ehb /\ ie' = ie /\ inte' = inte /\ ip' = ip /\ waiting' = waiting
    BY <2>1 DEF evhc
  <2>3. ~ie /\ (waiting > 0 => ip) /\ (isr' # "loop" => budget = 0)
    BY <1>3, <2>1 DEF ReadyInv
  <2>4. ~ie' /\ inte' /\ (waiting' > 0 => ip') /\ (ehb' <=> waiting' > 0)
    BY <1>4, <2>2, <2>3
  <2> QED BY <1>2, <1>3, <2>1, <2>3, <2>4 DEF ReadyInv, Enumerated
<1>10. CASE IsrEnd
  <2>1. isr = "end" /\ isr' = "idle" /\ budget' = budget /\ WriteIman(FALSE, TRUE)
    BY <1>10 DEF IsrEnd, IsrTo
  <2>2. ie' = TRUE /\ inte' = inte /\ ehb' = ehb /\ waiting' = waiting
    BY <2>1 DEF WriteIman
  <2>3. budget = 0 /\ (waiting > 0 => ip)
    BY <1>3, <2>1 DEF ReadyInv
  <2>4. waiting > 0 => msi'
    BY <1>4, <2>1, <2>3 DEF WriteIman
  <2>5. ie' /\ inte' /\ (waiting' > 0 => msi') /\ (ehb' <=> waiting' > 0)
    BY <1>4, <2>2, <2>4
  <2> QED BY <1>2, <1>3, <2>1, <2>3, <2>5 DEF ReadyInv, Enumerated
<1> QED BY <1>5, <1>6, <1>7, <1>8, <1>9, <1>10 DEF Handler

\* The controller: nothing comes while run() enables the interrupter, and the
\* last completion of the enumeration is the last event.
LEMMA ReadyController ==
    ASSUME ~FastDevice, ~LateEvents, IInv, ReadyInv, Controller
    PROVE  ReadyInv'
<1> USE Eight
<1>1. RunTypes /\ EventTypes /\ EventInv /\ CmdTypes /\ FlagTypes /\ RestTypes /\ EpTypes
      /\ EnumInv /\ XferInv
  BY TypeParts DEF IInv
<1>2. UNCHANGED <<task, irq>> /\ UNCHANGED evdrv
  BY DEF Controller, HcCommand, HcCommandIdle, HcControl, HcPortChange, HcReport,
      HcTransferError, HcEndpointIdle, driver
<1>3. CASE HcCommand
  <2>1. CmdPending
    BY <1>1, <1>3, CmdExecuted DEF EnumInv
  <2>2. ~CmdDone
    BY <1>1, <2>1, RingAssumption DEF CmdPending, CmdDone, CmdTypes, EnumInv, CmdInv, CmdRingInv, Link
  <2>3. pc \in {"wait", "failed"} /\ \A i \in Slots : ~IsCmdEvent(i)
    BY <1>1, <2>2 DEF EnumInv, CmdInv, CmdEventInv
  <2>4. PICK c \in {1, 4} : Post(Ev("cmd", cmd.deq, c))
    BY <1>3 DEF HcCommand
  <2>5. Ev("cmd", cmd.deq, c) \in Events /\ Ev("cmd", cmd.deq, c).type = "cmd"
    BY <1>1 DEF Ev, Events, CmdTypes
  <2> QED BY <1>1, <1>2, <2>3, <2>4, <2>5, ReadyPost DEF Enumerated
<1>4. ASSUME NEW b \in Events, Post(b), stage < 8 \/ pc = "ready"
      PROVE  ReadyInv'
  <2>1. pc \notin Enumerated \ {"ready"}
    BY <1>1, <1>4 DEF EnumInv, StageInv
  <2> QED BY <1>1, <1>2, <1>4, <2>1, ReadyPost
<1>5. CASE HcControl
  <2>1. Head(ep0.queue) \in 1 .. LastRequest
    BY <1>1, <1>5 DEF HcControl, RestTypes
  <2>2. PICK c \in {1, 4} : Post(Ev("xfer", Head(ep0.queue), c))
    BY <1>5 DEF HcControl
  <2>3. Ev("xfer", Head(ep0.queue), c) \in Events
    BY <2>1 DEF Ev, Events
  <2> QED BY <1>4, <1>5, <2>2, <2>3 DEF HcControl, Unasked
<1>6. CASE HcPortChange
  <2>1. Ev("port", 0, 1) \in Events
    BY DEF Ev, Events
  <2> QED BY <1>4, <1>6, <2>1 DEF HcPortChange, Unasked
<1>7. CASE HcReport \/ HcTransferError
  <2>1. \A c \in {1, 4} : Ev("xfer", 0, c) \in Events
    BY DEF Ev, Events
  <2>2. pc = "ready"
    BY <1>7 DEF HcReport, HcTransferError
  <2> QED BY <1>4, <1>7, <2>1, <2>2 DEF HcReport, HcTransferError
<1>8. CASE HcCommandIdle \/ HcEndpointIdle
  <2>1. UNCHANGED evhc
    BY <1>8 DEF HcCommandIdle, HcEndpointIdle
  <2> QED BY <1>2, <2>1 DEF ReadyInv, evhc, task, irq, IsCmdEvent
<1> QED BY <1>3, <1>5, <1>6, <1>7, <1>8 DEF Controller

\* Once run() has said "keyboard ready", and outside handle_interrupt, the
\* controller has a transfer to execute or has an interrupt under way, as long
\* as no transfer error has halted the endpoint: that the driver does not
\* handle.  This also needs what the driver cannot see to: that the device
\* answers no earlier, and no other event comes, before run() returns.
THEOREM ReadyUntilHalted ==
    ASSUME FastDevice = FALSE, LateEvents = FALSE
    PROVE  SafetySpec => []ReadyMeansArmed
<1>1. Init => ReadyInv
  <2> SUFFICES ASSUME Init PROVE ReadyInv
    OBVIOUS
  <2>1. pc = "scan" /\ isr = "idle" /\ budget = 0 /\ waiting = 0 /\ ~ehb /\ ~msi /\ ~ie
    BY DEF Init
  <2> QED BY <2>1 DEF ReadyInv, Enumerated
<1>2. IInv /\ ReadyInv /\ [Next]_vars => ReadyInv'
  <2> SUFFICES ASSUME IInv, ReadyInv, [Next]_vars PROVE ReadyInv'
    OBVIOUS
  <2>1. CASE UNCHANGED vars
    BY <2>1 DEF vars, ReadyInv, evhc, task, irq, IsCmdEvent
  <2> QED BY <2>1, ReadyRun, ReadyHandler, ReadyController DEF Next
<1>3. IInv /\ ReadyInv => ReadyMeansArmed
  <2> SUFFICES ASSUME IInv, ReadyInv, pc = "ready", isr = "idle", ~msi
               PROVE  ep.bell /\ Armed # {} /\ InFlight = {}
    BY DEF ReadyMeansArmed
  <2> USE RingAssumption
  <2>1. EventTypes /\ EventInv /\ EpTypes /\ XferInv
    BY TypeParts DEF IInv
  <2>2. waiting = 0
    BY <2>1 DEF ReadyInv, EventTypes
  <2>3. \A i \in Slots : ~Held(i)
    BY <2>1, <2>2 DEF EventInv, EventTypes, Held, Slots
  <2>4. NoFlight
    BY <2>1, <2>3 DEF EventInv, NoFlight, IsReport, Stale
  <2>5. ~BeforeQueue /\ ~Announced /\ ~Processing /\ ~Lost
    BY <2>4 DEF BeforeQueue, Announced, Processing, Lost, OneFlight, NoFlight
  <2>6. ~Processed
    BY <2>1 DEF Processed
  <2>7. OnRing
    BY <2>1, <2>5, <2>6 DEF XferInv
  <2>8. ep.bell /\ RingTo(Frontier) /\ Frontier <= Link /\ Queued(Frontier)
    BY <2>7 DEF OnRing, InUse
  <2>9. InFlight = {}
    BY <2>4 DEF NoFlight, InFlight, IsReport
  <2>10. \E i \in Slots \ {Link} : intr_ring[i] = IF i >= ep.deq THEN ep.dcs ELSE 1 - ep.dcs
    <3>1. Frontier \in Nat
      BY <2>1 DEF Frontier, EpTypes
    <3>2. CASE ep.dcs = intr_cycle /\ Frontier = ep.deq + 1
      <4>1. ep.deq \in Slots \ {Link} /\ intr_ring[ep.deq] = ep.dcs
        BY <2>1, <2>8, <3>1, <3>2 DEF RingTo, EpTypes, Slots, Link
      <4>2. ep.deq >= ep.deq
        BY <2>1 DEF EpTypes, Slots
      <4> QED BY <4>1, <4>2
    <3>3. CASE ep.dcs # intr_cycle /\ ep.deq = Link /\ Frontier = 1
      <4>1. 0 \in Slots \ {Link} /\ ~(0 >= ep.deq)
        BY <3>3 DEF Slots, Link
      <4>2. intr_ring[0] = 1 - ep.dcs
        BY <2>1, <2>8, <3>3, <4>1 DEF RingTo, EpTypes
      <4> QED BY <4>1, <4>2
    <3> QED BY <2>8, <3>2, <3>3 DEF Queued
  <2> QED BY <2>8, <2>9, <2>10 DEF Armed
<1> QED BY <1>1, <1>2, <1>3, InitInv, StepInv, PTL DEF SafetySpec
================================================================================
