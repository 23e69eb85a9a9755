--------------------------------- MODULE Xhci ---------------------------------
(***************************************************************************)
(* The xHCI driver of drivers/usb.cpp and the controller it drives.        *)
(*                                                                         *)
(* run() enumerates the keyboard with eight requests, polling the event    *)
(* ring for each; then it enables the interrupter, queues one transfer on  *)
(* the interrupt endpoint and leaves the rest to handle_interrupt, which   *)
(* queues the next transfer after each report.  run() executes with        *)
(* interrupts enabled, so that handle_interrupt may run between any two of *)
(* its steps once the controller sends its message; the controller itself  *)
(* runs all the time.                                                      *)
(*                                                                         *)
(* The controller is external: it is modelled by what the driver relies    *)
(* on (cycle bits, the dequeue pointer, the flags EHB, IP, IE and INTE).   *)
(***************************************************************************)
EXTENDS Integers, Sequences, FiniteSets

CONSTANTS
    RING_TRBS,      \* entries of a ring, the link entry included (256)
    Keys,           \* keys a report can hold
    MaxPortEvents,  \* bound: port status changes
    FastDevice,     \* may a report be complete before run() returns?
    LateEvents      \* may unrelated events be posted after the last request
                    \* of the enumeration and before run() returns?

ASSUME RingAssumption == RING_TRBS \in Nat /\ RING_TRBS >= 3
ASSUME BoundAssumption ==
    MaxPortEvents \in Nat /\ FastDevice \in BOOLEAN /\ LateEvents \in BOOLEAN

VARIABLES
    pc, stage,                 \* run(): where it is, and its current request
    isr, got_xfer, budget,     \* handle_interrupt: where it is, its locals
    evt_idx, evt_cycle,        \* driver side of the event ring
    cmd_ring, cmd_idx, cmd_cycle,
    intr_ring, intr_idx, intr_cycle,
    intr_buf, prev_keys,
    evt_ring, enq, pcs,        \* the event ring, the controller's side of it
    erdp, ehb, ip, ie, inte,   \* interrupter 0 and USBCMD.INTE
    msi,                       \* the message has arrived at the local APIC
    cmd,                       \* controller: dequeue index, cycle, doorbell
    ep0,                       \* control requests not completed; halted
    ep,                        \* interrupt endpoint: as cmd, and halted
    ports,                     \* port status changes so far
    completed,                 \* ghost: requests the controller carried out
    waiting,                   \* ghost: events posted and not yet consumed
    lastReport                 \* ghost: the device's last report

task   == <<pc, stage>>
irq    == <<isr, got_xfer, budget>>
evdrv  == <<evt_idx, evt_cycle>>
cmddrv == <<cmd_ring, cmd_idx, cmd_cycle>>
epdrv  == <<intr_ring, intr_idx, intr_cycle>>
keys   == <<intr_buf, prev_keys>>
evhc   == <<evt_ring, enq, pcs, erdp, ehb, ip, ie, inte, msi, waiting>>
hc     == <<cmd, ep0, ep, ports, completed, lastReport>>
vars   == <<task, irq, evdrv, cmddrv, epdrv, keys, evhc, hc>>

Slots == 0 .. RING_TRBS - 1
Link  == RING_TRBS - 1

\* The requests of setup_keyboard, in order.
Requests == <<"enable_slot", "address_device", "get_device_descriptor",
              "get_config_descriptor", "set_configuration",
              "set_protocol_boot", "set_idle", "configure_endpoint">>

IsCmd(s)     == s \in {1, 2, 8}
Ignored(s)   == s \in {6, 7}      \* the result is not looked at
LastRequest  == Len(Requests)

-------------------------------------------------------------------------------
(* The event ring and the interrupter *)

\* id: the ring index of a command, the number of a control request, or 0
\* for the interrupt endpoint.  code 1 is success, 4 stands for an error.
Ev(type, id, code) == [type |-> type, id |-> id, code |-> code]

\* An interrupt is raised for the state of the event ring: EHB is set, and
\* the message is sent unless EHB was set already or interrupts are disabled.
Raise(busy) ==
    /\ ehb' = TRUE
    /\ IF ~busy /\ ie /\ inte THEN msi' = TRUE /\ ip' = FALSE
                              ELSE ip' = TRUE /\ UNCHANGED msi

RingFull == (enq + 1) % RING_TRBS = erdp

\* The controller writes an event.
Post(body) ==
    /\ ~RingFull
    /\ evt_ring' = [evt_ring EXCEPT ![enq] = [cycle |-> pcs, body |-> body]]
    /\ enq' = (enq + 1) % RING_TRBS
    /\ pcs' = IF enq = RING_TRBS - 1 THEN 1 - pcs ELSE pcs
    /\ waiting' = waiting + 1
    /\ Raise(ehb)
    /\ UNCHANGED <<erdp, ie, inte>>

\* A consumed entry keeps its cycle bit; its contents are never read again.
Stale == [type |-> "stale", id |-> 0, code |-> 0]

EventThere == evt_ring[evt_idx].cycle = evt_cycle
Event      == evt_ring[evt_idx].body

EvtAdvanceLate ==
    /\ evt_idx' = IF evt_idx + 1 > RING_TRBS THEN 0 ELSE evt_idx + 1
    /\ evt_cycle' = IF evt_idx + 1 > RING_TRBS THEN 1 - evt_cycle ELSE evt_cycle

EvtAdvanceNoToggle ==
    /\ evt_idx' = (evt_idx + 1) % RING_TRBS
    /\ UNCHANGED evt_cycle

EvtAdvanceIndex ==
    /\ evt_idx' = (evt_idx + 1) % RING_TRBS
    /\ evt_cycle' = IF evt_idx + 1 = RING_TRBS THEN 1 - evt_cycle ELSE evt_cycle

\* evt_advance: the driver's index moves on, and the dequeue pointer is
\* written with EHB set, which clears EHB; the controller raises it again if
\* the ring is not empty.
evt_advance ==
    /\ EvtAdvanceIndex
    /\ evt_ring' = [evt_ring EXCEPT ![evt_idx].body = Stale]
    /\ erdp' = evt_idx'
    /\ waiting' = waiting - 1
    /\ IF evt_idx' # enq THEN Raise(FALSE)
                         ELSE ehb' = FALSE /\ UNCHANGED <<ip, msi>>
    /\ UNCHANGED <<enq, pcs, ie, inte>>

\* A write to IMAN: bit 0 clears IP, bit 1 is IE.  If an interrupt is then
\* pending and enabled, the message is sent.
WriteIman(clear, enable) ==
    LET pending == ip /\ ~clear
    IN  /\ ie' = enable
        /\ IF pending /\ enable /\ inte THEN msi' = TRUE /\ ip' = FALSE
                                        ELSE ip' = pending /\ UNCHANGED msi
        /\ UNCHANGED <<evt_ring, enq, pcs, erdp, ehb, inte, waiting>>

-------------------------------------------------------------------------------
(* run(): enumeration *)

Running(label) == pc = label /\ isr = "idle"

\* The port scan finds a device and resets its port, or finds none.
ScanPorts ==
    /\ Running("scan")
    /\ pc' \in {"submit", "absent"}
    /\ UNCHANGED <<stage, irq, evdrv, cmddrv, epdrv, keys, evhc, hc>>

\* submit_cmd: at the link entry, give it the cycle bit and start over; write
\* the command, ring the doorbell, and wait_cmd.
SubmitCmd ==
    /\ Running("submit") /\ IsCmd(stage)
    /\ LET wrap == cmd_idx = Link
           i    == IF wrap THEN 0 ELSE cmd_idx
           cyc  == IF wrap THEN 1 - cmd_cycle ELSE cmd_cycle
       IN  /\ cmd_ring' = [cmd_ring EXCEPT
                  ![Link].cycle = IF wrap THEN cmd_cycle ELSE @,
                  ![i] = [cycle |-> cyc, request |-> stage]]
           /\ cmd_idx' = i + 1
           /\ cmd_cycle' = cyc
    /\ cmd' = [cmd EXCEPT !.bell = TRUE]
    /\ pc' = "wait"
    /\ UNCHANGED <<stage, irq, evdrv, epdrv, keys, evhc,
                   ep0, ep, ports, completed, lastReport>>

\* control_xfer: write the entries of the request, ring the doorbell, and
\* wait_xfer.
SubmitXfer ==
    /\ Running("submit") /\ ~IsCmd(stage)
    /\ ep0' = [ep0 EXCEPT !.queue = Append(@, stage)]
    /\ pc' = "wait"
    /\ UNCHANGED <<stage, irq, evdrv, cmddrv, epdrv, keys, evhc,
                   cmd, ep, ports, completed, lastReport>>

\* setup_keyboard goes on after a request.  find_hid_keyboard looks at the
\* configuration descriptor and may find no keyboard in it.
Conclude(code) ==
    IF code = 1 \/ Ignored(stage)
    THEN \/ /\ stage < LastRequest
            /\ pc' = "submit" /\ stage' = stage + 1
         \/ /\ stage = LastRequest
            /\ pc' = "msix" /\ UNCHANGED stage
         \/ /\ Requests[stage] = "get_config_descriptor"
            /\ pc' = "failed" /\ UNCHANGED stage
    ELSE pc' = "failed" /\ UNCHANGED stage

MatchesAny == Event.type \in {"cmd", "xfer"}

\* The event is the completion of the request that the driver waits for.
Matches ==
    IF IsCmd(stage) THEN Event.type = "cmd" /\ Event.id = cmd_idx - 1
                    ELSE Event.type = "xfer" /\ Event.id = stage

\* wait_cmd and wait_xfer: consume the event at the driver's index.
WaitEvent ==
    /\ Running("wait") /\ EventThere
    /\ evt_advance
    /\ IF Matches THEN Conclude(Event.code) ELSE UNCHANGED task
    /\ UNCHANGED <<irq, cmddrv, epdrv, keys, hc>>

WaitForever == Running("wait") /\ UNCHANGED vars

\* The loop of wait_cmd or wait_xfer runs out.
WaitTimeout ==
    /\ Running("wait")
    /\ Conclude(-1)
    /\ UNCHANGED <<irq, evdrv, cmddrv, epdrv, keys, evhc, hc>>

-------------------------------------------------------------------------------
(* run(): interrupts *)

Proceed(label) == pc' = label /\ UNCHANGED <<stage, irq>>

\* lapic_enable, setup_msix and irq_register.
SetupMsix ==
    /\ Running("msix")
    /\ \E next \in {"inte", "failed"} : Proceed(next)
    /\ UNCHANGED <<evdrv, cmddrv, epdrv, keys, evhc, hc>>

\* enable_interrupter, its three writes that matter: INTE; IMAN = 1, which
\* clears IP; IMAN = 2, which sets IE.
EnableInte ==
    /\ Running("inte") /\ Proceed("ack")
    /\ inte' = TRUE
    /\ UNCHANGED <<evdrv, cmddrv, epdrv, keys, hc,
                   evt_ring, enq, pcs, erdp, ehb, ip, ie, msi, waiting>>

AckIman ==
    /\ Running("ack") /\ Proceed("enable")
    /\ WriteIman(TRUE, FALSE)
    /\ UNCHANGED <<evdrv, cmddrv, epdrv, keys, hc>>

EnableIman ==
    /\ Running("enable") /\ Proceed("queue")
    /\ WriteIman(FALSE, TRUE)
    /\ UNCHANGED <<evdrv, cmddrv, epdrv, keys, hc>>

\* queue_interrupt_in_async up to the doorbell: wrap at the link entry, clear
\* the buffer and write the entry.
WrapKeepCycle ==
    LET wrap == intr_idx >= Link
        i    == IF wrap THEN 0 ELSE intr_idx
    IN  /\ intr_ring' = [intr_ring EXCEPT
               ![Link] = IF wrap THEN intr_cycle ELSE @, ![i] = intr_cycle]
        /\ intr_idx' = i
        /\ UNCHANGED intr_cycle

WrapAndWrite ==
    LET wrap == intr_idx >= Link
        i    == IF wrap THEN 0 ELSE intr_idx
        cyc  == IF wrap THEN 1 - intr_cycle ELSE intr_cycle
    IN  /\ intr_ring' = [intr_ring EXCEPT
               ![Link] = IF wrap THEN intr_cycle ELSE @, ![i] = cyc]
        /\ intr_idx' = i
        /\ intr_cycle' = cyc

QueueTrb ==
    /\ WrapAndWrite
    /\ intr_buf' = {}
    /\ UNCHANGED <<prev_keys, evdrv, cmddrv, evhc, hc>>

RingDoorbell ==
    /\ ep' = [ep EXCEPT !.bell = TRUE]
    /\ UNCHANGED <<evdrv, cmddrv, epdrv, keys, evhc,
                   cmd, ep0, ports, completed, lastReport>>

BumpIndex ==
    /\ intr_idx' = intr_idx + 1
    /\ UNCHANGED <<intr_ring, intr_cycle, evdrv, cmddrv, keys, evhc, hc>>

\* The last steps of run(): the first transfer, then "keyboard ready".
RunQueue    == Running("queue") /\ Proceed("doorbell") /\ QueueTrb
RunDoorbell == Running("doorbell") /\ Proceed("bump") /\ RingDoorbell
RunBump     == Running("bump") /\ Proceed("ready") /\ BumpIndex

-------------------------------------------------------------------------------
(* handle_interrupt *)

IsrTo(label) == isr' = label /\ UNCHANGED <<task, got_xfer, budget>>

\* The CPU accepts the message: run() and the user program have interrupts
\* enabled.
IsrEnter ==
    /\ isr = "idle" /\ msi /\ inte
    /\ IsrTo("ack")
    /\ msi' = FALSE
    /\ UNCHANGED <<evdrv, cmddrv, epdrv, keys, hc,
                   evt_ring, enq, pcs, erdp, ehb, ip, ie, inte, waiting>>

\* USBSTS.EINT and IMAN.IP are cleared, and IE with them.
IsrAck ==
    /\ isr = "ack" /\ IsrTo("loop")
    /\ WriteIman(TRUE, FALSE)
    /\ UNCHANGED <<evdrv, cmddrv, epdrv, keys, hc>>

FromKeyboard == Event.type = "xfer" /\ Event.id = 0

\* One iteration of the loop.
IsrEvent ==
    /\ isr = "loop" /\ budget < RING_TRBS /\ EventThere
    /\ isr' = IF FromKeyboard THEN "process" ELSE "loop"
    /\ budget' = budget + 1
    /\ evt_advance
    /\ UNCHANGED <<task, got_xfer, cmddrv, epdrv, keys, hc>>

IsrProcessForget ==
    /\ isr = "process" /\ isr' = "loop" /\ got_xfer' = TRUE
    /\ UNCHANGED <<task, budget, keys, evdrv, cmddrv, epdrv, evhc, hc>>

\* process_keys: push the keys that are new in the report, remember it.
IsrProcess ==
    /\ isr = "process" /\ isr' = "loop" /\ got_xfer' = TRUE
    /\ prev_keys' = intr_buf
    /\ UNCHANGED <<task, budget, intr_buf, evdrv, cmddrv, epdrv, evhc, hc>>

Drained == isr = "loop" /\ (~EventThere \/ budget = RING_TRBS)

RequeueAlways ==
    /\ Drained /\ isr' = "queue" /\ got_xfer' = FALSE /\ budget' = 0
    /\ UNCHANGED <<task, evdrv, cmddrv, epdrv, keys, evhc, hc>>

\* The ring is empty or the budget used up.  A new transfer is queued if a
\* report was processed.
IsrDrained ==
    /\ Drained
    /\ isr' = IF got_xfer THEN "queue" ELSE "end"
    /\ got_xfer' = FALSE /\ budget' = 0
    /\ UNCHANGED <<task, evdrv, cmddrv, epdrv, keys, evhc, hc>>

IsrQueue    == isr = "queue" /\ IsrTo("doorbell") /\ QueueTrb
IsrDoorbell == isr = "doorbell" /\ IsrTo("bump") /\ RingDoorbell
IsrBump     == isr = "bump" /\ IsrTo("end") /\ BumpIndex

IsrEndDisabled ==
    /\ isr = "end" /\ IsrTo("idle")
    /\ UNCHANGED <<evdrv, cmddrv, epdrv, keys, evhc, hc>>

\* IMAN = 2 enables the interrupter again.
IsrEnd ==
    /\ isr = "end" /\ IsrTo("idle")
    /\ WriteIman(FALSE, TRUE)
    /\ UNCHANGED <<evdrv, cmddrv, epdrv, keys, hc>>

-------------------------------------------------------------------------------
(* The controller and the device (external) *)

driver == <<task, irq, evdrv, cmddrv, epdrv>>

\* An entry counts if its cycle bit is the controller's.  A link entry leads
\* back to the start and toggles the cycle; at any other entry that does not
\* count the controller stops until the doorbell rings.
Follow(r, cycles) ==
    IF r.deq = Link /\ cycles[Link] = r.dcs
    THEN [r EXCEPT !.deq = 0, !.dcs = 1 - @]
    ELSE [r EXCEPT !.bell = FALSE]

HasWork(r, cycles) == r.bell /\ r.deq # Link /\ cycles[r.deq] = r.dcs

CmdCycles == [i \in Slots |-> cmd_ring[i].cycle]

\* The command ring: carry out the next command, or follow the link, or stop.
HcCommand ==
    /\ HasWork(cmd, CmdCycles)
    /\ \E code \in {1, 4} :
        /\ Post(Ev("cmd", cmd.deq, code))
        /\ completed' = IF code = 1 THEN completed \cup {cmd_ring[cmd.deq].request}
                                    ELSE completed
    /\ cmd' = [cmd EXCEPT !.deq = @ + 1]
    /\ UNCHANGED <<driver, keys, ep0, ep, ports, lastReport>>

HcCommandIdle ==
    /\ cmd.bell /\ ~HasWork(cmd, CmdCycles)
    /\ cmd' = Follow(cmd, CmdCycles)
    /\ UNCHANGED <<driver, keys, evhc, ep0, ep, ports, completed, lastReport>>

\* When an event that run() does not wait for may be posted.
Unasked == LateEvents \/ stage < LastRequest \/ pc = "ready"

\* A control request succeeds or fails; a failure halts the endpoint, and
\* nothing in the driver resets it.
HcControl ==
    /\ ep0.queue # << >> /\ ~ep0.halted /\ Unasked
    /\ \E code \in {1, 4} :
        /\ Post(Ev("xfer", Head(ep0.queue), code))
        /\ ep0' = [queue |-> Tail(ep0.queue), halted |-> code # 1]
        /\ completed' = IF code = 1 THEN completed \cup {Head(ep0.queue)} ELSE completed
    /\ UNCHANGED <<driver, keys, cmd, ep, ports, lastReport>>

\* A port's status changes.
HcPortChange ==
    /\ ports < MaxPortEvents /\ Unasked
    /\ ports' = ports + 1
    /\ Post(Ev("port", 0, 1))
    /\ UNCHANGED <<driver, keys, cmd, ep0, ep, completed, lastReport>>

\* The keyboard sends a report, which the controller writes to intr_buf.
HcReport ==
    /\ HasWork(ep, intr_ring) /\ ~ep.halted
    /\ FastDevice \/ pc = "ready"
    /\ \E report \in SUBSET Keys :
        /\ intr_buf' = report
        /\ lastReport' = report
    /\ Post(Ev("xfer", 0, 1))
    /\ ep' = [ep EXCEPT !.deq = @ + 1]
    /\ UNCHANGED <<driver, prev_keys, cmd, ep0, ports, completed>>

\* The transfer fails: the event carries an error, the buffer is untouched
\* and the endpoint halts.  The driver handles the event like a report.
HcTransferError ==
    /\ HasWork(ep, intr_ring) /\ ~ep.halted
    /\ FastDevice \/ pc = "ready"
    /\ lastReport' = {}
    /\ Post(Ev("xfer", 0, 4))
    /\ ep' = [ep EXCEPT !.deq = @ + 1, !.halted = TRUE]
    /\ UNCHANGED <<driver, keys, cmd, ep0, ports, completed>>

HcEndpointIdle ==
    /\ ep.bell /\ ~ep.halted /\ ~HasWork(ep, intr_ring)
    /\ ep' = Follow(ep, intr_ring)
    /\ UNCHANGED <<driver, keys, evhc, cmd, ep0, ports, completed, lastReport>>

-------------------------------------------------------------------------------
\* setup_cmd_ring, setup_evt_ring and start have run; the interrupt ring and
\* the buffers are as configure_endpoint and setup_keyboard leave them.
Init ==
    /\ pc = "scan" /\ stage = 1 /\ isr = "idle" /\ got_xfer = FALSE /\ budget = 0
    /\ evt_idx = 0 /\ evt_cycle = 1
    /\ cmd_ring = [i \in Slots |-> [cycle |-> IF i = Link THEN 1 ELSE 0, request |-> 0]]
    /\ cmd_idx = 0 /\ cmd_cycle = 1
    /\ intr_ring = [i \in Slots |-> 0] /\ intr_idx = 0 /\ intr_cycle = 1
    /\ intr_buf = {} /\ prev_keys = {}
    /\ evt_ring = [i \in Slots |-> [cycle |-> 0, body |-> Stale]]
    /\ enq = 0 /\ pcs = 1 /\ erdp = 0
    /\ ehb = FALSE /\ ip = FALSE /\ ie = FALSE /\ inte = FALSE /\ msi = FALSE
    /\ cmd = [deq |-> 0, dcs |-> 1, bell |-> FALSE]
    /\ ep0 = [queue |-> << >>, halted |-> FALSE]
    /\ ep = [deq |-> 0, dcs |-> 1, bell |-> FALSE, halted |-> FALSE]
    /\ ports = 0 /\ completed = {} /\ waiting = 0 /\ lastReport = {}

Run ==
    \/ ScanPorts \/ SubmitCmd \/ SubmitXfer \/ WaitEvent \/ WaitTimeout
    \/ SetupMsix \/ EnableInte \/ AckIman \/ EnableIman
    \/ RunQueue \/ RunDoorbell \/ RunBump

Handler ==
    \/ IsrEnter \/ IsrAck \/ IsrEvent \/ IsrProcess \/ IsrDrained
    \/ IsrQueue \/ IsrDoorbell \/ IsrBump \/ IsrEnd

Controller ==
    \/ HcCommand \/ HcCommandIdle \/ HcControl \/ HcPortChange
    \/ HcReport \/ HcTransferError \/ HcEndpointIdle

Next == Run \/ Handler \/ Controller

SafetySpec == Init /\ [][Next]_vars

\* The CPU executes run() and the handler; a loop that polls ends by its
\* counter at the latest.  Nothing is assumed of the device.
Fairness == WF_vars(Run) /\ WF_vars(Handler)

Spec == SafetySpec /\ Fairness

-------------------------------------------------------------------------------
(* Properties *)

Events == [type : {"cmd", "xfer", "port", "stale"}, id : Slots \cup 0 .. LastRequest,
           code : {0, 1, 4}]

\* The ring indices stay inside the rings, every variable in its range.
TypeOK ==
    /\ pc \in {"scan", "absent", "submit", "wait", "failed", "msix", "inte", "ack",
               "enable", "queue", "doorbell", "bump", "ready"}
    /\ stage \in 1 .. LastRequest
    /\ isr \in {"idle", "ack", "loop", "process", "queue", "doorbell", "bump", "end"}
    /\ got_xfer \in BOOLEAN /\ budget \in 0 .. RING_TRBS
    /\ evt_idx \in Slots /\ evt_cycle \in {0, 1}
    /\ cmd_ring \in [Slots -> [cycle : {0, 1}, request : 0 .. LastRequest]]
    /\ cmd_idx \in 0 .. Link /\ cmd_cycle \in {0, 1}
    /\ intr_ring \in [Slots -> {0, 1}] /\ intr_idx \in 0 .. Link /\ intr_cycle \in {0, 1}
    /\ intr_buf \subseteq Keys /\ prev_keys \subseteq Keys /\ lastReport \subseteq Keys
    /\ evt_ring \in [Slots -> [cycle : {0, 1}, body : Events]]
    /\ enq \in Slots /\ pcs \in {0, 1} /\ erdp \in Slots
    /\ {ehb, ip, ie, inte, msi} \subseteq BOOLEAN
    /\ cmd \in [deq : Slots, dcs : {0, 1}, bell : BOOLEAN]
    /\ ep \in [deq : Slots, dcs : {0, 1}, bell : BOOLEAN, halted : BOOLEAN]
    /\ ep0 \in [queue : Seq(1 .. LastRequest), halted : BOOLEAN]
    /\ ports \in 0 .. MaxPortEvents /\ waiting \in Nat
    /\ completed \subseteq 1 .. LastRequest

\* The driver's index and cycle bit find an event exactly when the controller
\* has posted one that was not consumed, across any number of wraps, and the
\* controller never overwrites one.
EventRingInSync == EventThere <=> waiting > 0

\* run() gets past a request whose result it checks only if the controller
\* carried that request out: no late completion of another request, and no
\* event of another kind, is taken for it.
OwnCompletion ==
    \A s \in 1 .. LastRequest :
        ~Ignored(s) /\ (stage > s \/ pc \in {"msix", "inte", "ack", "enable", "queue",
                                             "doorbell", "bump", "ready"})
            => s \in completed

\* Entries of the interrupt ring that the controller has yet to execute.
Armed ==
    {i \in Slots \ {Link} :
        intr_ring[i] = IF i >= ep.deq THEN ep.dcs ELSE 1 - ep.dcs}

InFlight == {i \in Slots : evt_ring[i].body.type = "xfer" /\ evt_ring[i].body.id = 0}

\* All transfers share intr_buf: at any time at most one is queued, completed
\* and not yet consumed, or being processed.  So no report is overwritten
\* before process_keys has seen it.
OneTransfer ==
    Cardinality(Armed) + Cardinality(InFlight) + (IF isr = "process" THEN 1 ELSE 0) <= 1

\* When no report is on its way to process_keys, the keys it remembers are
\* those of the keyboard's last report: no report is lost, and none is read
\* after the buffer was cleared for the next one.
KeysInStep == InFlight = {} /\ isr # "process" => prev_keys = lastReport

\* Once run() has reported the keyboard ready, and outside the handler, the
\* controller has a transfer to execute or has an interrupt under way, so that
\* the next key is seen.  But for one case that the driver does not handle:
\* after a transfer error the endpoint is halted (ep.halted), handle_interrupt
\* only counts the code and queues another transfer, which is never executed,
\* and the keyboard stays silent.
ReadyMeansArmed ==
    pc = "ready" /\ isr = "idle" /\ ~ep.halted =>
        \/ msi
        \/ ep.bell /\ Armed # {} /\ InFlight = {}

\* run() ends, whatever the controller and the device do or fail to do.
RunTerminates == <>(pc \in {"ready", "failed", "absent"})

\* Every report that the controller has announced is processed.
ReportProcessed == InFlight # {} ~> InFlight = {} /\ isr # "process"

(* Driver and controller agree on the event ring, at indices inside it.    *)
RingsInSync == TypeOK /\ EventRingInSync

(* Reports go through the one buffer one at a time and all of them count.  *)
ReportsInStep == OneTransfer /\ KeysInStep
===============================================================================
