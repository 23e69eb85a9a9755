------------------------------- MODULE KeyInput -------------------------------
(***************************************************************************)
(* The path of a key press from the keyboards to the program that called   *)
(* read: the ring of drivers/input.c, filled by the PS/2 handler (idt.c)   *)
(* and by the USB handler (usb.cpp), drained by EFF_READ (effect.c).       *)
(*                                                                         *)
(* One CPU runs one context at a time: the task (kernel_main, then the     *)
(* user program and its system calls) or one of three interrupt handlers.  *)
(* Every access to head, tail and buffer (all volatile) is a step of its   *)
(* own.  Nothing in the module makes the accesses of two contexts atomic:  *)
(* that they do not overlap must follow from the gate types of init_idt    *)
(* and from the interrupt flag.                                            *)
(***************************************************************************)
EXTENDS Integers, Sequences

CONSTANTS
    Chars,              \* characters that a key can produce
    NUL,                \* the zero byte in a cell never written
    NoKey,              \* a scancode without a character: a release (bit 7
                        \* set), one outside the table, a zero table entry
    NoByte,             \* output buffer of the 8042 empty
    INPUT_BUFFER_SIZE,  \* cells of the ring (256 in input.h)
    ReportKeys,         \* newly pressed keys in one USB report (at most 6)
    ReadLens            \* lengths passed to EFF_READ

ASSUME RingAssumption == INPUT_BUFFER_SIZE \in Nat /\ INPUT_BUFFER_SIZE >= 2
ASSUME CharsAssumption == {NUL, NoKey, NoByte} \cap Chars = {} /\ NoKey # NoByte
ASSUME ReadAssumption == ReportKeys \in Nat /\ ReadLens \subseteq Nat

VARIABLES
    buffer, head, tail,    \* the ring of input.c
    cur,                   \* the context on the CPU
    ifl,                   \* RFLAGS.IF
    pc,                    \* where each context is
    caller, savedIf,       \* interrupt frame: who was interrupted, its IF
    pend,                  \* interrupt requests not yet accepted
    obf,                   \* data byte of the 8042, or NoByte
    keysLeft,              \* newly pressed keys of the USB report in intr_buf
    c, next,               \* locals of input_push, per producer
    len, got,              \* EFF_READ: requested and copied so far
    reg,                   \* local c of input_pop
    cell,                  \* the byte EFF_READ stored last in the user's buffer
    outcome                \* ghost: what became of the character pushed last

ring == <<buffer, head, tail>>
cpu  == <<cur, ifl, pc, caller, savedIf>>
dev  == <<pend, obf, keysLeft>>
push == <<c, next, outcome>>
read == <<len, got, reg, cell>>
vars == <<ring, cpu, dev, push, read>>

Producers == {"ps2", "usb"}
Irqs      == {"pit"} \cup Producers
Contexts  == {"task"} \cup Irqs
Cells     == 0 .. INPUT_BUFFER_SIZE - 1

TaskLabels == {"boot", "kmain", "user", "check", "wait", "halted", "woken",
               "copy", "load", "advance"}
IrqLabels  == {"idle", "entry", "push", "store", "publish", "iret"}

-------------------------------------------------------------------------------
(* Gates (init_idt).  Type 0xE is an interrupt gate, which clears IF on    *)
(* entry; type 0xF would be a trap gate, which leaves IF alone.            *)

TrapGate80 == 239
TrapGateIrq == 143

irq_gate     == 142   \* 0x8E
syscall_gate == 238   \* 0xEE

IfOnEntry(flags) == IF flags % 16 = 14 THEN 0 ELSE ifl

-------------------------------------------------------------------------------
(* drivers/input.c *)

SuccNoWrap(i) == i + 1

Succ(i) == (i + 1) % INPUT_BUFFER_SIZE

input_available == head # tail

Goto(ctx, label) == pc' = [pc EXCEPT ![ctx] = label]

\* Where the caller of input_push goes on: the PS/2 handler is done, the
\* USB handler looks at the next key of its report.
Return(p) == IF p = "usb" THEN "entry" ELSE "iret"

PushTestUnguarded(p) ==
    /\ cur = p /\ pc[p] = "push"
    /\ Goto(p, "store")
    /\ next' = [next EXCEPT ![p] = Succ(head)]
    /\ UNCHANGED <<ring, cur, ifl, caller, savedIf, dev, c, outcome, read>>

\* input_push: compute the next head and give up if it meets the tail.
PushTest(p) ==
    /\ cur = p /\ pc[p] = "push"
    /\ \/ /\ Succ(head) = tail
          /\ Goto(p, Return(p))
          /\ c' = [c EXCEPT ![p] = NUL]
          /\ outcome' = "refused"
          /\ UNCHANGED next
       \/ /\ Succ(head) # tail
          /\ Goto(p, "store")
          /\ next' = [next EXCEPT ![p] = Succ(head)]
          /\ UNCHANGED <<c, outcome>>
    /\ UNCHANGED <<ring, cur, ifl, caller, savedIf, dev, read>>

\* input_push: buffer[head] = c.
PushStore(p) ==
    /\ cur = p /\ pc[p] = "store"
    /\ buffer' = [buffer EXCEPT ![head] = c[p]]
    /\ Goto(p, "publish")
    /\ UNCHANGED <<head, tail, cur, ifl, caller, savedIf, dev, push, read>>

\* input_push: head = next, and return.
PushPublish(p) ==
    /\ cur = p /\ pc[p] = "publish"
    /\ head' = next[p]
    /\ Goto(p, Return(p))
    /\ c' = [c EXCEPT ![p] = NUL]
    /\ next' = [next EXCEPT ![p] = 0]
    /\ outcome' = "accepted"
    /\ UNCHANGED <<buffer, tail, cur, ifl, caller, savedIf, dev, read>>

-------------------------------------------------------------------------------
(* The devices and the interrupt mechanism *)

\* The PIT's output rises, 100 times a second.
PitTick ==
    /\ pend' = pend \cup {"pit"}
    /\ UNCHANGED <<ring, cpu, obf, keysLeft, push, read>>

\* The 8042 has room for the next scancode and raises IRQ 1.
Ps2Scancode ==
    /\ obf = NoByte
    /\ obf' \in Chars \cup {NoKey}
    /\ pend' = pend \cup {"ps2"}
    /\ UNCHANGED <<ring, cpu, keysLeft, push, read>>

\* The xHCI controller has written a report to intr_buf and sends its
\* message.  A new report needs the transfer that handle_interrupt queues
\* after it has processed the previous one.
UsbReport ==
    /\ pc["task"] # "boot"
    /\ "usb" \notin pend /\ pc["usb"] \in {"idle", "iret"}
    /\ keysLeft' \in 0 .. ReportKeys
    /\ pend' = pend \cup {"usb"}
    /\ UNCHANGED <<ring, cpu, obf, push, read>>

\* The CPU accepts a request.  It leaves hlt for good: the frame points to
\* the instruction after it.  The stub saves the registers and irq_dispatch
\* acknowledges the interrupt and calls the handler.
EnterIrq(i) ==
    /\ i \in pend /\ ifl = 1 /\ pc[i] = "idle"
    /\ pend' = pend \ {i}
    /\ caller' = [caller EXCEPT ![i] = cur]
    /\ savedIf' = [savedIf EXCEPT ![i] = ifl]
    /\ ifl' = IfOnEntry(irq_gate)
    /\ cur' = i
    /\ pc' = [pc EXCEPT ![i] = "entry",
                        ![cur] = IF @ = "halted" THEN "woken" ELSE @]
    /\ UNCHANGED <<ring, obf, keysLeft, push, read>>

\* The handler returns and the stub executes iretq.
Iret(i) ==
    /\ cur = i /\ pc[i] = "iret"
    /\ cur' = caller[i]
    /\ ifl' = savedIf[i]
    /\ caller' = [caller EXCEPT ![i] = "task"]
    /\ savedIf' = [savedIf EXCEPT ![i] = 0]
    /\ Goto(i, "idle")
    /\ UNCHANGED <<ring, dev, push, read>>

\* pit_handler.
PitHandler ==
    /\ cur = "pit" /\ pc["pit"] = "entry"
    /\ Goto("pit", "iret")
    /\ UNCHANGED <<ring, cur, ifl, caller, savedIf, dev, push, read>>

\* ps2_keyboard_handler: read port 0x60, translate, push.
Ps2Handler ==
    /\ cur = "ps2" /\ pc["ps2"] = "entry"
    /\ obf' = NoByte
    /\ \/ /\ obf \in Chars
          /\ c' = [c EXCEPT !["ps2"] = obf]
          /\ Goto("ps2", "push")
       \/ /\ obf \notin Chars
          /\ Goto("ps2", "iret")
          /\ UNCHANGED c
    /\ UNCHANGED <<ring, cur, ifl, caller, savedIf, pend, keysLeft, next, outcome, read>>

\* process_keys: push the next newly pressed key, or finish.
UsbHandler ==
    /\ cur = "usb" /\ pc["usb"] = "entry"
    /\ \/ /\ keysLeft > 0
          /\ keysLeft' = keysLeft - 1
          /\ \E k \in Chars : c' = [c EXCEPT !["usb"] = k]
          /\ Goto("usb", "push")
       \/ /\ keysLeft = 0
          /\ Goto("usb", "iret")
          /\ UNCHANGED <<keysLeft, c>>
    /\ UNCHANGED <<ring, cur, ifl, caller, savedIf, pend, obf, next, outcome, read>>

-------------------------------------------------------------------------------
(* The task: kernel_main, the user program, EFF_READ *)

TaskAt(label) == cur = "task" /\ pc["task"] = label

\* kernel_main has initialised the ring and the gates, and executes sti.
EnableInterrupts ==
    /\ TaskAt("boot")
    /\ ifl' = 1
    /\ Goto("task", "kmain")
    /\ UNCHANGED <<ring, cur, caller, savedIf, dev, push, read>>

\* jump_to_user: iretq with RFLAGS = 0x202.
JumpToUser ==
    /\ TaskAt("kmain")
    /\ ifl' = 1
    /\ Goto("task", "user")
    /\ UNCHANGED <<ring, cur, caller, savedIf, dev, push, read>>

\* int 0x80 with EFF_READ, up to the first test of input_available.
Syscall ==
    /\ TaskAt("user")
    /\ len' \in ReadLens
    /\ got' = 0
    /\ ifl' = IfOnEntry(syscall_gate)
    /\ Goto("task", "check")
    /\ UNCHANGED <<ring, cur, caller, savedIf, dev, push, reg, cell>>

\* while (!input_available())
CheckAvailable ==
    /\ TaskAt("check")
    /\ Goto("task", IF input_available THEN "copy" ELSE "wait")
    /\ UNCHANGED <<ring, cur, ifl, caller, savedIf, dev, push, read>>

HaltNoSti ==
    /\ TaskAt("wait")
    /\ Goto("task", "halted")
    /\ UNCHANGED <<ring, cur, ifl, caller, savedIf, dev, push, read>>

\* sti; hlt.  One step: no interrupt is accepted between the two, since sti
\* takes effect after the instruction that follows it.
StiHlt ==
    /\ TaskAt("wait")
    /\ ifl' = 1
    /\ Goto("task", "halted")
    /\ UNCHANGED <<ring, cur, caller, savedIf, dev, push, read>>

CliNoRecheck ==
    /\ TaskAt("woken")
    /\ ifl' = 0
    /\ Goto("task", "copy")
    /\ UNCHANGED <<ring, cur, caller, savedIf, dev, push, read>>

\* cli, then back to the loop condition.
Cli ==
    /\ TaskAt("woken")
    /\ ifl' = 0
    /\ Goto("task", "check")
    /\ UNCHANGED <<ring, cur, caller, savedIf, dev, push, read>>

\* while (got < len && input_available()); otherwise e.result = got, and
\* iretq restores the user's RFLAGS, in which IF is set.
CopyLoop ==
    /\ TaskAt("copy")
    /\ \/ /\ got < len /\ input_available
          /\ Goto("task", "load")
          /\ UNCHANGED ifl
       \/ /\ ~(got < len /\ input_available)
          /\ Goto("task", "user")
          /\ ifl' = 1
    /\ UNCHANGED <<ring, cur, caller, savedIf, dev, push, read>>

\* input_pop: c = buffer[tail].
PopLoad ==
    /\ TaskAt("load")
    /\ reg' = buffer[tail]
    /\ Goto("task", "advance")
    /\ UNCHANGED <<ring, cur, ifl, caller, savedIf, dev, push, len, got, cell>>

\* input_pop: tail = (tail + 1) % SIZE; EFF_READ: buf[got++] = c.
PopAdvance ==
    /\ TaskAt("advance")
    /\ tail' = Succ(tail)
    /\ cell' = reg
    /\ got' = got + 1
    /\ reg' = NUL
    /\ Goto("task", "copy")
    /\ UNCHANGED <<buffer, head, cur, ifl, caller, savedIf, dev, push, len>>

-------------------------------------------------------------------------------
\* input_init has run, interrupts are still off, and the 8042 holds no byte.
Init ==
    /\ buffer = [i \in Cells |-> NUL] /\ head = 0 /\ tail = 0
    /\ cur = "task" /\ ifl = 0
    /\ pc = [x \in Contexts |-> IF x = "task" THEN "boot" ELSE "idle"]
    /\ caller = [i \in Irqs |-> "task"] /\ savedIf = [i \in Irqs |-> 0]
    /\ pend = {} /\ obf = NoByte /\ keysLeft = 0
    /\ c = [p \in Producers |-> NUL] /\ next = [p \in Producers |-> 0]
    /\ len = 0 /\ got = 0 /\ reg = NUL /\ cell = NUL
    /\ outcome = "none"

Device == PitTick \/ Ps2Scancode \/ UsbReport

Handlers ==
    \/ PitHandler \/ Ps2Handler \/ UsbHandler
    \/ \E p \in Producers : PushTest(p) \/ PushStore(p) \/ PushPublish(p)
    \/ \E i \in Irqs : Iret(i)

\* The instructions of EFF_READ; the user program decides when to call it.
ReadSteps ==
    \/ CheckAvailable \/ StiHlt \/ Cli \/ CopyLoop \/ PopLoad \/ PopAdvance

Next ==
    \/ Device
    \/ \E i \in Irqs : EnterIrq(i)
    \/ Handlers
    \/ EnableInterrupts \/ JumpToUser \/ Syscall \/ ReadSteps

\* The CPU executes the instructions of the running handler.  Interrupts do
\* not come back to back for ever (ticks are 10 ms apart, and USB reports at
\* least a polling interval), so the task gets to its next instruction and a
\* request of the keyboard gets accepted if it is acceptable again and again.
Fairness ==
    /\ WF_vars(Handlers)
    /\ SF_vars(ReadSteps)
    /\ SF_vars(EnterIrq("ps2"))

SafetySpec == Init /\ [][Next]_vars

Spec == SafetySpec /\ Fairness

-------------------------------------------------------------------------------
(* Properties *)

\* The indices stay inside buffer and every variable in its range.
TypeOK ==
    /\ buffer \in [Cells -> Chars \cup {NUL}]
    /\ head \in Cells /\ tail \in Cells
    /\ cur \in Contexts /\ ifl \in {0, 1}
    /\ pc \in [Contexts -> TaskLabels \cup IrqLabels]
    /\ caller \in [Irqs -> Contexts] /\ savedIf \in [Irqs -> {0, 1}]
    /\ pend \subseteq Irqs
    /\ obf \in Chars \cup {NoKey, NoByte}
    /\ keysLeft \in 0 .. ReportKeys
    /\ c \in [Producers -> Chars \cup {NUL}] /\ next \in [Producers -> Cells]
    /\ len \in Nat /\ got \in Nat
    /\ reg \in Chars \cup {NUL} /\ cell \in Chars \cup {NUL}
    /\ outcome \in {"none", "accepted", "refused"}

\* EFF_READ never sleeps in hlt while the ring holds a character: between its
\* test of input_available and its sti; hlt no handler can push one.
NoLostWakeup == pc["task"] = "halted" => head = tail

InRing == {"push", "store", "publish"}

\* The PS/2 handler, the USB handler and EFF_READ never overlap inside the
\* ring: while one of them is between the steps of input_push or of
\* input_pop, the others are outside.
RingAccessExclusive ==
    /\ ~(pc["ps2"] \in InRing /\ pc["usb"] \in InRing)
    /\ pc["task"] \in {"copy", "load", "advance"} =>
           \A p \in Producers : pc[p] \notin InRing

\* A read of at least one byte returns at least one byte, although any
\* interrupt, and not only a key's, ends the hlt.
ReadReturnsData == pc["task"] = "user" /\ len > 0 => got > 0

\* Characters in the ring, oldest first.
Count == IF head >= tail THEN head - tail ELSE head + INPUT_BUFFER_SIZE - tail

Slot(k) == IF tail + k < INPUT_BUFFER_SIZE THEN tail + k
                                           ELSE tail + k - INPUT_BUFFER_SIZE

Contents == [k \in 1 .. Count |-> buffer[Slot(k - 1)]]

Abstract == INSTANCE CharQueue WITH
    q <- Contents, Capacity <- INPUT_BUFFER_SIZE - 1

\* The ring is a FIFO of SIZE - 1 characters: a pushed character is read once
\* and in order, and is refused only when SIZE - 1 characters are waiting.
RefinesCharQueue == Abstract!Spec

\* A reader that is asleep while the PS/2 controller holds a key's byte gets
\* back to its program.
ReaderServed ==
    (pc["task"] \in {"check", "wait", "halted", "woken"} /\ obf \in Chars)
        ~> (pc["task"] = "user")

-------------------------------------------------------------------------------
(* The inductive invariant behind the properties; KeyInputProofs. *)

\* A handler is active exactly when it is on the CPU, and what it interrupted
\* is the task with interrupts enabled: handlers do not nest.
FrameInv ==
    /\ pc["task"] \in TaskLabels
    /\ \A i \in Irqs :
           /\ pc[i] \in IrqLabels
           /\ cur = i <=> pc[i] # "idle"
           /\ cur = i => caller[i] = "task" /\ savedIf[i] = 1

\* Interrupts are enabled in kernel_main, in the user program and around hlt,
\* and nowhere else; only there can a handler have interrupted the task.
FlagInv ==
    IF cur = "task"
    THEN ifl = IF pc["task"] \in {"kmain", "user", "halted", "woken"} THEN 1 ELSE 0
    ELSE ifl = 0 /\ pc["task"] \in {"kmain", "user", "woken"}

\* What EFF_READ has learnt about the ring is still true.
ReadInv ==
    /\ pc["task"] \in {"boot", "kmain"} => len = 0
    /\ pc["task"] \in {"wait", "halted"} => head = tail
    /\ pc["task"] \in {"load", "advance"} => head # tail
    /\ pc["task"] = "advance" => reg = buffer[tail]
    /\ pc["task"] = "copy" /\ got = 0 => head # tail
    /\ pc["task"] = "user" /\ len > 0 => got > 0

\* What input_push has learnt about the ring is still true.
PushInv ==
    \A p \in Producers :
        /\ pc[p] \in InRing => c[p] \in Chars
        /\ pc[p] \in {"store", "publish"} => next[p] = Succ(head) /\ next[p] # tail
        /\ pc[p] = "publish" => buffer[head] = c[p]

IInv == TypeOK /\ FrameInv /\ FlagInv /\ ReadInv /\ PushInv
===============================================================================
