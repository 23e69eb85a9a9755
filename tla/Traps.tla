---------------------------------- MODULE Traps --------------------------------
(***************************************************************************)
(* Interrupt entry: the stubs of boot/boot.s, the gates and the PIC set-up *)
(* of arch/x86_64/idt.c, the handler table of irq.c, the order in which    *)
(* kernel_main turns them on, and the kernel stack that the TSS names.     *)
(*                                                                         *)
(* The stack is a sequence of words, the top last.  The processor pushes   *)
(* five words and for some exceptions an error code; the stubs must make   *)
(* the same frame of both, since the handlers find rip and the vector by   *)
(* their place and iretq takes whatever is on top.                         *)
(***************************************************************************)
EXTENDS Integers, Sequences, FiniteSets

CONSTANTS
    Lines,          \* lines of the PIC that devices raise; 0 is the PIT
    Spurious,       \* of those, the ones that the PIC makes up (7)
    USB_IRQ_VECTOR, \* raised through the LAPIC
    Exceptions,     \* exceptions that may occur
    UserInts,       \* n of the int n that a program may execute
    MaxRaise        \* bound on how often each device raises

ASSUME VectorsAssumption ==
    /\ Lines \subseteq 0 .. 15 /\ Spurious \subseteq Lines
    /\ USB_IRQ_VECTOR \in 48 .. 79 /\ Exceptions \subseteq 0 .. 31 /\ UserInts \subseteq 0 .. 255

VARIABLES
    pc, ring, intr, \* the processor; intr is its interrupt flag
    vec,            \* the vector being handled
    stack,          \* the kernel's stack
    step,           \* kernel_main's progress
    idt, handler,   \* gates and irq_table
    count,          \* irq_table[v].count
    mask, irr, isr, \* the PIC: masked, requested, in service
    apic,           \* the LAPIC: vectors in service
    msi,            \* the USB controller has an interrupt to deliver
    raised,         \* how often a device raised
    accepted        \* ghost: interrupts that devices got through, by vector

cpu  == <<pc, ring, intr, vec, stack>>
pic  == <<mask, irr, isr, apic, msi>>
conf == <<step, idt, handler>>
vars == <<cpu, conf, count, pic, raised, accepted>>

Device  == Lines \cup {USB_IRQ_VECTOR}
Vectors == Exceptions \cup UserInts \cup {32 + l : l \in Lines} \cup {0, 13, 39, 128, USB_IRQ_VECTOR}
Handled == {32, 33, USB_IRQ_VECTOR}

--------------------------------------------------------------------------------
(* boot.s *)

\* The vectors for which the processor pushes an error code (external).
CpuError == {8} \cup 10 .. 14 \cup {17, 21, 29, 30}

IsrErrOld == {8} \cup 10 .. 14 \cup {17, 30}

\* The stubs made with ISR_ERR; ISR_NOERR, isr128 and IRQ_STUB push a zero.
ISR_ERR == {8} \cup 10 .. 14 \cup {17, 21, 29, 30}

W(name, val) == [name |-> name, val |-> val]

Flag == IF intr THEN "on" ELSE "off"

CpuFrame(v, rip) ==
    <<W("ss", ""), W("rsp", ""), W("rflags", Flag), W("cs", ring), W("rip", rip)>>
    \o (IF v \in CpuError THEN <<W("error", "")>> ELSE <<>>)

StubFrame(v) == (IF v \in ISR_ERR THEN <<>> ELSE <<W("error", "0")>>) \o <<W("vector", "")>>

\* boot_main: the TSS has an entry from ring 3 start at stack_kernel_top.
rsp0 == <<>>

Top(k) == stack[Len(stack) + 1 - k]

--------------------------------------------------------------------------------
(* Delivery (external): through the gate, with interrupts off. *)

Deliver(v, rip) ==
    /\ stack' = (IF ring = "user" THEN rsp0 ELSE stack) \o CpuFrame(v, rip)
    /\ ring' = "kernel" /\ intr' = FALSE /\ vec' = v
    /\ pc' = IF idt[v].present THEN "stub" ELSE "reset"

\* The two kinds of stub, up to the call; what they share after it is Iret.
isr_common ==
    /\ pc = "stub" /\ (vec < 32 \/ vec = 128)
    /\ stack' = stack \o StubFrame(vec)
    /\ pc' = "exception"
    /\ UNCHANGED <<ring, intr, vec, conf, count, pic, raised, accepted>>

irq_common ==
    /\ pc = "stub" /\ vec \in 32 .. 79
    /\ stack' = stack \o StubFrame(vec)
    /\ pc' = "irq_dispatch"
    /\ UNCHANGED <<ring, intr, vec, conf, count, pic, raised, accepted>>

IretShort ==
    /\ pc = "iret"
    /\ pc' = Top(3).val /\ ring' = Top(4).val /\ intr' = (Top(5).val = "on")
    /\ stack' = SubSeq(stack, 1, Len(stack) - 6)
    /\ UNCHANGED <<vec, conf, count, pic, raised, accepted>>

\* The end of the stubs: add $16, %rsp and iretq.
Iret ==
    /\ pc = "iret"
    /\ pc' = Top(3).val /\ ring' = Top(4).val /\ intr' = (Top(5).val = "on")
    /\ stack' = SubSeq(stack, 1, Len(stack) - 7)
    /\ UNCHANGED <<vec, conf, count, pic, raised, accepted>>

--------------------------------------------------------------------------------
(* kernel_main, up to the program *)

BootOpen == <<"irq_init", "pic_remap", "register", "unmask", "sti", "init_idt", "usb", "user">>
BootLate == <<"irq_init", "pic_remap", "init_idt", "unmask", "sti", "register", "usb", "user">>

BootOrder == <<"irq_init", "pic_remap", "init_idt", "register", "unmask", "sti", "usb", "user">>

Do(what) == pc = "kernel" /\ step <= Len(BootOrder) /\ BootOrder[step] = what /\ step' = step + 1

irq_init ==
    /\ Do("irq_init")
    /\ handler' = {} /\ count' = [v \in Handled |-> 0]
    /\ UNCHANGED <<cpu, idt, pic, raised, accepted>>

\* ICW1 (0x11) resets the edge detectors: what was requested before is dropped.
\* All lines are masked in the end.
pic_remap ==
    /\ Do("pic_remap")
    /\ mask' = 0 .. 15 /\ irr' = {}
    /\ UNCHANGED <<cpu, idt, handler, count, isr, apic, msi, raised, accepted>>

GateOpen(v) == [present |-> v < 80 \/ v = 128, dpl |-> 3]

\* 0x8E for the stubs 0 to 79, 0xEE for isr128, nothing for the others.
Gate(v) == [present |-> v < 80 \/ v = 128, dpl |-> IF v = 128 THEN 3 ELSE 0]

init_idt ==
    /\ Do("init_idt")
    /\ idt' = [v \in Vectors |-> Gate(v)]
    /\ UNCHANGED <<cpu, handler, count, pic, raised, accepted>>

\* irq_register refuses a vector that is taken.
irq_register(vs) ==
    /\ handler' = handler \cup vs
    /\ count' = [v \in Handled |-> IF v \in vs \ handler THEN 0 ELSE count[v]]

Register ==
    /\ Do("register")
    /\ irq_register({32, 33})
    /\ UNCHANGED <<cpu, idt, pic, raised, accepted>>

\* outb(0x21, 0xFC): lines 0 and 1.
Unmask ==
    /\ Do("unmask")
    /\ mask' = mask \ {0, 1}
    /\ UNCHANGED <<cpu, idt, handler, count, irr, isr, apic, msi, raised, accepted>>

Sti ==
    /\ Do("sti")
    /\ intr' = TRUE
    /\ UNCHANGED <<pc, ring, vec, stack, idt, handler, count, pic, raised, accepted>>

\* XhciController::run: the vector is registered before the controller may use it.
UsbStart ==
    /\ Do("usb")
    /\ irq_register({USB_IRQ_VECTOR})
    /\ UNCHANGED <<cpu, idt, pic, raised, accepted>>

\* jump_to_user leaves by an iretq of its own; nothing returns to the stack that
\* it leaves behind.
jump_to_user ==
    /\ Do("user")
    /\ pc' = "user" /\ ring' = "user" /\ intr' = TRUE /\ stack' = rsp0
    /\ UNCHANGED <<vec, idt, handler, count, pic, raised, accepted>>

Boot == irq_init \/ pic_remap \/ init_idt \/ Register \/ Unmask \/ Sti \/ UsbStart \/ jump_to_user

--------------------------------------------------------------------------------
(* Devices and the interrupt controllers (external) *)

\* A line may rise again at any time; the 8042 waits until its byte is read, see
\* KeyInput.
Raise(d) ==
    /\ raised[d] < MaxRaise
    /\ raised' = [raised EXCEPT ![d] = @ + 1]
    /\ IF d \in Lines THEN irr' = irr \cup {d} /\ UNCHANGED msi
       ELSE step > 7 /\ msi' = TRUE /\ UNCHANGED irr
    /\ UNCHANGED <<cpu, conf, count, mask, isr, apic, accepted>>

Running == intr /\ pc \in {"kernel", "user", "hlt"}

\* After the hlt the interrupted wait goes on with cli.
Resume == IF pc = "hlt" THEN "cli" ELSE pc

\* The PIC gives the first line that is not masked, below what is in service.
AcceptPic(l) ==
    /\ Running
    /\ l \in irr \ mask
    /\ \A k \in 0 .. l : k \notin isr /\ (k # l => k \notin irr \ mask)
    /\ Deliver(32 + l, Resume)
    /\ irr' = irr \ {l} /\ isr' = isr \cup {l}
    /\ accepted' = [accepted EXCEPT ![32 + l] = @ + 1]
    /\ UNCHANGED <<conf, count, mask, apic, msi, raised>>

\* A line that is gone when the PIC is asked: vector 39, nothing in service.
AcceptSpurious(l) ==
    /\ Running
    /\ l \in irr \cap Spurious
    /\ Deliver(39, Resume)
    /\ irr' = irr \ {l}
    /\ UNCHANGED <<conf, count, mask, isr, apic, msi, raised, accepted>>

AcceptMsi ==
    /\ Running
    /\ msi /\ apic = {}
    /\ Deliver(USB_IRQ_VECTOR, Resume)
    /\ msi' = FALSE /\ apic' = {USB_IRQ_VECTOR}
    /\ accepted' = [accepted EXCEPT ![USB_IRQ_VECTOR] = @ + 1]
    /\ UNCHANGED <<conf, count, mask, irr, isr, raised>>

--------------------------------------------------------------------------------
(* irq.c and idt.c *)

First(s) == {x \in s : \A y \in s : x <= y}

EoiNever(v) == UNCHANGED <<isr, apic>>

\* The end of interrupt clears the first line in service, whichever it is.
Eoi(v) ==
    IF v < 48 THEN isr' = isr \ First(isr) /\ UNCHANGED apic
    ELSE apic' = {} /\ UNCHANGED isr

irq_dispatch ==
    /\ pc = "irq_dispatch"
    /\ Eoi(vec)
    /\ pc' = IF vec \in handler THEN "handle" ELSE "iret"
    /\ count' = IF vec \in handler THEN [count EXCEPT ![vec] = @ + 1] ELSE count
    /\ UNCHANGED <<ring, intr, vec, stack, conf, mask, irr, msi, raised, accepted>>

\* pit_handler, ps2_keyboard_handler, usb_handler_c: see KeyInput and Xhci.
Handle ==
    /\ pc = "handle"
    /\ pc' = "iret"
    /\ UNCHANGED <<ring, intr, vec, stack, conf, count, pic, raised, accepted>>

\* exception_handler: a system call, or the report and the end.
exception_handler ==
    /\ pc = "exception"
    /\ pc' = IF vec = 128 THEN "syscall" ELSE "stopped"
    /\ UNCHANGED <<ring, intr, vec, stack, conf, count, pic, raised, accepted>>

\* An effect returns, waits for input with sti and hlt, or is the exit.
Effect ==
    /\ pc = "syscall"
    /\ \/ pc' = "iret" /\ UNCHANGED intr
       \/ pc' = "hlt" /\ intr' = TRUE
       \/ pc' = "stopped" /\ UNCHANGED intr
    /\ UNCHANGED <<ring, vec, stack, conf, count, pic, raised, accepted>>

Cli ==
    /\ pc = "cli"
    /\ intr' = FALSE
    /\ pc' = "syscall"
    /\ UNCHANGED <<ring, vec, stack, conf, count, pic, raised, accepted>>

--------------------------------------------------------------------------------
(* The program *)

\* int n: through the gate, or a general protection fault.
UserInt(n) ==
    /\ pc = "user"
    /\ Deliver(IF idt[n].present /\ idt[n].dpl = 3 THEN n ELSE 13, "user")
    /\ UNCHANGED <<conf, count, pic, raised, accepted>>

Exception(v) ==
    /\ pc \in {"user", "syscall"} \/ (pc = "kernel" /\ step > 3)
    /\ Deliver(v, pc)
    /\ UNCHANGED <<conf, count, pic, raised, accepted>>

Init ==
    /\ pc = "kernel" /\ ring = "kernel" /\ intr = FALSE /\ vec = 0 /\ stack = <<>>
    /\ step = 1 /\ idt = [v \in Vectors |-> [present |-> FALSE, dpl |-> 0]]
    /\ handler = {} /\ count = [v \in Handled |-> 0]
    /\ mask = {} /\ irr = {} /\ isr = {} /\ apic = {} /\ msi = FALSE
    /\ raised = [d \in Device |-> 0] /\ accepted = [v \in Handled |-> 0]

Accept == (\E l \in Lines \ Spurious : AcceptPic(l)) \/ (\E l \in Spurious : AcceptSpurious(l)) \/ AcceptMsi

Kernel == isr_common \/ irq_common \/ Iret \/ Boot \/ irq_dispatch \/ Handle \/ exception_handler \/ Effect \/ Cli

Next ==
    \/ Kernel \/ Accept
    \/ \E d \in Device : Raise(d)
    \/ \E n \in UserInts : UserInt(n)
    \/ \E v \in Exceptions : Exception(v)

\* The processor runs, and takes an interrupt that stays requested.
Spec == Init /\ [][Next]_vars /\ WF_vars(Kernel) /\ SF_vars(Accept)

--------------------------------------------------------------------------------
(* Properties *)

TypeOK ==
    /\ pc \in {"kernel", "user", "hlt", "cli", "stub", "exception", "irq_dispatch", "handle",
               "syscall", "iret", "stopped"}
    /\ ring \in {"kernel", "user"} /\ intr \in BOOLEAN /\ vec \in Vectors
    /\ step \in 1 .. Len(BootOrder) + 1

(* Whatever the vector, and with interrupts on top of a waiting system     *)
(* call, the handlers and iretq find the frame where struct regs has it.   *)
FrameMatches ==
    pc \in {"exception", "irq_dispatch", "handle", "syscall", "hlt", "cli", "iret"} =>
        /\ Len(stack) >= 7
        /\ Top(1).name = "vector" /\ Top(2).name = "error" /\ Top(3).name = "rip"
        /\ Top(4).name = "cs" /\ Top(5).name = "rflags"

(* The kernel's stack is empty when the program runs, and holds at most a  *)
(* system call and what interrupted it.                                    *)
StackBounded == (ring = "user" => stack = <<>>) /\ Len(stack) <= 2 * 7

(* Each interrupt of a device is counted by its handler exactly once, from *)
(* the first one after sti on: kernel_main registers before it unmasks,    *)
(* and a program cannot raise an interrupt with int n.                     *)
CountExact ==
    pc \in {"kernel", "user", "hlt"} =>
        \A v \in Handled : count[v] = accepted[v]

(* Nothing is in service while interrupts are on: the end of interrupt     *)
(* that irq_dispatch sends before the handler, also for the spurious       *)
(* vector, never acknowledges another device and is never missing.         *)
NothingInService == intr => isr = {} /\ apic = {}

(* From pic_remap on, a request of the PS/2 keyboard reaches its handler,  *)
(* whatever the kernel does at the time, unless the machine has stopped.   *)
(* Not so a key pressed before: pic_remap drops its request, and nothing   *)
(* reads port 0x60 afterwards, so that a keyboard which holds its line     *)
(* until its byte is read makes no further request either.                 *)
KeyServed == [](step > 2 /\ 1 \in irr => <>(pc = "stopped" \/ (pc = "handle" /\ vec = 33)))

(* Each entry leaves the frame that its return takes off, whatever was     *)
(* interrupted and however deep, and no vector is raised without a gate.   *)
FramesRight == TypeOK /\ FrameMatches /\ StackBounded

(* Each interrupt is counted once and acknowledged once: none is lost to   *)
(* another's end of interrupt, and no line stays in service.               *)
InterruptsServed == CountExact /\ NothingInService
================================================================================
