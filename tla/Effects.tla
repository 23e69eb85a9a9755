-------------------------------- MODULE Effects --------------------------------
(***************************************************************************)
(* System calls: int 0x80 in arch/x86_64/idt.c, the chain of handlers and  *)
(* the core handler of kernel/effect.c, and cpu_get_brand, which fills in  *)
(* part of the answer to IOCTL_GET_INFO.  The waiting in EFF_READ is the   *)
(* subject of KeyInput; here a read returns what the ring had.             *)
(***************************************************************************)
EXTENDS Integers, Sequences

CONSTANTS
    MAX_HANDLERS,   \* size of the table of handlers (16)
    Registered,     \* the handlers that effect_init_default_handlers adds
    VENDOR_MAX,     \* characters of the vendor's name that are kept (30)
    HOST_MAX,       \* size of sys_info.host (64)
    BRAND_MAX,      \* bytes of the processor's brand string (48)
    CPU_MAX,        \* size of sys_info.cpu (64)
    KERNEL_MAX,     \* size of sys_info.kernel (32)
    Characters,     \* that names are made of
    Version,        \* the kernel's version
    Machines,       \* [vendor, board, brand]
    Requests        \* the calls a program makes: [op, cmd, arg1, len]

NULL    == <<"NULL">>
NUL     == "NUL"
Unknown == <<"U">>      \* "Unknown" and its kin

\* What the sizes in the code satisfy.
EffectsAssumption ==
    /\ {MAX_HANDLERS, VENDOR_MAX, HOST_MAX, CPU_MAX, KERNEL_MAX} \subseteq Nat
    /\ BRAND_MAX \in Nat \ {0}
    /\ VENDOR_MAX + 1 < HOST_MAX /\ BRAND_MAX + 1 <= CPU_MAX /\ KERNEL_MAX > 1
    /\ Registered \in Seq({"trace", "sandbox", "core"}) /\ Len(Registered) \in 1 .. MAX_HANDLERS

\* Strings of C; the brand is what cpuid gave, and may hold a NUL anywhere.
Text == Seq(Characters)
TextsAssumption ==
    /\ NULL \in Text /\ Unknown \in Text /\ " " \in Characters /\ NUL \notin Characters
    /\ Version \in Text
    /\ \A m \in Machines : /\ m.vendor \in Text /\ m.board \in Text
                           /\ m.brand \in Seq(Characters \cup {NUL}) /\ Len(m.brand) <= BRAND_MAX

VARIABLES
    machine,
    handlers,       \* the table, up to handler_count
    call_pc,        \* "boot", "user", "perform", "stopped"
    asked,          \* the call under way, as the program made it
    e,              \* [result, error]
    h,              \* effect_perform's i
    info,           \* the program's struct sys_info
    rax,            \* what int 0x80 returned
    done            \* ghost: what the kernel did for the call

effectVars == <<machine, handlers, call_pc, asked, e, h, info, rax, done>>

EFAULT == -14
EINVAL == -22
ENOSYS == -38

Prefix(s, n) == SubSeq(s, 1, IF Len(s) < n THEN Len(s) ELSE n)

--------------------------------------------------------------------------------
(* struct sys_info: host, cpu, gpu and kernel, one behind the other *)

HostAt   == 0
CpuAt    == HOST_MAX
GpuAt    == CpuAt + CPU_MAX
KernelAt == GpuAt + CPU_MAX
InfoSize == KernelAt + KERNEL_MAX

Store(m, at, s) ==
    [a \in DOMAIN m \cup {at + k - 1 : k \in DOMAIN s} |->
        IF a - at + 1 \in DOMAIN s THEN s[a - at + 1] ELSE m[a]]

OrUnknown(s) == IF s = NULL THEN Unknown ELSE s

HostLong(vendor, board) ==
    LET v == Append(Prefix(vendor, VENDOR_MAX), " ")
    IN  v \o Prefix(board, HOST_MAX - Len(v)) \o <<NUL>>

HostText(vendor, board) ==
    LET v == Append(Prefix(vendor, VENDOR_MAX), " ")
    IN  v \o Prefix(board, HOST_MAX - 1 - Len(v)) \o <<NUL>>

\* The string at an address, which need not end where its field does.
String(m, at) ==
    LET end == CHOOSE x \in DOMAIN m : /\ x >= at /\ m[x] = NUL
                                       /\ \A y \in at .. x - 1 : m[y] # NUL
    IN  [k \in 1 .. end - at |-> m[at + k - 1]]

\* cpu_get_brand: the brand and a NUL behind it; leading blanks are cut off by
\* moving the string down, which leaves what was behind it.
cpu_get_brand(m, brand) ==
    IF brand = NULL THEN Store(m, CpuAt, <<NUL>>)
    ELSE LET raw   == Store(m, CpuAt, Append(brand, NUL))
             s     == String(raw, CpuAt)
             blank == {k \in 0 .. Len(s) : \A j \in 1 .. k : s[j] = " "}
             lead  == CHOOSE k \in blank : \A j \in blank : j <= k
         IN  IF lead = 0 THEN raw
             ELSE Store(raw, CpuAt, Append(SubSeq(s, lead + 1, Len(s)), NUL))

FillInfo(m) ==
    LET m1 == Store(m, HostAt, HostText(OrUnknown(machine.vendor), OrUnknown(machine.board)))
        m2 == cpu_get_brand(m1, machine.brand)
        m3 == IF m2[CpuAt] = NUL THEN Store(m2, CpuAt, Append(Unknown, NUL)) ELSE m2
        m4 == Store(m3, GpuAt, Append(Unknown, NUL))
    IN  Store(m4, KernelAt, Append(Prefix(Version, KERNEL_MAX - 1), NUL))

--------------------------------------------------------------------------------

EffectsInit ==
    /\ machine \in Machines
    /\ handlers = <<>> /\ call_pc = "boot"
    /\ asked = [op |-> "NOP", cmd |-> "", arg1 |-> NULL, len |-> 0]
    /\ e = [result |-> 0, error |-> 0] /\ h = 0 /\ rax = 0 /\ done = {}
    /\ info = [a \in 0 .. InfoSize - 1 |-> "junk"]

\* effect_init_default_handlers: one effect_register per step.
effect_register ==
    /\ call_pc = "boot" /\ Len(handlers) < Len(Registered)
    /\ handlers' = IF Len(handlers) >= MAX_HANDLERS THEN handlers
                   ELSE Append(handlers, Registered[Len(handlers) + 1])
    /\ call_pc' = IF Len(handlers') = Len(Registered) THEN "user" ELSE "boot"
    /\ UNCHANGED <<machine, asked, e, h, info, rax, done>>

\* int 0x80: exception_handler makes the effect, effect_perform clears it.
Syscall(r) ==
    /\ call_pc = "user"
    /\ asked' = r
    /\ e' = [result |-> 0, error |-> 0] /\ h' = 1 /\ done' = {}
    /\ call_pc' = "perform"
    /\ UNCHANGED <<machine, handlers, info, rax>>

\* exception_handler copies the result, and only that.
ToUser(eff) ==
    /\ e' = eff
    /\ rax' = eff.result
    /\ call_pc' = "user"

Did(what, result) ==
    /\ done' = done \cup {what}
    /\ ToUser([e EXCEPT !.result = result])
    /\ UNCHANGED info

Refuse(error) ==
    /\ ToUser([e EXCEPT !.error = error])
    /\ UNCHANGED <<info, done>>

\* acpi_shutdown, acpi_reboot and EFF_EXIT end in hlt, for ever.
Stop(what) ==
    /\ done' = done \cup {what}
    /\ call_pc' = "stopped"
    /\ UNCHANGED <<e, info, rax>>

GetInfo ==
    \/ asked.arg1 = NULL /\ Refuse(EFAULT)
    \/ /\ asked.arg1 # NULL
       /\ info' = FillInfo(info)
       /\ done' = done \cup {"info"}
       /\ ToUser([e EXCEPT !.result = 0])

ioctl ==
    \/ asked.cmd = "CLEAR" /\ Did("clear", 0)
    \/ asked.cmd \in {"SHUTDOWN", "REBOOT"} /\ Stop(asked.cmd)
    \/ /\ asked.cmd = "GET_TICKS"
       /\ \E ticks \in 0 .. 1 : Did("ticks", ticks)
    \/ /\ asked.cmd = "GET_INFO"
       /\ GetInfo
    \/ /\ asked.cmd \notin {"CLEAR", "SHUTDOWN", "REBOOT", "GET_TICKS", "GET_INFO"}
       /\ Refuse(EINVAL)

\* EFF_READ waits until there is a character, then takes up to len.
Readable(len) == {got \in 0 .. len : got > 0 \/ len = 0}

Mine == h <= Len(handlers) /\ handlers[h] = "core"

effect_core_handler ==
    /\ call_pc = "perform" /\ Mine
    /\ \/ asked.op = "WRITE" /\ Did("write", asked.len)
       \/ asked.op = "READ" /\ \E got \in Readable(asked.len) : Did("read", got)
       \/ asked.op = "IOCTL" /\ ioctl
       \/ asked.op = "EXIT" /\ Stop("exit")
    /\ UNCHANGED <<machine, handlers, asked, h>>

Known == {"WRITE", "READ", "IOCTL", "EXIT"}

PassSilent ==
    /\ call_pc = "perform"
    /\ ~Mine \/ asked.op \notin Known
    /\ IF h > Len(handlers) THEN ToUser(e) /\ UNCHANGED h
       ELSE h' = h + 1 /\ UNCHANGED <<call_pc, e, rax>>
    /\ UNCHANGED <<machine, handlers, asked, info, done>>

\* trace_handler and sandbox_handler pass, and the core handler does when the
\* operation is unknown; the end of the chain is an error.
Pass ==
    /\ call_pc = "perform"
    /\ ~Mine \/ asked.op \notin Known
    /\ IF h > Len(handlers)
       THEN ToUser([e EXCEPT !.error = ENOSYS]) /\ UNCHANGED h
       ELSE h' = h + 1 /\ UNCHANGED <<call_pc, e, rax>>
    /\ UNCHANGED <<machine, handlers, asked, info, done>>

EffectsNext == effect_register \/ (\E r \in Requests : Syscall(r)) \/ effect_core_handler \/ Pass

EffectsSpec == EffectsInit /\ [][EffectsNext]_effectVars

--------------------------------------------------------------------------------
(* Properties *)

\* The longest end of the brand without a leading blank, up to its NUL.
Brand(b) ==
    LET ends == {k \in 1 .. Len(b) + 1 : \A j \in 1 .. k - 1 : b[j] # NUL}
        s    == SubSeq(b, 1, (CHOOSE k \in ends : \A j \in ends : j <= k) - 1)
        cuts == {k \in 0 .. Len(s) : \A j \in 1 .. k : s[j] = " "}
    IN  SubSeq(s, 1 + (CHOOSE k \in cuts : \A j \in cuts : j <= k), Len(s))

(* After IOCTL_GET_INFO each field is the text it should be, cut where its *)
(* field ends: no field runs into the next, although host is built from    *)
(* two strings with two limits and cpu is moved in place.                  *)
InfoRight ==
    "info" \in done =>
        LET v == Prefix(OrUnknown(machine.vendor), VENDOR_MAX)
            b == IF machine.brand = NULL THEN <<>> ELSE Brand(machine.brand)
        IN  /\ DOMAIN info = 0 .. InfoSize - 1
            /\ String(info, HostAt) =
                    Prefix(v \o <<" ">> \o OrUnknown(machine.board), HOST_MAX - 1)
            /\ String(info, CpuAt) = IF b = <<>> THEN Unknown ELSE b
            /\ String(info, GpuAt) = Unknown
            /\ String(info, KernelAt) = Prefix(Version, KERNEL_MAX - 1)

(* Every call that comes back did one thing, or it did nothing and the     *)
(* effect carries an error: no handler of the chain swallows an operation, *)
(* and none does part of one that is then refused.                         *)
DoneOrRefused ==
    call_pc = "user" /\ asked.op # "NOP" =>
        /\ \A x, y \in done : x = y
        /\ done = {} <=> e.error # 0

CallsAnswered == DoneOrRefused /\ InfoRight

(* The program can tell a call that failed from one that worked: shell's   *)
(* print_info takes any result but 0 of get_sys_info for a failure.        *)
ErrorVisible ==
    call_pc = "user" /\ asked.cmd = "GET_INFO" /\ e.error # 0 => rax # 0
================================================================================
