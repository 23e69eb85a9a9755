---------------------------------- MODULE Acpi ---------------------------------
(***************************************************************************)
(* arch/x86_64/acpi.c: acpi_init finds the root pointer, walks the tables  *)
(* and takes the sleep types of the state S5 out of the byte code of an    *)
(* SSDT or the DSDT; acpi_shutdown and acpi_reboot end the machine's run.  *)
(***************************************************************************)
EXTENDS Integers, Sequences

CONSTANTS
    Platforms,  \* [ebda, bios : what the 16-byte slots of the two areas hold,
                \*  tables : table at an address, past : the byte behind a table,
                \*  cnt, typ : its control port and sleep type, kbc : "idle",
                \*  "late" or "stuck", pulses : its controller resets it]
    Wide,       \* addresses below it fit 32 bits
    KbcTries    \* reads of the controller's status (100000)

ASSUME WideAssumption == Wide \in Nat \ {0}

VARIABLES
    platform,   \* this machine
    acpi_pc,
    rsdp,       \* find_rsdp's p, as the number of a slot
    entry_size, sdt, \* the root table chosen
    entry,      \* acpi_init's i, from 1; acpi_reboot's i
    dsdt_phys,
    pm1a_cnt_blk, \* as pm1b_cnt_blk, never read
    slp_typa, slp_typb, have_s5, is_qemu,
    power       \* "on", "off" or "reset"

acpiVars == <<platform, acpi_pc, rsdp, entry_size, sdt, entry, dsdt_phys, pm1a_cnt_blk,
              slp_typa, slp_typb, have_s5, is_qemu, power>>
found == <<pm1a_cnt_blk, slp_typa, slp_typb, have_s5, is_qemu>>
walk  == <<rsdp, entry_size, sdt, entry, dsdt_phys>>

Blank == [sig |-> "none"]
Table(a) == IF a \in DOMAIN platform.tables THEN platform.tables[a] ELSE Blank

--------------------------------------------------------------------------------
(* find_s5 and parse_int_element: offsets count from 0; top is the highest *)
(* offset read.                                                            *)

S5Name == <<95, 83, 53, 95>>      \* "_S5_"

AmlByte(c, o) == IF o < Len(c) THEN c[o + 1] ELSE platform.past

Larger(a, b) == IF a > b THEN a ELSE b

Operand(n, c, o) ==
    IF o + n < Len(c)
    THEN [ok |-> TRUE, out |-> AmlByte(c, o + 1), off |-> o + n + 1, top |-> o + 1]
    ELSE [ok |-> FALSE, out |-> 0, off |-> o, top |-> o]

parse_int_element(c, o) ==
    IF o >= Len(c) THEN [ok |-> FALSE, out |-> 0, off |-> o, top |-> 0]
    ELSE CASE AmlByte(c, o) = 10 -> Operand(1, c, o)
           [] AmlByte(c, o) = 11 -> Operand(2, c, o)
           [] AmlByte(c, o) = 12 -> Operand(4, c, o)
           [] AmlByte(c, o) = 14 -> Operand(8, c, o)
           [] OTHER -> [ok |-> TRUE, out |-> AmlByte(c, o), off |-> o + 1, top |-> o]

PkglenOne(b)   == 1
pkglen_size(b) == 1 + b \div 64

IsName(c, o) == \A k \in 0 .. 3 : AmlByte(c, o + k) = S5Name[k + 1]

\* From behind the name to where a package may be: past a name opcode, or past
\* the head of a method and at most 15 bytes more.
Behind(c, o) == IF o < Len(c) /\ AmlByte(c, o) = 8 THEN o + 1 ELSE o

IsMethod(c, o) == o < Len(c) /\ AmlByte(c, o) = 20

PackageAt(c, o) ==
    LET b   == Behind(c, o)
        h   == b + 2 + pkglen_size(AmlByte(c, b + 1))
        pks == {k \in 0 .. 15 : h + k < Len(c) /\ AmlByte(c, h + k) = 18}
    IN  IF ~IsMethod(c, b) THEN b
        ELSE IF pks = {} THEN h
        ELSE h + CHOOSE k \in pks : \A j \in pks : k <= j

AnyCount(c, n)   == TRUE
CountFits(c, n) == n < Len(c)

\* What the occurrence of the name at o yields; "no" stands for continue.
Occurrence(c, o) ==
    LET p  == PackageAt(c, o + 4)
        rd == IF IsMethod(c, Behind(c, o + 4)) THEN Behind(c, o + 4) + 1 ELSE o + 4
        no(t) == [ok |-> FALSE, a |-> 0, b |-> 0, top |-> t]
    IN  IF p >= Len(c) THEN no(rd)
        ELSE IF AmlByte(c, p) # 18 THEN no(Larger(p, rd))
        ELSE LET n == p + 1 + pkglen_size(AmlByte(c, p + 1))
             IN  IF ~CountFits(c, n) THEN no(Larger(p + 1, rd))
                 ELSE IF AmlByte(c, n) < 2 THEN no(n)
                 ELSE LET x == parse_int_element(c, n + 1)
                          y == IF x.ok THEN parse_int_element(c, x.off) ELSE x
                      IN  [ok |-> TRUE, a |-> x.out, b |-> y.out,
                           top |-> Larger(n, Larger(x.top, y.top))]

Occurrences(c) == {o \in 0 .. Len(c) - 5 : IsName(c, o)}

find_s5(c) ==
    LET good == {o \in Occurrences(c) : Occurrence(c, o).ok}
    IN  IF good = {} THEN [ok |-> FALSE, a |-> 0, b |-> 0]
        ELSE Occurrence(c, CHOOSE o \in good : \A x \in good : o <= x)

TrySecond(t) ==
    LET r == find_s5(t.code)
    IN  IF ~r.ok
        THEN UNCHANGED <<slp_typa, slp_typb, have_s5>>
        ELSE slp_typa' = r.a /\ slp_typb' = r.b /\ have_s5' = TRUE

try_table_s5(t) ==
    LET r == find_s5(t.code)
    IN  IF have_s5 \/ ~r.ok
        THEN UNCHANGED <<slp_typa, slp_typb, have_s5>>
        ELSE /\ slp_typa' = IF r.a = 0 /\ r.b = 0 THEN 5 ELSE r.a
             /\ slp_typb' = IF r.a = 0 /\ r.b = 0 THEN 5 ELSE r.b
             /\ have_s5' = TRUE

--------------------------------------------------------------------------------
(* acpi_init *)

Area == platform.ebda \o platform.bios    \* platform.ebda is empty if the BIOS names none

find_rsdp ==
    /\ acpi_pc = "rsdp"
    /\ IF rsdp > Len(Area)
       THEN acpi_pc' = "up" /\ UNCHANGED rsdp
       ELSE IF Area[rsdp].sig /\ Area[rsdp].sum = 0
       THEN acpi_pc' = "root" /\ UNCHANGED rsdp
       ELSE rsdp' = rsdp + 1 /\ UNCHANGED acpi_pc
    /\ UNCHANGED <<platform, entry_size, sdt, entry, dsdt_phys, found, power>>

detect_qemu(t) == is_qemu' = (is_qemu \/ t.oem \in {"BOCHS", "QEMU"})

ReadRoot ==
    LET r   == Area[rsdp]
        ext == r.revision >= 2 /\ r.xsdt # 0
        at  == IF ext THEN r.xsdt % Wide ELSE r.rsdt
    IN  /\ acpi_pc = "root"
        /\ IF Table(at).sig \notin {"RSDT", "XSDT"}
           THEN acpi_pc' = "up" /\ UNCHANGED <<entry_size, sdt, is_qemu>>
           ELSE /\ acpi_pc' = "tables"
                /\ sdt' = at
                /\ entry_size' = IF ext THEN 8 ELSE 4
                /\ detect_qemu(Table(at))
        /\ UNCHANGED <<platform, rsdp, entry, dsdt_phys, pm1a_cnt_blk, slp_typa, slp_typb, have_s5, power>>

\* length counts the bytes behind the header.
Entries == Table(sdt).length \div entry_size

Dsdt(t) == (IF t.long /\ t.x_dsdt # 0 THEN t.x_dsdt ELSE t.dsdt) % Wide

NextTable ==
    LET t == Table(Table(sdt).entries[entry])
    IN  /\ acpi_pc = "tables"
        /\ IF entry > Entries
           THEN acpi_pc' = "dsdt" /\ UNCHANGED <<entry, dsdt_phys, found>>
           ELSE /\ entry' = entry + 1
                /\ IF t.sig = "FACP"
                   THEN pm1a_cnt_blk' = t.pm1a /\ dsdt_phys' = Dsdt(t)
                   ELSE UNCHANGED <<pm1a_cnt_blk, dsdt_phys>>
                /\ IF t.sig = "SSDT"
                   THEN try_table_s5(t)
                   ELSE UNCHANGED <<slp_typa, slp_typb, have_s5>>
                /\ UNCHANGED <<acpi_pc, is_qemu>>
        /\ UNCHANGED <<platform, rsdp, entry_size, sdt, power>>

ReadDsdt ==
    /\ acpi_pc = "dsdt"
    /\ IF dsdt_phys # 0 /\ Table(dsdt_phys).sig = "DSDT"
       THEN try_table_s5(Table(dsdt_phys))
       ELSE UNCHANGED <<slp_typa, slp_typb, have_s5>>
    /\ acpi_pc' = "up"
    /\ UNCHANGED <<platform, walk, pm1a_cnt_blk, is_qemu, power>>

--------------------------------------------------------------------------------
(* acpi_shutdown: writes to the ports of the emulators, then hlt for ever. *)
(* A write to the machine's control port with its sleep type powers it off.*)

Outw(port, typ) ==
    power' = IF power = "on" /\ platform.cnt = port /\ platform.typ = typ THEN "off" ELSE power

acpi_shutdown ==
    /\ acpi_pc = "up"
    /\ Outw("0x501", 0)
    /\ acpi_pc' = "0x604"
    /\ UNCHANGED <<platform, walk, found>>

WritePort604 ==
    /\ acpi_pc = "0x604"
    /\ Outw("0x604", 0)
    /\ acpi_pc' = "0xB004"
    /\ UNCHANGED <<platform, walk, found>>

SkipPortB004 ==
    /\ acpi_pc = "0xB004"
    /\ acpi_pc' = "halted"
    /\ UNCHANGED <<platform, walk, found, power>>

WritePortB004 ==
    /\ acpi_pc = "0xB004"
    /\ Outw("0xB004", 0)
    /\ acpi_pc' = "halted"
    /\ UNCHANGED <<platform, walk, found>>

--------------------------------------------------------------------------------
(* acpi_reboot: the controller's reset line, then an interrupt without a   *)
(* descriptor table, which the processor answers with a reset.  entry      *)
(* counts the reads of the status.                                         *)

acpi_reboot ==
    /\ acpi_pc = "up"
    /\ acpi_pc' = "wait" /\ entry' = 0
    /\ UNCHANGED <<platform, rsdp, entry_size, sdt, dsdt_phys, found, power>>

Busy == platform.kbc = "stuck" \/ (platform.kbc = "late" /\ entry = 0)

WaitForEver ==
    /\ acpi_pc = "wait"
    /\ IF Busy
       THEN entry' = 1 /\ UNCHANGED acpi_pc
       ELSE acpi_pc' = "pulse" /\ UNCHANGED entry
    /\ UNCHANGED <<platform, rsdp, entry_size, sdt, dsdt_phys, found, power>>

WaitController ==
    /\ acpi_pc = "wait"
    /\ IF entry < KbcTries /\ Busy
       THEN entry' = entry + 1 /\ UNCHANGED acpi_pc
       ELSE acpi_pc' = "pulse" /\ UNCHANGED entry
    /\ UNCHANGED <<platform, rsdp, entry_size, sdt, dsdt_phys, found, power>>

PulseReset ==
    /\ acpi_pc = "pulse"
    /\ acpi_pc' = "fault"
    /\ power' = IF platform.pulses THEN "reset" ELSE power
    /\ UNCHANGED <<platform, walk, found>>

TripleFault ==
    /\ acpi_pc = "fault"
    /\ acpi_pc' = "halted"
    /\ power' = "reset"
    /\ UNCHANGED <<platform, walk, found>>

AcpiInit ==
    /\ platform \in Platforms
    /\ acpi_pc = "rsdp" /\ rsdp = 1 /\ entry_size = 0 /\ sdt = 0 /\ entry = 1 /\ dsdt_phys = 0
    /\ pm1a_cnt_blk = "0" /\ slp_typa = 5 /\ slp_typb = 5
    /\ have_s5 = FALSE /\ is_qemu = FALSE
    /\ power = "on"

Ending == WritePort604 \/ WritePortB004 \/ WaitController \/ PulseReset \/ TripleFault

AcpiNext == find_rsdp \/ ReadRoot \/ NextTable \/ ReadDsdt \/ acpi_shutdown \/ acpi_reboot \/ Ending

\* A call that is begun goes on; whether one is made is the user's choice.
AcpiSpec == AcpiInit /\ [][AcpiNext]_acpiVars /\ WF_acpiVars(Ending)

--------------------------------------------------------------------------------
(* What the tables mean (external).  A table of byte code is the terms in  *)
(* it, where each starts, and code, their bytes, of which the length in    *)
(* its header may leave out the last ones: cut is how many.                *)

Numbers == [form : {"const", "byte", "word", "dword", "qword"}, low : 0 .. 255]
Terms == [kind : {"ref", "other"}] \cup [kind : {"name"}, size : 1 .. 4, ints : Seq(Numbers)]

Holds(c, o, b) == o < Len(c) /\ c[o + 1] = b

NameAt(c, o) == \A k \in 0 .. 3 : Holds(c, o + k, S5Name[k + 1])

Width(f) ==
    CASE f = "const" -> 1 [] f = "byte" -> 2 [] f = "word" -> 3 [] f = "dword" -> 5 [] f = "qword" -> 9

\* The integer v at o; a constant has no byte in front.
NumberAt(c, o, v) ==
    /\ o + Width(v.form) <= Len(c)
    /\ \/ v.form = "const" /\ Holds(c, o, v.low) /\ v.low \notin {10, 11, 12, 14}
       \/ v.form = "byte"  /\ Holds(c, o, 10) /\ Holds(c, o + 1, v.low)
       \/ v.form = "word"  /\ Holds(c, o, 11) /\ Holds(c, o + 1, v.low)
       \/ v.form = "dword" /\ Holds(c, o, 12) /\ Holds(c, o + 1, v.low)
       \/ v.form = "qword" /\ Holds(c, o, 14) /\ Holds(c, o + 1, v.low)

\* Name(_S5_, Package() {...}), of whose integers only the first two count.
ObjectAt(c, o, t) ==
    /\ Holds(c, o + 5, 18)
    /\ \E lead \in 0 .. 63 : Holds(c, o + 6, 64 * (t.size - 1) + lead)
    /\ Holds(c, o + 6 + t.size, Len(t.ints))
    /\ Len(t.ints) >= 2 =>
          /\ NumberAt(c, o + 7 + t.size, t.ints[1])
          /\ NumberAt(c, o + 7 + t.size + Width(t.ints[1].form), t.ints[2])

\* The name alone, with neither package nor method behind it.
ReferenceAt(c, o) ==
    \A b \in {18, 20} : ~Holds(c, o + 4, b) /\ (Holds(c, o + 4, 8) => ~Holds(c, o + 5, b))

\* The name is nowhere but in terms that are about it.
MeansTerms(t) ==
    /\ t.terms \in Seq(Terms)
    /\ t.starts \in [DOMAIN t.terms -> Nat]
    /\ \A k, x \in DOMAIN t.terms : k < x => t.starts[k] < t.starts[x]
    /\ \A k \in DOMAIN t.terms :
          /\ t.terms[k].kind = "name" =>
                NameAt(t.code, t.starts[k] + 1) /\ ObjectAt(t.code, t.starts[k], t.terms[k])
          /\ t.terms[k].kind = "ref" => ReferenceAt(t.code, t.starts[k])
    /\ \A o \in 0 .. Len(t.code) - 5 : NameAt(t.code, o) => \E k \in DOMAIN t.terms :
          \/ t.terms[k].kind = "name" /\ o = t.starts[k] + 1
          \/ t.terms[k].kind = "ref" /\ o = t.starts[k]

Pointers == [sig : BOOLEAN, sum : Nat, revision : Nat, rsdt : Nat, xsdt : Nat]

Valid(r) == r.sig /\ r.sum = 0
Extended(r) == r.revision >= 2 /\ r.xsdt # 0
RootOf(r) == IF Extended(r) THEN r.xsdt ELSE r.rsdt

\* A root table has the entries that its length says, of the size that the
\* pointer to it goes with.
PlatformsAssumption ==
    \A p \in Platforms :
        /\ p.ebda \in Seq(Pointers) /\ p.bios \in Seq(Pointers) /\ p.past \in 0 .. 255
        /\ 0 \notin DOMAIN p.tables
        /\ \A a \in DOMAIN p.tables :
              LET t == p.tables[a]
              IN  /\ t.sig \in {"SSDT", "DSDT"} => t.code \in Seq(0 .. 255) /\ (t.cut = 0 => MeansTerms(t))
                  /\ t.sig = "FACP" => t.long \in BOOLEAN /\ t.dsdt \in Nat /\ t.x_dsdt \in Nat
                  /\ t.sig \in {"RSDT", "XSDT"} => t.entries \in Seq(Nat)
        /\ \A k \in DOMAIN (p.ebda \o p.bios) :
              LET r == (p.ebda \o p.bios)[k]  a == RootOf(r)
              IN  Valid(r) /\ a \in DOMAIN p.tables /\ p.tables[a].sig \in {"RSDT", "XSDT"} =>
                      p.tables[a].length = (IF Extended(r) THEN 8 ELSE 4) * Len(p.tables[a].entries)

--------------------------------------------------------------------------------
(* Properties *)

\* The first package of the name with two integers, by what the code means.
Packages(t) == {k \in DOMAIN t.terms : t.terms[k].kind = "name" /\ Len(t.terms[k].ints) >= 2}
S5Of(t) ==
    LET k == CHOOSE k \in Packages(t) : \A x \in Packages(t) : k <= x
    IN  <<t.terms[k].ints[1].low, t.terms[k].ints[2].low>>
TypesOf(t) == IF S5Of(t) = <<0, 0>> THEN <<5, 5>> ELSE S5Of(t)

\* The tables that count: those of the root table that the first valid pointer
\* names, then the DSDT of the last FACP among them.
Good == {k \in DOMAIN Area : Valid(Area[k])}
Pointer == Area[CHOOSE k \in Good : \A x \in Good : k <= x]
Root == Table(RootOf(Pointer))
Listed == IF Good = {} \/ Root.sig \notin {"RSDT", "XSDT"} THEN <<>> ELSE [k \in DOMAIN Root.entries |-> Table(Root.entries[k])]
Stating == {k \in DOMAIN Listed : Listed[k].sig = "SSDT" /\ Packages(Listed[k]) # {}}
Facps == {k \in DOMAIN Listed : Listed[k].sig = "FACP"}
LastFacp == Listed[CHOOSE k \in Facps : \A x \in Facps : x <= k]
DsdtOf == Table(IF LastFacp.long /\ LastFacp.x_dsdt # 0 THEN LastFacp.x_dsdt ELSE LastFacp.dsdt)
Sleep ==
    IF Stating # {} THEN TypesOf(Listed[CHOOSE k \in Stating : \A x \in Stating : k <= x])
    ELSE IF Facps # {} /\ DsdtOf.sig = "DSDT" /\ Packages(DsdtOf) # {} THEN TypesOf(DsdtOf)
    ELSE <<5, 5>>

\* No table is cut, and those that are named by 64 bits lie below 4 GB.
Sound ==
    /\ \A a \in DOMAIN platform.tables :
          LET t == platform.tables[a]
          IN  /\ t.sig \in {"SSDT", "DSDT"} => t.cut = 0
              /\ t.sig = "FACP" => t.dsdt < Wide /\ t.x_dsdt < Wide
    /\ \A k \in Good : RootOf(Area[k]) < Wide

(* acpi_init comes to the sleep types of the first table that states them, *)
(* through any of the encodings of an integer and of a package's length,   *)
(* past references to the name and packages that are too short, and to 5   *)
(* where none does.                                                        *)
S5Right == acpi_pc = "up" /\ Sound => <<slp_typa, slp_typb>> = Sleep

(* Also when the length of a table cuts its byte code anywhere, find_s5    *)
(* reads at most the one byte behind it.                                   *)
ReadsOneBehind ==
    \A a \in DOMAIN platform.tables : platform.tables[a].sig \in {"SSDT", "DSDT"} =>
        LET c == platform.tables[a].code IN \A o \in Occurrences(c) : Occurrence(c, o).top <= Len(c)

(* The sleep types are those that the tables state, in every encoding, and *)
(* the walk over byte code stays in it but for one byte.                   *)
SleepTypesRead == S5Right /\ ReadsOneBehind

(* A controller that stays busy, or whose reset line does nothing, does    *)
(* not keep acpi_reboot from resetting the machine.                        *)
RebootResets == acpi_pc = "wait" ~> power = "reset"

(* The machines whose ports acpi_shutdown knows power off.                 *)
EmulatorsPowerOff ==
    acpi_pc = "0x604" /\ platform.cnt \in {"0x501", "0x604", "0xB004"} /\ platform.typ = 0 ~> power = "off"
================================================================================
