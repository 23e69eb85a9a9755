--------------------------------- MODULE Smbios --------------------------------
(***************************************************************************)
(* kernel/smbios/smbios.c: smbios_init looks for the entry point of the    *)
(* firmware's table in the BIOS area, and find_field walks the table byte  *)
(* by byte for a string of the first structure of a type that has it.      *)
(***************************************************************************)
EXTENDS Integers, Sequences

CONSTANTS
    EpLength,   \* least length of an entry point (0x1F)
    LowEnd,     \* least address of a table (0x1000)
    Firmwares   \* [slots : what the 16-byte slots of the BIOS area hold,
                \*  table : the structures at the address of the good slot,
                \*  bytes : theirs, starts : where each begins,
                \*  heads : where each of its strings begins]

\* The firmware (external).  Addresses count from 1 at the start of the table,
\* so that 0 is no address.  Behind the data of a structure are its strings,
\* each with a zero behind it, and a zero, or two if there are none.
Structs == [type : 0 .. 255, data : Seq(0 .. 255), strings : Seq(Seq(1 .. 255) \ {<<>>})]

LaidOut(f, k) ==
    LET s == f.table[k]  a == f.starts[k]  h == f.heads[k]  l == Len(s.strings)
    IN  /\ 4 + Len(s.data) <= 255
        /\ f.bytes[a] = s.type /\ f.bytes[a + 1] = 4 + Len(s.data)
        /\ \A x \in DOMAIN s.data : f.bytes[a + 3 + x] = s.data[x]
        /\ h \in [1 .. l + 1 -> Nat] /\ h[1] = a + 4 + Len(s.data)
        /\ \A t \in DOMAIN s.strings :
              /\ h[t + 1] = h[t] + Len(s.strings[t]) + 1 /\ f.bytes[h[t + 1] - 1] = 0
              /\ \A x \in DOMAIN s.strings[t] : f.bytes[h[t] + x - 1] = s.strings[t][x]
        /\ f.bytes[h[l + 1]] = 0
        /\ l = 0 => f.bytes[h[1] + 1] = 0
        /\ f.starts[k + 1] = h[l + 1] + (IF l = 0 THEN 2 ELSE 1)

Anchors == [sig : BOOLEAN, length : Nat, sum : Nat, address : Nat, count : Nat]

\* The last structure is the end marker.
FirmwaresAssumption ==
    \A f \in Firmwares :
        /\ f.slots \in Seq(Anchors)
        /\ f.table \in Seq(Structs) /\ f.table # <<>> /\ f.table[Len(f.table)].type = 127
        /\ f.bytes \in Seq(0 .. 255)
        /\ f.starts \in [1 .. Len(f.table) + 1 -> Nat]
        /\ f.starts[1] = 1 /\ f.starts[Len(f.table) + 1] = Len(f.bytes) + 1
        /\ \A k \in DOMAIN f.table : LaidOut(f, k)

VARIABLES
    fw,         \* this machine
    anchor,     \* smbios_init: the slot looked at
    smbios_table, \* 0, or the address in the entry point
    smbios_count,
    smbios_pc,  \* "init", "idle", "scan", "string", "skip" or "done"
    sm_type, sm_offset, \* find_field's parameters
    sm_i, hdr,  \* its locals, hdr the address of the structure
    str, nth,   \* smbios_string's p and n
    sm_ret,     \* the address of the string, or 0
    sm_top      \* ghost: the highest byte read

smbiosVars == <<fw, anchor, smbios_table, smbios_count, smbios_pc,
                sm_type, sm_offset, sm_i, hdr, str, nth, sm_ret, sm_top>>
search == <<sm_type, sm_offset, sm_i, hdr, str, nth, sm_ret, sm_top>>

Bytes == fw.bytes
Byte(a) == Bytes[a]

\* The first address from a on at which both bytes are zero.
DoubleZero(a) ==
    CHOOSE z \in a .. Len(Bytes) - 1 :
        /\ Byte(z) = 0 /\ Byte(z + 1) = 0
        /\ \A x \in a .. z - 1 : Byte(x) # 0 \/ Byte(x + 1) # 0

Zero(a) == CHOOSE z \in a .. Len(Bytes) : Byte(z) = 0 /\ \A x \in a .. z - 1 : Byte(x) # 0

Reads(a) == sm_top' = IF a > sm_top THEN a ELSE sm_top

--------------------------------------------------------------------------------
(* smbios_init *)

GoodAnchor(s) == s.sig /\ s.length >= EpLength /\ s.sum = 0 /\ s.address >= LowEnd

smbios_init ==
    /\ smbios_pc = "init"
    /\ IF anchor > Len(fw.slots)
       THEN smbios_pc' = "idle" /\ UNCHANGED <<anchor, smbios_table, smbios_count>>
       ELSE IF GoodAnchor(fw.slots[anchor])
       THEN /\ smbios_table' = fw.slots[anchor].address
            /\ smbios_count' = fw.slots[anchor].count
            /\ smbios_pc' = "idle"
            /\ UNCHANGED anchor
       ELSE anchor' = anchor + 1 /\ UNCHANGED <<smbios_pc, smbios_table, smbios_count>>
    /\ UNCHANGED <<fw, search>>

--------------------------------------------------------------------------------
(* find_field and smbios_string *)

find_field(t, o) ==
    /\ smbios_pc = "idle"
    /\ sm_type' = t /\ sm_offset' = o /\ sm_i' = 0 /\ hdr' = 1 /\ sm_ret' = 0 /\ sm_top' = 0
    /\ smbios_pc' = IF smbios_table = 0 THEN "done" ELSE "scan"
    /\ UNCHANGED <<fw, anchor, smbios_table, smbios_count, str, nth>>

EndsShort(a) == Byte(a + 1) < 4
EndsAt(a) == Byte(a) = 127 \/ Byte(a + 1) < 4

HasField(a) == Byte(a) = sm_type /\ Byte(a + 1) > sm_offset

\* The head of the loop: the end of the walk, the structure sought, or another.
Scan ==
    /\ smbios_pc = "scan"
    /\ IF sm_i >= smbios_count THEN smbios_pc' = "done" /\ UNCHANGED <<str, nth, sm_top>>
       ELSE IF EndsAt(hdr) THEN smbios_pc' = "done" /\ Reads(hdr + 1) /\ UNCHANGED <<str, nth>>
       ELSE IF HasField(hdr) /\ Byte(hdr + sm_offset) # 0
       THEN /\ smbios_pc' = "string"
            /\ str' = hdr + Byte(hdr + 1) /\ nth' = 1
            /\ Reads(hdr + sm_offset)
       ELSE smbios_pc' = "skip" /\ Reads(hdr + 1) /\ UNCHANGED <<str, nth>>
    /\ UNCHANGED <<fw, anchor, smbios_table, smbios_count, sm_type, sm_offset, sm_i, hdr, sm_ret>>

\* smbios_string: one string of the list per step.
smbios_string ==
    /\ smbios_pc = "string"
    /\ IF Byte(str) = 0 THEN smbios_pc' = "skip" /\ Reads(str) /\ UNCHANGED <<str, nth, sm_ret>>
       ELSE IF nth = Byte(hdr + sm_offset)
       THEN sm_ret' = str /\ smbios_pc' = "done" /\ Reads(str) /\ UNCHANGED <<str, nth>>
       ELSE /\ str' = Zero(str) + 1 /\ nth' = nth + 1
            /\ Reads(Zero(str))
            /\ UNCHANGED <<smbios_pc, sm_ret>>
    /\ UNCHANGED <<fw, anchor, smbios_table, smbios_count, sm_type, sm_offset, sm_i, hdr>>

AfterOne(a) == Zero(a) + 1

\* Past the strings, which end in two zero bytes.
After(a) == DoubleZero(a) + 2

Skip ==
    /\ smbios_pc = "skip"
    /\ hdr' = After(hdr + Byte(hdr + 1))
    /\ Reads(hdr' - 1)
    /\ sm_i' = sm_i + 1
    /\ smbios_pc' = "scan"
    /\ UNCHANGED <<fw, anchor, smbios_table, smbios_count, sm_type, sm_offset, str, nth, sm_ret>>

\* smbios_get_board_vendor and smbios_get_board_name.
BoardVendor == find_field(2, 4)
BoardName   == find_field(2, 5)

Again ==
    /\ smbios_pc = "done"
    /\ smbios_pc' = "idle"
    /\ UNCHANGED <<fw, anchor, smbios_table, smbios_count, search>>

SmbiosInit ==
    /\ fw \in Firmwares
    /\ anchor = 1 /\ smbios_table = 0 /\ smbios_count = 0
    /\ smbios_pc = "init"
    /\ sm_type = 0 /\ sm_offset = 0 /\ sm_i = 0 /\ hdr = 1 /\ str = 1 /\ nth = 0
    /\ sm_ret = 0 /\ sm_top = 0

SmbiosNext ==
    smbios_init \/ BoardVendor \/ BoardName \/ Scan \/ smbios_string \/ Skip \/ Again

SmbiosSpec == SmbiosInit /\ [][SmbiosNext]_smbiosVars

--------------------------------------------------------------------------------
(* Properties *)

\* The string that the field names, by what the table means: of the first
\* count structures before the end marker, the first of the type that is long
\* enough and whose field names a string it has.
FieldOf(s) == IF Len(s.data) > sm_offset - 4 THEN s.data[sm_offset - 3] ELSE 0

Holders ==
    {k \in DOMAIN fw.table :
        /\ k <= smbios_count
        /\ \A x \in 1 .. k : fw.table[x].type # 127
        /\ fw.table[k].type = sm_type
        /\ FieldOf(fw.table[k]) \in 1 .. Len(fw.table[k].strings)}

Named ==
    IF smbios_table = 0 \/ Holders = {} THEN <<>>
    ELSE LET k == CHOOSE k \in Holders : \A x \in Holders : k <= x
         IN  fw.table[k].strings[FieldOf(fw.table[k])]

(* find_field returns the string that the field names, or none, for any    *)
(* mix of structures: without strings, with an empty or dangling field,    *)
(* too short for the field, or behind the end marker.                      *)
FindsField ==
    smbios_pc = "done" =>
        (IF sm_ret = 0 THEN <<>> ELSE SubSeq(Bytes, sm_ret, Zero(sm_ret) - 1)) = Named

(* The walk reads no byte behind the table, also when the entry point      *)
(* counts more structures than there are before the end marker.            *)
ReadsInside ==
    /\ sm_top <= Len(Bytes)
    /\ smbios_pc \in {"scan", "string"} /\ sm_i < smbios_count => hdr + 1 <= Len(Bytes)

(* smbios_get_board_vendor and _name return what the table means, in bytes *)
(* that are the table's, for every table and every count of structures.    *)
BoardNamed == FindsField /\ ReadsInside
================================================================================
