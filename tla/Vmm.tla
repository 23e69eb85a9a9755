---------------------------------- MODULE Vmm ---------------------------------
(***************************************************************************)
(* The page tables: the identity map that boot/bootmain.s builds, the      *)
(* functions of kernel/memory/vmm.c that change it, and usb_init, which    *)
(* maps the registers of the USB controller before it uses them.           *)
(*                                                                         *)
(* Addresses are counted in pages.  A table has Fan entries, so that a     *)
(* "2 MB" page spans Fan pages and a "1 GB" page Fan^2.  The processor     *)
(* walks the tables and fills its TLB at any time, also between two writes *)
(* of the same call.                                                       *)
(***************************************************************************)
EXTENDS Integers, Sequences, FiniteSets

CONSTANTS
    Fan,            \* entries of a table (512)
    IdentGb,        \* gigabytes that bootmain.s maps (4)
    UserGb,         \* of those, open to ring 3 (1)
    MmioGb,         \* the gigabyte at which the uncached zone begins (3)
    FreeSets,       \* the sets of frames that the page allocator may have
    Bars, WinPages, \* usb_init: where the registers may be; pages mapped (256)
    Calls,          \* calls that are made after usb_init
    Pages,          \* virtual pages that the properties look at
    Watched         \* of those, the ones that the program touches

ASSUME FanAssumption == Fan \in Nat /\ Fan >= 2 /\ IdentGb \in 1 .. Fan
ASSUME ZoneAssumption == UserGb \in 1 .. MmioGb /\ MmioGb \in 1 .. IdentGb

\* The pages that an entry at level l spans; the four levels together span
\* Fan * Span(4).
Span(l) == <<1, Fan, Fan * Fan, Fan * Fan * Fan>>[l]

\* bootmain.s takes the addresses above MmioGb for device registers.
ASSUME BarAssumption ==
    /\ WinPages \in Nat \ {0}
    /\ \A b \in Bars : b \in Nat /\ b >= MmioGb * Fan * Fan /\ b + WinPages <= Fan * Span(4)

\* No caller asks for a page that ring 3 may use.
ASSUME CallsAssumption ==
    \A c \in Calls :
        /\ c.leaf \in 1 .. 3 /\ c.phys \in Nat /\ c.virt \in Nat
        /\ c.virt + Span(c.leaf) <= Fan * Span(4)
        /\ c.flags \subseteq {"P", "W", "PS", "PCD"}

\* The page allocator hands out memory that the identity map reaches.
ASSUME FreeAssumption ==
    \A f \in UNION FreeSets : f \in 2 + IdentGb .. MmioGb * Fan * Fan - 1

ASSUME PagesAssumption == Pages \subseteq 0 .. Fan * Span(4) - 1 /\ Watched \subseteq Pages

VARIABLES
    mem,          \* frame -> the table in it
    free,         \* frames that pmm_alloc_page may return
    tlb,          \* page -> the translation the processor holds for it
    pc, call,     \* the call under way
    level, table, new,
    bar, i,       \* usb_init
    refused       \* ghost: a call found no memory

tree  == <<mem, free, tlb>>
walk  == <<pc, call, level, table, new>>
vars  == <<tree, walk, bar, i, refused>>

Slots == 0 .. Fan - 1

\* The tables of bootmain.s, then those that can be allocated.
pml4       == 0
pdpt       == 1
pd(g)      == 2 + g
BootFrames == 0 .. 1 + IdentGb
Frames     == BootFrames \cup UNION FreeSets

Entry(addr, flags) == [addr |-> addr, flags |-> flags]
Empty   == Entry(0, {})
Junk    == Entry(0, {"P"})      \* what a frame may hold before it is cleared

Has(e, flag) == flag \in e.flags

\* PML4_INDEX, PDPT_INDEX, PD_INDEX, PT_INDEX: levels 4 to 1.
Index(v, l) == (v \div Span(l)) % Fan

-------------------------------------------------------------------------------
(* bootmain.s *)

ZoneCached(g) == {"P", "W", "PS"} \cup (IF g < UserGb THEN {"U"} ELSE {})

\* Flags of the 2 MB pages in gigabyte g: 0x87, 0x83, 0x93.
ZoneFlags(g) ==
    {"P", "W", "PS"} \cup (IF g >= MmioGb THEN {"PCD"} ELSE {})
                     \cup (IF g < UserGb THEN {"U"} ELSE {})

PdptFlags(g) == IF g = 0 THEN {"P", "W", "U"} ELSE {"P", "W"}

boot_main(f, k) ==
    IF f = pml4 /\ k = 0 THEN Entry(pdpt, {"P", "W", "U"})
    ELSE IF f = pdpt /\ k < IdentGb THEN Entry(pd(k), PdptFlags(k))
    ELSE IF f \in BootFrames \ {pml4, pdpt}
         THEN Entry(((f - pd(0)) * Fan + k) * Fan, ZoneFlags(f - pd(0)))
    ELSE IF f \in BootFrames THEN Empty ELSE Junk

-------------------------------------------------------------------------------
(* The processor (external) *)

Fault == [frame |-> -1, uncached |-> FALSE, size |-> 0, user |-> FALSE]

Leaf(v, path) ==
    LET e    == path[Len(path)]
        size == Span(5 - Len(path))
    IN  IF \E k \in DOMAIN path : ~Has(path[k], "P") THEN Fault
        ELSE [frame |-> e.addr + (v % size), uncached |-> Has(e, "PCD"), size |-> size,
              user |-> \A k \in DOMAIN path : Has(path[k], "U")]

Translate(v) ==
    LET e4 == mem[pml4][Index(v, 4)]
        e3 == mem[e4.addr][Index(v, 3)]
        e2 == mem[e3.addr][Index(v, 2)]
        e1 == mem[e2.addr][Index(v, 1)]
    IN  IF ~Has(e4, "P") THEN Fault
        ELSE IF ~Has(e3, "P") \/ Has(e3, "PS") THEN Leaf(v, <<e4, e3>>)
        ELSE IF ~Has(e2, "P") \/ Has(e2, "PS") THEN Leaf(v, <<e4, e3, e2>>)
        ELSE Leaf(v, <<e4, e3, e2, e1>>)

NotCached == [frame |-> -2]

\* The processor uses v: it takes the translation that it holds, or walks.
Access(v) ==
    /\ tlb[v] = NotCached
    /\ Translate(v) # Fault
    /\ tlb' = [tlb EXCEPT ![v] = Translate(v)]
    /\ UNCHANGED <<mem, free, walk, bar, i, refused>>

\* invlpg drops what is held for the page, of whatever size, that holds virt.
Dropped(virt) ==
    {v \in Watched : tlb[v] # NotCached /\ v \div tlb[v].size = virt \div tlb[v].size}

-------------------------------------------------------------------------------
(* vmm.c *)

Start(c) ==
    /\ call' = c
    /\ level' = 4
    /\ table' = pml4
    /\ UNCHANGED <<tree, new>>

Return == pc' = "idle"

\* vmm_map_page (leaf 1), vmm_map_huge_2mb (leaf 2), vmm_map_huge_1gb (leaf 3):
\* a huge page whose addresses are not aligned is refused without a word.
Begin(c) ==
    LET size == Span(c.leaf) IN
    /\ pc = "idle" /\ i = WinPages
    /\ Start(c)
    /\ pc' = IF c.virt % size = 0 /\ c.phys % size = 0 THEN "walk" ELSE "idle"
    /\ UNCHANGED <<bar, i, refused>>

Here == mem[table][Index(call.virt, level)]

\* vmm_next_table: the entry is there, and leads down or is a huge page.
Descend ==
    /\ pc = "walk" /\ level > call.leaf /\ Has(Here, "P")
    /\ IF Has(Here, "PS")
       THEN Return /\ UNCHANGED <<level, table>>
       ELSE /\ level' = level - 1
            /\ table' = Here.addr
            /\ UNCHANGED pc
    /\ UNCHANGED <<tree, call, new, bar, i, refused>>

AllocateKept ==
    /\ pc = "walk" /\ level > call.leaf /\ ~Has(Here, "P")
    /\ IF free = {}
       THEN Return /\ refused' = TRUE /\ UNCHANGED new
       ELSE pc' = "clear" /\ UNCHANGED refused /\ \E f \in free : new' = f
    /\ UNCHANGED <<tree, call, level, table, bar, i>>

\* vmm_next_table: the entry is absent; pmm_alloc_page gives a frame or NULL.
Allocate ==
    /\ pc = "walk" /\ level > call.leaf /\ ~Has(Here, "P")
    /\ \/ /\ \E f \in free : new' = f /\ free' = free \ {f}
          /\ pc' = "clear"
          /\ UNCHANGED refused
       \/ /\ free = {}
          /\ Return
          /\ refused' = TRUE
          /\ UNCHANGED <<free, new>>
    /\ UNCHANGED <<mem, tlb, call, level, table, bar, i>>

NoClear ==
    /\ pc = "clear"
    /\ pc' = "link"
    /\ UNCHANGED <<tree, call, level, table, new, bar, i, refused>>

ClearTable ==
    /\ pc = "clear"
    /\ mem' = [mem EXCEPT ![new] = [k \in Slots |-> Empty]]
    /\ pc' = "link"
    /\ UNCHANGED <<free, tlb, call, level, table, new, bar, i, refused>>

TableFlags == {"P", "W", "U"}

LinkTable ==
    /\ pc = "link"
    /\ mem' = [mem EXCEPT ![table][Index(call.virt, level)] = Entry(new, TableFlags)]
    /\ level' = level - 1
    /\ table' = new
    /\ pc' = "walk"
    /\ UNCHANGED <<free, tlb, call, new, bar, i, refused>>

LeafUser(c) ==
    Entry(c.phys, c.flags \cup {"P", "U"} \cup (IF c.leaf = 1 THEN {} ELSE {"PS"}))

new_entry(c) ==
    Entry(c.phys, (c.flags \ {"PS"}) \cup {"P"} \cup (IF c.leaf = 1 THEN {} ELSE {"PS"}))

NeverFlush(old, e) == "idle"

\* vmm_flush flushes only when the entry has changed.
AfterWrite(old, e) == IF old # e THEN "flush" ELSE "idle"

WriteLeaf ==
    /\ pc = "walk" /\ level = call.leaf
    /\ mem' = [mem EXCEPT ![table][Index(call.virt, level)] = new_entry(call)]
    /\ pc' = AfterWrite(Here, new_entry(call))
    /\ UNCHANGED <<free, tlb, call, level, table, new, bar, i, refused>>

vmm_flush ==
    /\ pc = "flush"
    /\ tlb' = [v \in Watched |-> IF v \in Dropped(call.virt) THEN NotCached ELSE tlb[v]]
    /\ Return
    /\ UNCHANGED <<mem, free, call, level, table, new, bar, i, refused>>

-------------------------------------------------------------------------------
(* usb_init, the loop that maps the registers *)

PageCall(p) == [virt |-> p, phys |-> p, flags |-> {"P", "W", "PCD"}, leaf |-> 1]

UsbMapOneMore ==
    /\ pc = "idle" /\ i <= WinPages
    /\ Start(PageCall(bar + i))
    /\ pc' = "walk"
    /\ i' = i + 1
    /\ UNCHANGED <<bar, refused>>

UsbMap ==
    /\ pc = "idle" /\ i < WinPages
    /\ Start(PageCall(bar + i))
    /\ pc' = "walk"
    /\ i' = i + 1
    /\ UNCHANGED <<bar, refused>>

-------------------------------------------------------------------------------

Init ==
    /\ mem = [f \in Frames |-> [k \in Slots |-> boot_main(f, k)]]
    /\ free \in FreeSets
    /\ tlb = [v \in Watched |-> NotCached]
    /\ bar \in Bars
    /\ pc = "idle" /\ call = PageCall(bar)
    /\ level = 4 /\ table = pml4 /\ new = pml4
    /\ i = 0 /\ refused = FALSE

Step == UsbMap \/ Descend \/ Allocate \/ ClearTable \/ LinkTable \/ WriteLeaf \/ vmm_flush

Next == Step \/ (\E c \in Calls : Begin(c)) \/ (\E v \in Watched : Access(v))

Spec == Init /\ [][Next]_vars

-------------------------------------------------------------------------------
(* Properties *)

TypeOK ==
    /\ mem \in [Frames -> [Slots -> [addr : Nat, flags : SUBSET {"P", "W", "U", "PS", "PCD"}]]]
    /\ free \subseteq Frames \ BootFrames
    /\ pc \in {"idle", "walk", "clear", "link", "flush"}
    /\ level \in call.leaf .. 4 /\ table \in Frames /\ new \in Frames
    /\ i \in 0 .. WinPages /\ refused \in BOOLEAN

(* A table is filled in before it is linked: for the processor, which may  *)
(* walk between any two writes of vmm_map_page and of the huge variants, a *)
(* call maps all of its pages in one step and changes no other page.       *)
Requests ==
    {[virt |-> c.virt, phys |-> c.phys, span |-> Span(c.leaf),
      uncached |-> "PCD" \in c.flags] :
        c \in Calls \cup {PageCall(b + k) : b \in Bars, k \in 0 .. WinPages - 1}}

AS == INSTANCE AddressSpace
        WITH map <- [v \in Pages |-> [frame |-> Translate(v).frame,
                                      uncached |-> Translate(v).uncached]]

RefinesAddressSpace == AS!Spec

(* vmm_next_table builds a tree: no frame serves as two tables or at two   *)
(* levels, and no table lies in memory that pmm_alloc_page can hand out.   *)
Below(tables) == {x \in tables \X Slots :
                    Has(mem[x[1]][x[2]], "P") /\ ~Has(mem[x[1]][x[2]], "PS")}
Target(link)   == mem[link[1]][link[2]].addr

TablesTree ==
    LET l4 == Below({pml4})
        l3 == Below({Target(x) : x \in l4})
        l2 == Below({Target(x) : x \in l3})
        links == l4 \cup l3 \cup l2
    IN  /\ \A x \in links : Target(x) \in Frames \ (free \cup {pml4})
        /\ \A x, y \in links : Target(x) = Target(y) => x = y

(* Between calls, what the processor holds is what the tables say: the one *)
(* invlpg of vmm_flush, skipped when the entry stays the same, is enough.  *)
TlbCoherent ==
    pc = "idle" => \A v \in Watched : tlb[v] # NotCached => tlb[v] = Translate(v)

(* When usb_init starts the driver, each page of the controller's registers*)
(* is mapped one to one and uncached, by usb_init or, where vmm_map_page   *)
(* gives up on a 2 MB page, by the table of bootmain.s; unless a table     *)
(* could not be allocated, which nothing reports.                          *)
WindowMapped ==
    i = WinPages /\ pc = "idle" /\ call = PageCall(bar + WinPages - 1) /\ ~refused =>
        \A p \in bar .. bar + WinPages - 1 :
            Translate(p).frame = p /\ Translate(p).uncached

(* Ring 3 reaches the memory that bootmain.s opens to it and no more, even *)
(* though the tables that vmm_next_table links are open to ring 3.         *)
UserConfined == \A v \in Pages : Translate(v).user => v < UserGb * Fan * Fan

(* The tables are at all times a tree of frames of their own in which ring *)
(* 3 reaches no more than bootmain.s opened to it.                         *)
TablesSound == TypeOK /\ TablesTree /\ UserConfined

(* A mapping that has returned is in effect: for the processor, whatever   *)
(* it held, and for the driver that is started on the registers.           *)
MappingInEffect == TlbCoherent /\ WindowMapped
===============================================================================
