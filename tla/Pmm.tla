---------------------------------- MODULE Pmm ---------------------------------
(***************************************************************************)
(* The physical memory manager, kernel/memory/pmm.c: a bitmap of pages in  *)
(* 64-bit words, filled from the boot loader's memory map, and a hint, the *)
(* word at which the next search starts.                                   *)
(***************************************************************************)
EXTENDS Integers, FiniteSets

CONSTANTS
    PAGE_SIZE,    \* bytes in a page (4096)
    WordBits,     \* bits in the words that pmm_alloc_page scans (64)
    ByteBits,     \* bits in a byte (8)
    AddrMod,      \* addresses are counted modulo this (2^64)
    LowMem,       \* memory below the kernel (1 MB)
    KernelEnd,    \* first address after the kernel image
    MbdRegions,   \* <<base, size>> of g_mb_info and of g_mmap_buffer
    MemoryMaps    \* the memory maps a boot loader may report: sets of entries
                  \* [addr, len, type], where type 1 is available memory

ASSUME PageAssumption ==
    PAGE_SIZE \in Nat \ {0} /\ WordBits \in Nat \ {0} /\ AddrMod \in Nat \ {0}
\* The fields of an entry have 64 bits and physical addresses have 52, so that
\* no region begins in the last page of the address space.
ASSUME MapsAssumption ==
    \A map \in MemoryMaps : \A e \in map :
        /\ e.addr \in Nat /\ e.len \in Nat
        /\ e.addr + PAGE_SIZE <= AddrMod /\ e.len < AddrMod
ASSUME LowMemAssumption ==
    LowMem \in Nat \ {0} /\ LowMem + PAGE_SIZE - 1 < AddrMod

NULL == 0

VARIABLES
    mbd,             \* the memory map of this machine
    phase,           \* "boot", "ready" or "panic"
    pmm_max_blocks,  \* pages the bitmap stands for
    pmm_bitmap,      \* word -> the bits set in it; a set bit is a page in use
    pmm_hint_word,   \* where the next search starts
    owned,           \* ghost: pages handed out and not freed
    ret              \* what pmm_alloc_page returned last

vars == <<mbd, phase, pmm_max_blocks, pmm_bitmap, pmm_hint_word, owned, ret>>

Bits == 0 .. WordBits - 1

Word(page) == page \div WordBits
Bit(page)  == page % WordBits

Words(blocks) == (blocks + WordBits - 1) \div WordBits

\* pmm_test_bit, negated: the page can be handed out.
FreePages ==
    {p \in 0 .. pmm_max_blocks - 1 : Bit(p) \notin pmm_bitmap[Word(p)]}

-------------------------------------------------------------------------------
(* pmm_init *)

align_down(x) == (x \div PAGE_SIZE) * PAGE_SIZE
align_up(x)   == align_down((x + PAGE_SIZE - 1) % AddrMod)

InitRegionOutward(p, base, size) ==
    /\ align_down(base) <= p * PAGE_SIZE
    /\ p * PAGE_SIZE < align_up((base + size) % AddrMod)

\* pmm_init_region makes a page free if the region contains all of it.
InitRegion(p, base, size) ==
    /\ align_up(base) <= p * PAGE_SIZE
    /\ p * PAGE_SIZE < align_down((base + size) % AddrMod)

\* pmm_deinit_region puts a page in use if the region touches it.
DeinitRegion(p, base, size) ==
    /\ align_down(base) <= p * PAGE_SIZE
    /\ p * PAGE_SIZE < align_up((base + size) % AddrMod)

Available(map) == {e \in map : e.type = 1}

End(e) == (e.addr + e.len) % AddrMod

\* The first scan of the map: x is the end of available memory.
Ends(map) == {End(e) : e \in Available(map)} \cup {0}

MaxMemoryAddr(x, map) == x \in Ends(map) /\ \A y \in Ends(map) : y <= x

Blocks(x) == align_down(x) \div PAGE_SIZE

\* pmm_bitmap_size: a bit for every page, rounded up to whole pages.
BitmapSize(blocks) == align_up((blocks + ByteBits - 1) \div ByteBits)

ReservedNoLow(blocks) ==
    {<<LowMem, KernelEnd + BitmapSize(blocks) - LowMem>>} \cup MbdRegions

\* The regions that pmm_init takes out again: low memory, the kernel with the
\* bitmap behind it, the boot information and the memory map.
Reserved(blocks) ==
    {<<0, LowMem>>, <<LowMem, KernelEnd + BitmapSize(blocks) - LowMem>>} \cup MbdRegions

\* The kernel lies above low memory; what pmm_init takes out is not empty and
\* ends below the last page of the address space.
ASSUME RegionsAssumption ==
    /\ KernelEnd \in Nat /\ LowMem < KernelEnd /\ ByteBits \in Nat \ {0}
    /\ \A r \in MbdRegions :
          r[1] \in Nat /\ r[2] \in Nat \ {0} /\ r[1] + r[2] + PAGE_SIZE <= AddrMod
    /\ \A blocks \in 0 .. AddrMod \div PAGE_SIZE :
          KernelEnd + BitmapSize(blocks) + PAGE_SIZE <= AddrMod

\* What the bitmap says of a page at the end of pmm_init: every bit was set
\* to begin with, and the bits past the last page stay set.
StartsFree(p, map, blocks) ==
    /\ p < blocks
    /\ \E e \in Available(map) : InitRegion(p, e.addr, e.len)
    /\ \A r \in Reserved(blocks) : ~DeinitRegion(p, r[1], r[2])

\* A region that runs over the end of the address space: the kernel halts.
PmmInitPanic ==
    /\ phase = "boot"
    /\ \E e \in Available(mbd) : e.addr > End(e)
    /\ phase' = "panic"
    /\ UNCHANGED <<mbd, pmm_max_blocks, pmm_bitmap, pmm_hint_word, owned, ret>>

PmmInit ==
    /\ phase = "boot"
    /\ \A e \in Available(mbd) : e.addr <= End(e)
    /\ phase' = "ready"
    /\ \E x \in Ends(mbd) :
           /\ MaxMemoryAddr(x, mbd)
           /\ pmm_max_blocks' = Blocks(x)
           /\ pmm_bitmap' = [w \in 0 .. Words(Blocks(x)) - 1 |->
                  {b \in Bits : ~StartsFree(w * WordBits + b, mbd, Blocks(x))}]
    /\ pmm_hint_word' = 0
    /\ UNCHANGED <<mbd, owned, ret>>

-------------------------------------------------------------------------------
(* pmm_alloc_page *)

\* The words the two passes look at, in increasing order.
Pass(n) == IF n = 0 THEN pmm_hint_word .. Words(pmm_max_blocks) - 1
                    ELSE 0 .. pmm_hint_word - 1

\* The pass finds its first word that is not all ones.
Finds(n, w) ==
    /\ w \in Pass(n) /\ pmm_bitmap[w] # Bits
    /\ \A v \in Pass(n) : v < w => pmm_bitmap[v] = Bits

FindsNothing(n) == \A v \in Pass(n) : pmm_bitmap[v] = Bits

\* __builtin_ctzll(~word).
LowestClear(w, b) ==
    /\ b \in Bits \ pmm_bitmap[w]
    /\ \A o \in Bits \ pmm_bitmap[w] : b <= o

TakeSkippingWord(w, b) ==
    /\ pmm_bitmap' = [pmm_bitmap EXCEPT ![w] = @ \cup {b}]
    /\ pmm_hint_word' = w + 1
    /\ owned' = owned \cup {w * WordBits + b}
    /\ ret' = (w * WordBits + b) * PAGE_SIZE

TakePage(w, b) ==
    /\ pmm_bitmap' = [pmm_bitmap EXCEPT ![w] = @ \cup {b}]
    /\ pmm_hint_word' = w
    /\ owned' = owned \cup {w * WordBits + b}
    /\ ret' = (w * WordBits + b) * PAGE_SIZE

PmmAlloc ==
    /\ phase = "ready"
    /\ \/ \E n \in {0, 1}, w \in 0 .. Words(pmm_max_blocks) - 1, b \in Bits :
            /\ Finds(n, w) /\ (n = 1 => FindsNothing(0))
            /\ LowestClear(w, b)
            /\ TakePage(w, b)
       \/ /\ FindsNothing(0) /\ FindsNothing(1)
          /\ ret' = NULL
          /\ UNCHANGED <<pmm_bitmap, pmm_hint_word, owned>>
    /\ UNCHANGED <<mbd, phase, pmm_max_blocks>>

-------------------------------------------------------------------------------
(* pmm_free_page *)

KeepHint(p) == pmm_hint_word' = pmm_hint_word

LowerHint(p) ==
    pmm_hint_word' = IF Word(p) < pmm_hint_word THEN Word(p) ELSE pmm_hint_word

\* Called with a page that was handed out, or with an address past the last
\* page, which is ignored.
PmmFree(p) ==
    /\ phase = "ready"
    /\ \/ /\ p < pmm_max_blocks
          /\ pmm_bitmap' = [pmm_bitmap EXCEPT ![Word(p)] = @ \ {Bit(p)}]
          /\ LowerHint(p)
          /\ owned' = owned \ {p}
       \/ /\ p >= pmm_max_blocks
          /\ UNCHANGED <<pmm_bitmap, pmm_hint_word, owned>>
    /\ UNCHANGED <<mbd, phase, pmm_max_blocks, ret>>

-------------------------------------------------------------------------------
Init ==
    /\ mbd \in MemoryMaps
    /\ phase = "boot"
    /\ pmm_max_blocks = 0 /\ pmm_bitmap = [w \in {} |-> {}] /\ pmm_hint_word = 0
    /\ owned = {} /\ ret = NULL

Next ==
    \/ PmmInitPanic \/ PmmInit
    \/ PmmAlloc
    \/ \E p \in owned \cup {pmm_max_blocks} : PmmFree(p)

Spec == Init /\ [][Next]_vars

-------------------------------------------------------------------------------
(* Properties *)

\* The bitmap has one word for every WordBits pages and the hint names one of
\* them: the search never reads past the bitmap.
TypeOK ==
    /\ mbd \in MemoryMaps
    /\ phase \in {"boot", "ready", "panic"}
    /\ pmm_max_blocks \in Nat
    /\ pmm_bitmap \in [0 .. Words(pmm_max_blocks) - 1 -> SUBSET Bits]
    /\ pmm_hint_word \in Nat
    /\ pmm_hint_word = 0 \/ pmm_hint_word < Words(pmm_max_blocks)
    /\ owned \subseteq 0 .. pmm_max_blocks - 1
    /\ ret \in Nat

\* No free page lies below the hint, after any sequence of allocations and
\* frees: the first pass of pmm_alloc_page finds the lowest free page.
HintSound == \A w \in 0 .. pmm_hint_word - 1 : pmm_bitmap[w] = Bits

\* Pages by the bytes of the memory map: all of its bytes are in one
\* available region, and none is in low memory, in the kernel, in the bitmap
\* or in the boot information.
Bytes(base, size) == base .. base + size - 1

UsablePages(map) ==
    LET reserved == UNION {Bytes(r[1], r[2]) : r \in Reserved(pmm_max_blocks)}
    IN  {p \in 0 .. pmm_max_blocks - 1 :
            /\ \E e \in Available(map) :
                   Bytes(p * PAGE_SIZE, PAGE_SIZE) \subseteq Bytes(e.addr, e.len)
            /\ Bytes(p * PAGE_SIZE, PAGE_SIZE) \cap reserved = {}}

\* No page is lost and none is handed out twice: at any time the free pages
\* and the pages handed out make up the usable memory of the machine.
PagesConserved ==
    phase = "ready" =>
        /\ FreePages \cap owned = {}
        /\ FreePages \cup owned = UsablePages(mbd)

Abstract == INSTANCE PageAllocator WITH
    free <- FreePages, PageSize <- PAGE_SIZE, Null <- NULL

\* pmm_alloc_page returns the lowest free page, and NULL exactly when no page
\* is free; a success is never mistaken for NULL.
RefinesPageAllocator == Abstract!Spec

-------------------------------------------------------------------------------
(* The inductive invariant behind the properties; PmmProofs. *)

\* Bits past the last page are set: no search can return such a page.
TailSet ==
    \A w \in 0 .. Words(pmm_max_blocks) - 1 : \A b \in Bits :
        w * WordBits + b >= pmm_max_blocks => b \in pmm_bitmap[w]

\* Before pmm_init there is no page; page 0, whose address is NULL, is never
\* free; a page that was handed out is not free.
PageInv ==
    /\ phase # "ready" => pmm_max_blocks = 0
    /\ 0 \notin FreePages /\ 0 \notin owned
    /\ owned \cap FreePages = {}

IInv == TypeOK /\ HintSound /\ TailSet /\ PageInv
===============================================================================
