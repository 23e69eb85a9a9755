--------------------------------- MODULE Heap ---------------------------------
(***************************************************************************)
(* The kernel heap: malloc and free of lib/malloc.cpp on top of sbrk and   *)
(* init_heap of kernel/kernel.c.                                           *)
(*                                                                         *)
(* Headers live in the memory that they describe.  hdr maps the address of *)
(* each header on the list to its fields; next is an address, as in the    *)
(* code, and nothing ties it to size but what malloc and free do.  The     *)
(* loops are modelled one iteration per step.                              *)
(*                                                                         *)
(* Sizes are small: the arithmetic of the code on 64 bits overflows for    *)
(* requests near 2^64 only, which RequestAssumption leaves out.            *)
(***************************************************************************)
EXTENDS Integers, FiniteSets

CONSTANTS
    Align,         \* granularity of sizes (8)
    header_size,   \* sizeof(MemoryBlock) (24)
    MinSplit,      \* a split leaves at least that much (16)
    KernelEnd,     \* address of kernel_end
    BitmapBytes,   \* kernel_main puts the heap that far behind kernel_end
    NoMapBytes,    \* heap size when there is no memory map (16 MB)
    MbdInfos,      \* [mem_map, mmap]: whether the loader gave a memory map, and
                   \* the map, a sequence of [addr, len, type]
    Requests,      \* sizes that callers ask for
    NULL

ASSUME SizeAssumption ==
    /\ Align \in Nat \ {0} /\ header_size \in Nat \ {0} /\ MinSplit \in Nat
    /\ KernelEnd \in Nat \ {0} /\ BitmapBytes \in Nat /\ NoMapBytes \in Nat
ASSUME RequestAssumption == Requests \subseteq Nat
ASSUME MbdAssumption ==
    \A mbd \in MbdInfos :
        /\ mbd.mem_map \in BOOLEAN
        /\ DOMAIN mbd.mmap \subseteq Nat
        /\ \A i \in DOMAIN mbd.mmap : mbd.mmap[i].addr \in Nat /\ mbd.mmap[i].len \in Nat
ASSUME NullAssumption == NULL \notin Nat

VARIABLES
    hdr,                    \* address of a block on the list -> its header
    first_block,
    heap_end, heap_limit,
    pc,                     \* where malloc or free is
    current, last,          \* their locals
    request, size,          \* argument of malloc, as given and rounded up
    live                    \* ghost: pointers handed out -> bytes asked for

state == <<hdr, first_block, heap_end, heap_limit>>
vars  == <<state, pc, current, last, request, size, live>>

HeapStart == KernelEnd + BitmapBytes

Blocks == DOMAIN hdr

Header(s, f, n) == [size |-> s, is_free |-> f, next |-> n]

data(b)      == b + header_size
from_data(p) == p - header_size

\* The address behind block b.
EndOf(b) == data(b) + hdr[b].size

-------------------------------------------------------------------------------
(* init_heap and sbrk *)

Holds(region) ==
    /\ region.type = 1
    /\ region.addr <= KernelEnd /\ KernelEnd < region.addr + region.len

\* heap_limit: the end of the first available region that holds kernel_end.
\* If there is none, it stays where kernel_main put it, at the (empty) heap.
init_heap(mbd) ==
    LET found == {i \in DOMAIN mbd.mmap : Holds(mbd.mmap[i])}
    IN  \/ ~mbd.mem_map /\ heap_limit = KernelEnd + NoMapBytes
        \/ mbd.mem_map /\ found = {} /\ heap_limit = HeapStart
        \/ mbd.mem_map /\ \E i \in found :
               /\ \A j \in found : i <= j
               /\ heap_limit = mbd.mmap[i].addr + mbd.mmap[i].len

\* The condition under which sbrk moves heap_end.
SbrkAllows(increment) ==
    heap_end + increment <= heap_limit /\ heap_end + increment >= KernelEnd

-------------------------------------------------------------------------------
(* malloc *)

RoundUp(n) == ((n + Align - 1) \div Align) * Align

SplitRestTaken(b, n, rest) ==
    LET at == data(b) + n
    IN  [a \in Blocks \cup {at} |->
            IF a = at THEN Header(rest, FALSE, hdr[b].next)
            ELSE IF a = b THEN Header(n, FALSE, at)
            ELSE hdr[a]]

\* Block b keeps n bytes; a new free block of the rest follows it.
Split(b, n, rest) ==
    LET at == data(b) + n
    IN  [a \in Blocks \cup {at} |->
            IF a = at THEN Header(rest, TRUE, hdr[b].next)
            ELSE IF a = b THEN Header(n, FALSE, at)
            ELSE hdr[a]]

Take(b) == [hdr EXCEPT ![b].is_free = FALSE]

SplitForgettingHeader(b, n) ==
    IF hdr[b].size >= n + header_size + MinSplit
    THEN Split(b, n, hdr[b].size - n) ELSE Take(b)

\* split, then is_free = false.
SplitAndTake(b, n) ==
    IF hdr[b].size >= n + header_size + MinSplit
    THEN Split(b, n, hdr[b].size - n - header_size) ELSE Take(b)

FitsAny(b) == hdr[b].is_free

Fits(b) == hdr[b].is_free /\ hdr[b].size >= size

\* malloc is called; a request of 0 returns at once.
Malloc ==
    /\ pc = "idle"
    /\ \E n \in Requests :
        /\ n # 0
        /\ request' = n /\ size' = RoundUp(n)
    /\ pc' = "search" /\ current' = first_block /\ last' = NULL
    /\ UNCHANGED <<state, live>>

HandOut(b) ==
    /\ live' = [p \in DOMAIN live \cup {data(b)} |->
                    IF p = data(b) THEN request ELSE live[p]]
    /\ pc' = "idle" /\ current' = NULL /\ last' = NULL
    /\ request' = 0 /\ size' = 0

SearchHit ==
    /\ pc = "search" /\ current # NULL /\ Fits(current)
    /\ hdr' = SplitAndTake(current, size)
    /\ HandOut(current)
    /\ UNCHANGED <<first_block, heap_end, heap_limit>>

SearchNextTooFar ==
    /\ pc = "search" /\ current # NULL
    /\ last' = current /\ current' = hdr[current].next
    /\ UNCHANGED <<state, pc, request, size, live>>

SearchNext ==
    /\ pc = "search" /\ current # NULL /\ ~Fits(current)
    /\ last' = current /\ current' = hdr[current].next
    /\ UNCHANGED <<state, pc, request, size, live>>

\* No block fits: a new one is linked behind the last.
Grow ==
    /\ pc = "search" /\ current = NULL
    /\ SbrkAllows(header_size + size)
    /\ heap_end' = heap_end + header_size + size
    /\ hdr' = [b \in Blocks \cup {heap_end} |->
                  IF b = heap_end THEN Header(size, FALSE, NULL)
                  ELSE IF b = last THEN [hdr[b] EXCEPT !.next = heap_end]
                  ELSE hdr[b]]
    /\ first_block' = IF first_block = NULL THEN heap_end ELSE first_block
    /\ HandOut(heap_end)
    /\ UNCHANGED heap_limit

\* sbrk fails and malloc returns NULL.
GrowFails ==
    /\ pc = "search" /\ current = NULL
    /\ ~SbrkAllows(header_size + size)
    /\ pc' = "idle" /\ last' = NULL /\ request' = 0 /\ size' = 0
    /\ UNCHANGED <<state, current, live>>

-------------------------------------------------------------------------------
(* free *)

\* free of a pointer that malloc returned.  free(NULL) does nothing.
Free ==
    /\ pc = "idle"
    /\ \E p \in DOMAIN live :
        /\ hdr' = [hdr EXCEPT ![from_data(p)].is_free = TRUE]
        /\ live' = [q \in DOMAIN live \ {p} |-> live[q]]
    /\ pc' = "sweep" /\ current' = first_block
    /\ UNCHANGED <<first_block, heap_end, heap_limit, last, request, size>>

CanMerge(b) ==
    LET n == hdr[b].next
    IN  n # NULL /\ hdr[b].is_free /\ hdr[n].is_free

AbsorbKeepNext(b) ==
    LET n == hdr[b].next
    IN  [a \in Blocks \ {n} |->
            IF a = b THEN Header(hdr[b].size + header_size + hdr[n].size, TRUE, n)
            ELSE hdr[a]]

\* The block that coalesce absorbs ceases to be one.
Absorb(b) ==
    LET n == hdr[b].next
    IN  [a \in Blocks \ {n} |->
            IF a = b THEN Header(hdr[b].size + header_size + hdr[n].size, TRUE, hdr[n].next)
            ELSE hdr[a]]

\* One iteration of the loop in coalesce.
Coalesce ==
    /\ pc = "sweep" /\ current # NULL /\ CanMerge(current)
    /\ hdr' = Absorb(current)
    /\ UNCHANGED <<first_block, heap_end, heap_limit, pc, current, last, request, size, live>>

SweepNextStuck ==
    /\ pc = "sweep" /\ current # NULL /\ ~CanMerge(current)
    /\ UNCHANGED vars

SweepNextEarly ==
    /\ pc = "sweep" /\ current # NULL
    /\ current' = hdr[current].next
    /\ UNCHANGED <<state, pc, last, request, size, live>>

SweepNext ==
    /\ pc = "sweep" /\ current # NULL /\ ~CanMerge(current)
    /\ current' = hdr[current].next
    /\ UNCHANGED <<state, pc, last, request, size, live>>

FreeReturns ==
    /\ pc = "sweep" /\ current = NULL
    /\ pc' = "idle"
    /\ UNCHANGED <<state, current, last, request, size, live>>

-------------------------------------------------------------------------------
Init ==
    /\ hdr = [b \in {} |-> Header(0, TRUE, NULL)] /\ first_block = NULL
    /\ heap_end = HeapStart
    /\ \E mbd \in MbdInfos : init_heap(mbd)
    /\ pc = "idle" /\ current = NULL /\ last = NULL
    /\ request = 0 /\ size = 0
    /\ live = [p \in {} |-> 0]

MallocStep == SearchHit \/ SearchNext \/ Grow \/ GrowFails
FreeStep   == Coalesce \/ SweepNext \/ FreeReturns

Next == Malloc \/ MallocStep \/ Free \/ FreeStep

SafetySpec == Init /\ [][Next]_vars

\* The code between call and return runs.
Spec == SafetySpec /\ WF_vars(MallocStep \/ FreeStep)

-------------------------------------------------------------------------------
(* Properties *)

\* Variables have their types, the cursors point to blocks on the list.
TypeOK ==
    /\ Blocks \subseteq Nat
    /\ hdr \in [Blocks -> [size : Nat, is_free : BOOLEAN, next : Blocks \cup {NULL}]]
    /\ first_block \in Blocks \cup {NULL}
    /\ heap_end \in Nat /\ heap_limit \in Nat
    /\ pc \in {"idle", "search", "sweep"}
    /\ current \in Blocks \cup {NULL} /\ last \in Blocks \cup {NULL}
    /\ request \in Nat /\ size \in Nat
    /\ DOMAIN live \subseteq Nat /\ live \in [DOMAIN live -> Nat]

\* The list is the heap: it starts at the bottom of the heap, each next
\* pointer leads to the address just behind the block, the last block ends at
\* heap_end, and no block lies inside another.
BlocksTile ==
    /\ first_block = IF heap_end = HeapStart THEN NULL ELSE HeapStart
    /\ \A b \in Blocks :
        /\ HeapStart <= b
        /\ IF hdr[b].next = NULL THEN EndOf(b) = heap_end ELSE EndOf(b) = hdr[b].next
    /\ \A a, b \in Blocks : a < b => EndOf(a) <= b

\* What malloc promises: a pointer that was handed out and not freed points
\* to as many bytes as were asked for, inside a block of its own that is not
\* free, below the limit of the heap.
LiveProtected ==
    \A p \in DOMAIN live :
        /\ from_data(p) \in Blocks
        /\ ~hdr[from_data(p)].is_free
        /\ live[p] <= hdr[from_data(p)].size
        /\ EndOf(from_data(p)) <= heap_limit

\* And every block is either free or in a caller's hands: none is leaked.
NothingLeaked ==
    \A b \in Blocks : ~hdr[b].is_free => data(b) \in DOMAIN live

\* Between calls no two neighbours are both free, so that a request fails or
\* grows the heap only if no run of free memory below heap_end would hold it.
FreeMerged == pc = "idle" => \A b \in Blocks : ~CanMerge(b)

\* malloc resorts to sbrk only if no free block is large enough.
GrowsOnlyIfFull == pc = "search" /\ current = NULL => \A b \in Blocks : ~Fits(b)

\* The blocks that the loop of malloc or free has left behind.
Passed(b) == current = NULL \/ b < current

\* What holds of the cursors in the middle of a call.
CursorInv ==
    /\ pc # "search" => last = NULL
    /\ pc = "idle" => current = NULL
    /\ pc = "search" =>
        /\ request <= size
        /\ IF last = NULL THEN current = first_block ELSE hdr[last].next = current
        /\ \A b \in Blocks : Passed(b) => ~Fits(b)
    /\ pc = "sweep" => \A b \in Blocks : Passed(b) => ~CanMerge(b)
    /\ pc # "sweep" => \A b \in Blocks : ~CanMerge(b)

EndInv ==
    /\ HeapStart <= heap_end
    /\ \A b \in Blocks : EndOf(b) <= heap_end
    /\ Blocks # {} => heap_end <= heap_limit

\* The inductive invariant.
IInv == TypeOK /\ BlocksTile /\ LiveProtected /\ NothingLeaked /\ CursorInv /\ EndInv

\* Every call returns: the list that malloc and free walk has no cycle.
CallReturns == []<>(pc = "idle")
===============================================================================
