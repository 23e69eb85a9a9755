------------------------------- MODULE PmmProofs ------------------------------
(***************************************************************************)
(* Pmm implements PageAllocator for every page size, word size and memory  *)
(* map.                                                                    *)
(***************************************************************************)
EXTENDS Pmm, TLAPS

USE PageAssumption

(* Division with remainder, for the word and the bit of a page. *)
LEMMA DivMod ==
    ASSUME NEW p \in Nat
    PROVE  /\ Word(p) \in Nat /\ Bit(p) \in Bits
           /\ p = Word(p) * WordBits + Bit(p)
BY DEF Word, Bit, Bits

LEMMA DivUnique ==
    ASSUME NEW w \in Nat, NEW b \in Bits
    PROVE  /\ w * WordBits + b \in Nat
           /\ Word(w * WordBits + b) = w /\ Bit(w * WordBits + b) = b
BY DEF Word, Bit, Bits

LEMMA MulMono ==
    ASSUME NEW v \in Nat, NEW w \in Nat, v < w
    PROVE  v * WordBits + WordBits <= w * WordBits
OBVIOUS

LEMMA WordsCover ==
    ASSUME NEW n \in Nat
    PROVE  /\ Words(n) \in Nat
           /\ \A p \in 0 .. n - 1 : Word(p) \in 0 .. Words(n) - 1
BY DEF Words, Word

LEMMA InitIInv == Init => IInv
<1> SUFFICES ASSUME Init PROVE IInv
  OBVIOUS
<1>1. Words(0) = 0
  BY DEF Words
<1>2. QED
  BY <1>1 DEF Init, IInv, TypeOK, HintSound, TailSet, PageInv, FreePages, NULL

(* The regions that pmm_init takes out include page 0. *)
LEMMA PageZeroReserved == \A map, blocks : ~StartsFree(0, map, blocks)
<1> TAKE map, blocks
<1>1. <<0, LowMem>> \in Reserved(blocks)
  BY DEF Reserved
<1>2. align_down(0) = 0
  BY DEF align_down
<1>3. align_up((0 + LowMem) % AddrMod) > 0
  <2>1. (0 + LowMem) % AddrMod = LowMem
    BY LowMemAssumption
  <2>2. (LowMem + PAGE_SIZE - 1) % AddrMod = LowMem + PAGE_SIZE - 1
    BY LowMemAssumption
  <2>3. (LowMem + PAGE_SIZE - 1) \div PAGE_SIZE >= 1
    BY LowMemAssumption
  <2>4. \A k \in Nat : k >= 1 => k * PAGE_SIZE > 0
    OBVIOUS
  <2>5. QED
    BY <2>1, <2>2, <2>3, <2>4, LowMemAssumption DEF align_up, align_down
<1>4. DeinitRegion(0, <<0, LowMem>>[1], <<0, LowMem>>[2])
  BY <1>2, <1>3 DEF DeinitRegion
<1>5. QED
  BY <1>1, <1>4 DEF StartsFree

LEMMA PmmInitStep == IInv /\ PmmInit => IInv'
<1> SUFFICES ASSUME IInv, PmmInit PROVE IInv'
  OBVIOUS
<1>1. PICK x \in Ends(mbd) :
        /\ pmm_max_blocks' = Blocks(x)
        /\ pmm_bitmap' = [w \in 0 .. Words(Blocks(x)) - 1 |->
               {b \in Bits : ~StartsFree(w * WordBits + b, mbd, Blocks(x))}]
  BY DEF PmmInit
<1>2. x \in Nat
  BY MapsAssumption DEF IInv, TypeOK, Ends, End, Available
<1>3. pmm_max_blocks' \in Nat
  <2>1. x \div PAGE_SIZE \in Nat
    BY <1>2
  <2>2. \A k \in Nat : (k * PAGE_SIZE) \div PAGE_SIZE \in Nat
    OBVIOUS
  <2>3. QED
    BY <1>1, <2>1, <2>2 DEF Blocks, align_down
<1>4. Words(pmm_max_blocks') \in Nat
  BY <1>3, WordsCover
<1>5. owned = {} /\ owned' = {} /\ pmm_hint_word' = 0 /\ ret' = ret /\ mbd' = mbd /\ phase' = "ready"
  BY DEF PmmInit, IInv, TypeOK, PageInv
<1>6. TypeOK'
  BY <1>1, <1>3, <1>4, <1>5 DEF IInv, TypeOK
<1>7. HintSound'
  BY <1>5 DEF HintSound
<1>8. TailSet'
  <2> SUFFICES ASSUME NEW w \in 0 .. Words(pmm_max_blocks') - 1, NEW b \in Bits,
                      w * WordBits + b >= pmm_max_blocks'
               PROVE  b \in pmm_bitmap'[w]
    BY DEF TailSet
  <2>1. w * WordBits + b \in Nat
    BY <1>4, DivUnique
  <2>2. ~StartsFree(w * WordBits + b, mbd, Blocks(x))
    BY <1>1, <1>3, <2>1 DEF StartsFree
  <2>3. QED
    BY <1>1, <2>2
<1>9. 0 \notin FreePages'
  <2> SUFFICES ASSUME 0 \in 0 .. pmm_max_blocks' - 1
               PROVE  Bit(0) \in pmm_bitmap'[Word(0)]
    BY DEF FreePages
  <2>1. Word(0) \in 0 .. Words(pmm_max_blocks') - 1 /\ Bit(0) \in Bits
    BY <1>3, WordsCover, DivMod
  <2>2. Word(0) * WordBits + Bit(0) = 0
    BY DivMod
  <2>3. QED
    BY <1>1, <2>1, <2>2, PageZeroReserved
<1>10. PageInv'
  BY <1>5, <1>9 DEF PageInv
<1>11. QED
  BY <1>6, <1>7, <1>8, <1>10 DEF IInv

(* Every page of the map has its bit in the bitmap. *)
LEMMA PageParts ==
    ASSUME IInv
    PROVE  /\ pmm_max_blocks \in Nat /\ Words(pmm_max_blocks) \in Nat
           /\ \A p \in 0 .. pmm_max_blocks - 1 :
                 /\ p \in Nat /\ Word(p) \in Nat /\ Bit(p) \in Bits
                 /\ Word(p) \in 0 .. Words(pmm_max_blocks) - 1
                 /\ p = Word(p) * WordBits + Bit(p)
<1>1. pmm_max_blocks \in Nat
  BY DEF IInv, TypeOK
<1>2. Words(pmm_max_blocks) \in Nat
  BY <1>1, WordsCover
<1>3. ASSUME NEW p \in 0 .. pmm_max_blocks - 1
      PROVE  /\ p \in Nat /\ Word(p) \in Nat /\ Bit(p) \in Bits
             /\ Word(p) \in 0 .. Words(pmm_max_blocks) - 1
             /\ p = Word(p) * WordBits + Bit(p)
  <2>1. p \in Nat
    BY <1>1
  <2>2. QED
    BY <1>1, <2>1, WordsCover, DivMod
<1>4. QED
  BY <1>1, <1>2, <1>3

(* The page of the lowest clear bit of a word is a free page of the map. *)
LEMMA FoundIsFree ==
    ASSUME IInv, NEW w \in 0 .. Words(pmm_max_blocks) - 1, NEW b \in Bits, LowestClear(w, b)
    PROVE  w * WordBits + b \in FreePages
<1>1. w \in Nat
  BY WordsCover DEF IInv, TypeOK
<1>2. /\ w * WordBits + b \in Nat
      /\ Word(w * WordBits + b) = w /\ Bit(w * WordBits + b) = b
  BY <1>1, DivUnique
<1>3. b \notin pmm_bitmap[w]
  BY DEF LowestClear
<1>4. w * WordBits + b < pmm_max_blocks
  BY <1>2, <1>3 DEF IInv, TailSet, TypeOK
<1>5. QED
  BY <1>2, <1>3, <1>4 DEF FreePages, IInv, TypeOK

(* Setting a bit takes exactly its page off the free pages. *)
LEMMA TakeRemoves ==
    ASSUME IInv, NEW w \in 0 .. Words(pmm_max_blocks) - 1, NEW b \in Bits,
           TakePage(w, b), UNCHANGED pmm_max_blocks
    PROVE  FreePages' = FreePages \ {w * WordBits + b}
<1>1. w \in Nat
  BY WordsCover DEF IInv, TypeOK
<1>2. /\ w * WordBits + b \in Nat
      /\ Word(w * WordBits + b) = w /\ Bit(w * WordBits + b) = b
  BY <1>1, DivUnique
<1>3. pmm_bitmap' = [pmm_bitmap EXCEPT ![w] = @ \cup {b}] /\ pmm_max_blocks' = pmm_max_blocks
  BY DEF TakePage
<1>4. ASSUME NEW p \in 0 .. pmm_max_blocks - 1
      PROVE  Bit(p) \notin pmm_bitmap'[Word(p)] <=>
                 Bit(p) \notin pmm_bitmap[Word(p)] /\ p # w * WordBits + b
  <2>1. /\ p \in Nat /\ Word(p) \in 0 .. Words(pmm_max_blocks) - 1
        /\ p = Word(p) * WordBits + Bit(p)
    BY <1>4, PageParts
  <2>2. CASE Word(p) = w
    <3>1. pmm_bitmap'[Word(p)] = pmm_bitmap[Word(p)] \cup {b}
      BY <1>3, <2>1, <2>2 DEF IInv, TypeOK
    <3>2. Bit(p) = b <=> p = w * WordBits + b
      BY <1>2, <2>1, <2>2
    <3>3. QED
      BY <3>1, <3>2
  <2>3. CASE Word(p) # w
    BY <1>2, <1>3, <2>1, <2>3 DEF IInv, TypeOK
  <2>4. QED
    BY <2>2, <2>3
<1>5. QED
  BY <1>3, <1>4 DEF FreePages

(* Clearing the bit of a page adds exactly that page to the free pages. *)
LEMMA FreeAdds ==
    ASSUME IInv, NEW p \in owned, PmmFree(p)
    PROVE  /\ p \in 0 .. pmm_max_blocks - 1
           /\ pmm_bitmap' = [pmm_bitmap EXCEPT ![Word(p)] = @ \ {Bit(p)}]
           /\ FreePages' = FreePages \cup {p}
<1>1. p \in 0 .. pmm_max_blocks - 1 /\ pmm_max_blocks \in Nat
  BY DEF IInv, TypeOK
<1>2. /\ pmm_bitmap' = [pmm_bitmap EXCEPT ![Word(p)] = @ \ {Bit(p)}]
      /\ pmm_max_blocks' = pmm_max_blocks
  BY <1>1 DEF PmmFree
<1>3. ASSUME NEW o \in 0 .. pmm_max_blocks - 1
      PROVE  Bit(o) \notin pmm_bitmap'[Word(o)] <=> Bit(o) \notin pmm_bitmap[Word(o)] \/ o = p
  <2>1. /\ Word(o) \in 0 .. Words(pmm_max_blocks) - 1
        /\ o = Word(o) * WordBits + Bit(o) /\ p = Word(p) * WordBits + Bit(p)
    BY <1>1, <1>3, PageParts
  <2>2. CASE Word(o) = Word(p)
    BY <1>2, <2>1, <2>2 DEF IInv, TypeOK
  <2>3. CASE Word(o) # Word(p)
    BY <1>2, <2>1, <2>3 DEF IInv, TypeOK
  <2>4. QED
    BY <2>2, <2>3
<1>4. QED
  BY <1>1, <1>2, <1>3 DEF FreePages

LEMMA AllocStep ==
    ASSUME IInv, NEW w \in 0 .. Words(pmm_max_blocks) - 1, NEW b \in Bits,
           LowestClear(w, b), TakePage(w, b), UNCHANGED <<mbd, phase, pmm_max_blocks>>,
           \A v \in 0 .. w - 1 : pmm_bitmap[v] = Bits
    PROVE  IInv'
<1> DEFINE g == w * WordBits + b
<1>0. w \in Nat /\ g \in Nat /\ g \in FreePages /\ FreePages' = FreePages \ {g}
  <2>1. w \in Nat
    BY PageParts
  <2>2. g \in FreePages
    BY FoundIsFree
  <2>3. FreePages' = FreePages \ {g}
    BY TakeRemoves
  <2>4. g \in Nat
    BY <2>1, DivUnique
  <2>5. QED
    BY <2>1, <2>2, <2>3, <2>4
<1>1. g \in 0 .. pmm_max_blocks - 1 /\ g # 0
  BY <1>0 DEF FreePages, IInv, PageInv
<1>2. \A k \in Nat : k * PAGE_SIZE \in Nat
  OBVIOUS
<1>3. TypeOK'
  <2>1. pmm_bitmap' \in [0 .. Words(pmm_max_blocks) - 1 -> SUBSET Bits]
    BY DEF TakePage, IInv, TypeOK
  <2>2. owned' \subseteq 0 .. pmm_max_blocks - 1 /\ ret' \in Nat
    BY <1>0, <1>1, <1>2 DEF TakePage, IInv, TypeOK
  <2>3. pmm_hint_word' \in Nat /\ pmm_hint_word' < Words(pmm_max_blocks)
    BY <1>0, WordsCover DEF TakePage, IInv, TypeOK
  <2>4. QED
    BY <2>1, <2>2, <2>3 DEF IInv, TypeOK
<1>4. HintSound'
  BY <1>0 DEF HintSound, TakePage, IInv, TypeOK
<1>5. TailSet'
  BY DEF TailSet, TakePage, IInv, TypeOK
<1>6. PageInv'
  BY <1>0, <1>1 DEF PageInv, TakePage, IInv
<1>7. QED
  BY <1>3, <1>4, <1>5, <1>6 DEF IInv

(* A free lowers the hint to the word of the page, so that the words below *)
(* the hint are still full.                                                *)
LEMMA FreeStep == ASSUME IInv, NEW p \in owned, PmmFree(p) PROVE IInv'
<1>1. /\ p \in 0 .. pmm_max_blocks - 1 /\ FreePages' = FreePages \cup {p}
      /\ pmm_bitmap' = [pmm_bitmap EXCEPT ![Word(p)] = @ \ {Bit(p)}]
  BY FreeAdds
<1>2. /\ pmm_max_blocks \in Nat /\ p < pmm_max_blocks /\ p \in Nat /\ Word(p) \in Nat
      /\ Words(pmm_max_blocks) \in Nat /\ Word(p) \in 0 .. Words(pmm_max_blocks) - 1
      /\ p = Word(p) * WordBits + Bit(p) /\ pmm_hint_word \in Nat
  <2>1. pmm_max_blocks \in Nat /\ pmm_hint_word \in Nat
    BY DEF IInv, TypeOK
  <2>2. QED
    BY <1>1, <2>1, PageParts
<1>3. /\ pmm_hint_word' = IF Word(p) < pmm_hint_word THEN Word(p) ELSE pmm_hint_word
      /\ owned' = owned \ {p} /\ UNCHANGED <<mbd, phase, pmm_max_blocks, ret>>
  <2>1. ~(p >= pmm_max_blocks)
    BY <1>2
  <2>2. QED
    BY <2>1 DEF PmmFree, LowerHint
<1>4. TypeOK'
  <2>1. pmm_bitmap' \in [0 .. Words(pmm_max_blocks) - 1 -> SUBSET Bits]
    BY <1>1 DEF IInv, TypeOK
  <2>2. pmm_hint_word' \in Nat /\ (pmm_hint_word' = 0 \/ pmm_hint_word' < Words(pmm_max_blocks))
    BY <1>2, <1>3 DEF IInv, TypeOK
  <2>3. QED
    BY <1>3, <2>1, <2>2 DEF IInv, TypeOK
<1>5. HintSound'
  <2> SUFFICES ASSUME NEW v \in 0 .. pmm_hint_word' - 1 PROVE pmm_bitmap'[v] = Bits
    BY DEF HintSound
  <2>1. pmm_bitmap[v] = Bits /\ v # Word(p) /\ v \in 0 .. Words(pmm_max_blocks) - 1
    <3>1. v \in 0 .. pmm_hint_word - 1 /\ v < pmm_hint_word' /\ v \in Nat
      BY <1>2, <1>3
    <3>2. pmm_bitmap[v] = Bits
      BY <3>1 DEF IInv, HintSound
    <3>3. v < Words(pmm_max_blocks)
      BY <1>2, <3>1 DEF IInv, TypeOK
    <3>4. QED
      BY <1>2, <1>3, <3>1, <3>2, <3>3
  <2>2. QED
    BY <1>1, <2>1 DEF IInv, TypeOK
<1>6. TailSet'
  <2> SUFFICES ASSUME NEW w \in 0 .. Words(pmm_max_blocks) - 1, NEW b \in Bits,
                      w * WordBits + b >= pmm_max_blocks
               PROVE  b \in pmm_bitmap'[w]
    BY <1>3 DEF TailSet
  <2>1. b \in pmm_bitmap[w]
    BY DEF IInv, TailSet
  <2>2. ~(w = Word(p) /\ b = Bit(p))
    BY <1>2
  <2>3. QED
    BY <1>1, <1>2, <2>1, <2>2 DEF IInv, TypeOK
<1>7. PageInv'
  BY <1>1, <1>2, <1>3 DEF IInv, PageInv
<1>8. QED
  BY <1>4, <1>5, <1>6, <1>7 DEF IInv

(* What the two passes of the search find, given that no free page lies    *)
(* below the hint: the lowest word with a free page, or nothing.           *)
LEMMA SearchIsLowest ==
    ASSUME IInv
    PROVE  /\ \A n \in {0, 1}, w \in 0 .. Words(pmm_max_blocks) - 1 :
                 Finds(n, w) => \A v \in 0 .. w - 1 : pmm_bitmap[v] = Bits
           /\ FindsNothing(0) => FreePages = {}
<1>1. /\ pmm_hint_word \in Nat /\ Words(pmm_max_blocks) \in Nat
      /\ \A v \in 0 .. pmm_hint_word - 1 : pmm_bitmap[v] = Bits
  BY WordsCover DEF IInv, TypeOK, HintSound
<1>2. ASSUME NEW n \in {0, 1}, NEW w \in 0 .. Words(pmm_max_blocks) - 1, Finds(n, w),
             NEW v \in 0 .. w - 1
      PROVE  pmm_bitmap[v] = Bits
  BY <1>1, <1>2 DEF Finds, Pass
<1>3. ASSUME FindsNothing(0) PROVE FreePages = {}
  <2>1. \A v \in 0 .. Words(pmm_max_blocks) - 1 : pmm_bitmap[v] = Bits
    BY <1>1, <1>3 DEF FindsNothing, Pass
  <2>2. QED
    BY <2>1, PageParts DEF FreePages
<1>4. QED
  BY <1>2, <1>3

LEMMA NextIInv == IInv /\ [Next]_vars => IInv'
<1> SUFFICES ASSUME IInv, [Next]_vars PROVE IInv'
  OBVIOUS
<1>1. ASSUME UNCHANGED <<mbd, pmm_max_blocks, pmm_bitmap, pmm_hint_word, owned>>,
             ret' \in Nat, phase' \in {"boot", "ready", "panic"},
             phase' # "ready" => pmm_max_blocks = 0
      PROVE  IInv'
  BY <1>1 DEF IInv, TypeOK, HintSound, TailSet, PageInv, FreePages
<1>2. CASE UNCHANGED vars
  BY <1>1, <1>2 DEF vars, IInv, TypeOK, PageInv
<1>3. CASE PmmInitPanic
  BY <1>1, <1>3 DEF PmmInitPanic, IInv, TypeOK, PageInv
<1>4. CASE PmmInit
  BY <1>4, PmmInitStep
<1>5. CASE PmmAlloc
  <2>1. CASE /\ FindsNothing(0) /\ ret' = NULL
             /\ UNCHANGED <<mbd, phase, pmm_max_blocks, pmm_bitmap, pmm_hint_word, owned>>
    BY <1>1, <2>1 DEF NULL, IInv, TypeOK, PageInv
  <2>2. ASSUME NEW n \in {0, 1}, NEW w \in 0 .. Words(pmm_max_blocks) - 1, NEW b \in Bits,
               Finds(n, w), LowestClear(w, b), TakePage(w, b),
               UNCHANGED <<mbd, phase, pmm_max_blocks>>
        PROVE  IInv'
    BY <2>2, AllocStep, SearchIsLowest
  <2>3. QED
    BY <1>5, <2>1, <2>2 DEF PmmAlloc
<1>6. ASSUME NEW p \in owned \cup {pmm_max_blocks}, PmmFree(p) PROVE IInv'
  <2>1. CASE p \in owned
    BY <1>6, <2>1, FreeStep
  <2>2. CASE p = pmm_max_blocks
    BY <1>1, <1>6, <2>2 DEF PmmFree, IInv, TypeOK, PageInv
  <2>3. QED
    BY <1>6, <2>1, <2>2
<1>7. QED
  BY <1>2, <1>3, <1>4, <1>5, <1>6 DEF Next

(* IInv is inductive. *)
THEOREM Invariance == Spec => []IInv
BY InitIInv, NextIInv, PTL DEF Spec

(* The search of pmm_alloc_page stays inside the bitmap. *)
THEOREM TypeCorrect == Spec => []TypeOK
<1>1. IInv => TypeOK
  BY DEF IInv
<1>2. QED
  BY Invariance, <1>1, PTL

(* No sequence of allocations and frees leaves a free page below the hint. *)
THEOREM HintIsSound == Spec => []HintSound
<1>1. IInv => HintSound
  BY DEF IInv
<1>2. QED
  BY Invariance, <1>1, PTL

-------------------------------------------------------------------------------
(* Conservation of pages *)

(* How a page lies to an address that is rounded down. *)
LEMMA DownBounds ==
    ASSUME NEW x \in Nat, NEW p \in Nat
    PROVE  /\ align_down(x) \in Nat
           /\ align_down(x) <= p * PAGE_SIZE <=> x < p * PAGE_SIZE + PAGE_SIZE
           /\ p * PAGE_SIZE < align_down(x) <=> p * PAGE_SIZE + PAGE_SIZE <= x
<1> DEFINE q == x \div PAGE_SIZE
<1>1. q \in Nat /\ q * PAGE_SIZE <= x /\ x < q * PAGE_SIZE + PAGE_SIZE
  OBVIOUS
<1> HIDE DEF q
<1>2. p * PAGE_SIZE \in Nat /\ q * PAGE_SIZE \in Nat
  BY <1>1
<1>3. ASSUME p < q PROVE p * PAGE_SIZE + PAGE_SIZE <= q * PAGE_SIZE
  BY <1>1, <1>3
<1>4. ASSUME q <= p PROVE q * PAGE_SIZE <= p * PAGE_SIZE
  BY <1>1, <1>4
<1>5. align_down(x) = q * PAGE_SIZE
  BY DEF align_down, q
<1>6. QED
  BY <1>1, <1>2, <1>3, <1>4, <1>5

(* And to one that is rounded up, if the sum does not overflow. *)
LEMMA UpBounds ==
    ASSUME NEW x \in Nat, NEW p \in Nat, x + PAGE_SIZE <= AddrMod
    PROVE  /\ align_up(x) <= p * PAGE_SIZE <=> x <= p * PAGE_SIZE
           /\ p * PAGE_SIZE < align_up(x) <=> p * PAGE_SIZE < x
<1>1. (x + PAGE_SIZE - 1) \in Nat /\ x + PAGE_SIZE - 1 < AddrMod
  OBVIOUS
<1>2. (x + PAGE_SIZE - 1) % AddrMod = x + PAGE_SIZE - 1
  BY <1>1
<1>3. p * PAGE_SIZE \in Nat
  OBVIOUS
<1>4. align_up(x) = align_down(x + PAGE_SIZE - 1)
  BY <1>2 DEF align_up
<1>5. /\ align_down(x + PAGE_SIZE - 1) <= p * PAGE_SIZE <=> x + PAGE_SIZE - 1 < p * PAGE_SIZE + PAGE_SIZE
      /\ p * PAGE_SIZE < align_down(x + PAGE_SIZE - 1) <=> p * PAGE_SIZE + PAGE_SIZE <= x + PAGE_SIZE - 1
  BY <1>1, DownBounds
<1>6. QED
  BY <1>3, <1>4, <1>5

(* pmm_init_region makes exactly the pages free whose bytes are all in the *)
(* region.                                                                 *)
LEMMA InitRegionExact ==
    ASSUME NEW base \in Nat, NEW size \in Nat, NEW p \in Nat,
           base + PAGE_SIZE <= AddrMod, size < AddrMod, base <= (base + size) % AddrMod
    PROVE  InitRegion(p, base, size) <=>
               Bytes(p * PAGE_SIZE, PAGE_SIZE) \subseteq Bytes(base, size)
<1>1. (base + size) % AddrMod = base + size
  <2>1. CASE base + size < AddrMod
    BY <2>1
  <2>2. CASE base + size >= AddrMod
    <3>1. base + size - AddrMod \in Nat /\ base + size - AddrMod < AddrMod
      BY <2>2
    <3>2. (base + size) % AddrMod = base + size - AddrMod
      BY <3>1
    <3>3. QED
      BY <3>2
  <2>3. QED
    BY <2>1, <2>2
<1>2. InitRegion(p, base, size) <=>
         base <= p * PAGE_SIZE /\ p * PAGE_SIZE + PAGE_SIZE <= base + size
  BY <1>1, UpBounds, DownBounds DEF InitRegion
<1> DEFINE a == p * PAGE_SIZE
<1>3. a \in Nat
  OBVIOUS
<1> HIDE DEF a
<1>4. Bytes(a, PAGE_SIZE) \subseteq Bytes(base, size) <=> base <= a /\ a + PAGE_SIZE <= base + size
  <2>1. ASSUME Bytes(a, PAGE_SIZE) \subseteq Bytes(base, size)
        PROVE  base <= a /\ a + PAGE_SIZE <= base + size
    <3>1. a \in Bytes(a, PAGE_SIZE) /\ a + PAGE_SIZE - 1 \in Bytes(a, PAGE_SIZE)
      BY <1>3 DEF Bytes
    <3>2. a \in Bytes(base, size) /\ a + PAGE_SIZE - 1 \in Bytes(base, size)
      BY <2>1, <3>1
    <3>3. QED
      BY <1>3, <3>2 DEF Bytes
  <2>2. ASSUME base <= a, a + PAGE_SIZE <= base + size
        PROVE  Bytes(a, PAGE_SIZE) \subseteq Bytes(base, size)
    BY <1>3, <2>2 DEF Bytes
  <2>3. QED
    BY <2>1, <2>2
<1>5. QED
  BY <1>2, <1>4 DEF a

(* pmm_deinit_region takes exactly the pages that the region touches.      *)
LEMMA DeinitRegionExact ==
    ASSUME NEW base \in Nat, NEW size \in Nat \ {0}, NEW p \in Nat,
           base + size + PAGE_SIZE <= AddrMod
    PROVE  DeinitRegion(p, base, size) <=>
               Bytes(p * PAGE_SIZE, PAGE_SIZE) \cap Bytes(base, size) # {}
<1>1. (base + size) % AddrMod = base + size /\ base + size \in Nat
  OBVIOUS
<1>2. DeinitRegion(p, base, size) <=>
         base < p * PAGE_SIZE + PAGE_SIZE /\ p * PAGE_SIZE < base + size
  BY <1>1, UpBounds, DownBounds DEF DeinitRegion
<1> DEFINE a == p * PAGE_SIZE
<1>3. a \in Nat
  OBVIOUS
<1> HIDE DEF a
<1>4. Bytes(a, PAGE_SIZE) \cap Bytes(base, size) # {} <=> base < a + PAGE_SIZE /\ a < base + size
  <2>1. ASSUME NEW x \in Bytes(a, PAGE_SIZE) \cap Bytes(base, size)
        PROVE  base < a + PAGE_SIZE /\ a < base + size
    BY <1>3, <2>1 DEF Bytes
  <2>2. ASSUME base < a + PAGE_SIZE, a < base + size, base <= a
        PROVE  a \in Bytes(a, PAGE_SIZE) \cap Bytes(base, size)
    BY <1>3, <2>2 DEF Bytes
  <2>3. ASSUME base < a + PAGE_SIZE, a < base + size, base > a
        PROVE  base \in Bytes(a, PAGE_SIZE) \cap Bytes(base, size)
    BY <1>3, <2>3 DEF Bytes
  <2>4. QED
    BY <1>3, <2>1, <2>2, <2>3
<1>5. QED
  BY <1>2, <1>4 DEF a

(* What pmm_init takes out lies in the address space and is not empty.     *)
LEMMA ReservedTypes ==
    ASSUME NEW blocks \in 0 .. AddrMod \div PAGE_SIZE, NEW r \in Reserved(blocks)
    PROVE  r[1] \in Nat /\ r[2] \in Nat \ {0} /\ r[1] + r[2] + PAGE_SIZE <= AddrMod
<1>1. BitmapSize(blocks) \in Nat
  <2>1. blocks \in Nat
    OBVIOUS
  <2>2. (blocks + ByteBits - 1) \div ByteBits \in Nat
    BY <2>1, RegionsAssumption
  <2>3. \A k \in Nat : (k + PAGE_SIZE - 1) % AddrMod \in Nat
    OBVIOUS
  <2>4. QED
    BY <2>2, <2>3, DownBounds DEF BitmapSize, align_up
<1>2. KernelEnd + BitmapSize(blocks) + PAGE_SIZE <= AddrMod /\ KernelEnd \in Nat /\ LowMem < KernelEnd
  BY RegionsAssumption
<1>3. CASE r = <<0, LowMem>>
  BY <1>1, <1>2, <1>3, LowMemAssumption
<1>4. CASE r = <<LowMem, KernelEnd + BitmapSize(blocks) - LowMem>>
  BY <1>1, <1>2, <1>4, LowMemAssumption
<1>5. CASE r \in MbdRegions
  BY <1>5, RegionsAssumption
<1>6. QED
  BY <1>3, <1>4, <1>5 DEF Reserved

(* The end of available memory counts no more pages than there are         *)
(* addresses.                                                              *)
LEMMA BlocksBounded ==
    ASSUME NEW x \in Nat, x < AddrMod
    PROVE  Blocks(x) \in 0 .. AddrMod \div PAGE_SIZE
<1> DEFINE q == x \div PAGE_SIZE
<1>1. q \in Nat /\ q <= AddrMod \div PAGE_SIZE
  OBVIOUS
<1> HIDE DEF q
<1>2. (q * PAGE_SIZE) \div PAGE_SIZE = q
  BY <1>1
<1>3. Blocks(x) = q
  BY <1>2 DEF Blocks, align_down, q
<1>4. QED
  BY <1>1, <1>3

(* pmm_init leaves the usable pages free and no others, whatever the map.  *)
LEMMA InitUsable ==
    ASSUME IInv, PmmInit
    PROVE  FreePages' = UsablePages(mbd)'
<1>1. PICK x \in Ends(mbd) :
        /\ pmm_max_blocks' = Blocks(x)
        /\ pmm_bitmap' = [w \in 0 .. Words(Blocks(x)) - 1 |->
               {b \in Bits : ~StartsFree(w * WordBits + b, mbd, Blocks(x))}]
  BY DEF PmmInit
<1>2. mbd' = mbd /\ mbd \in MemoryMaps
  BY DEF PmmInit, IInv, TypeOK
<1>3. x \in Nat /\ x < AddrMod
  BY <1>2, MapsAssumption DEF Ends, End, Available
<1>4. Blocks(x) \in 0 .. AddrMod \div PAGE_SIZE /\ Blocks(x) \in Nat
  BY <1>3, BlocksBounded
<1> DEFINE blocks == Blocks(x)
<1> HIDE DEF blocks
<1>5. ASSUME NEW p \in 0 .. blocks - 1
      PROVE  /\ Bit(p) \notin pmm_bitmap'[Word(p)] <=> StartsFree(p, mbd, blocks)
             /\ p \in Nat
  <2>1. p \in Nat /\ Word(p) \in 0 .. Words(blocks) - 1 /\ Bit(p) \in Bits
        /\ p = Word(p) * WordBits + Bit(p)
    BY <1>4, <1>5, WordsCover, DivMod DEF blocks
  <2>2. pmm_bitmap'[Word(p)] = {b \in Bits : ~StartsFree(Word(p) * WordBits + b, mbd, blocks)}
    BY <1>1, <2>1 DEF blocks
  <2>3. QED
    BY <2>1, <2>2
<1>6. ASSUME NEW e \in Available(mbd), NEW p \in Nat
      PROVE  InitRegion(p, e.addr, e.len) <=>
                 Bytes(p * PAGE_SIZE, PAGE_SIZE) \subseteq Bytes(e.addr, e.len)
  <2>1. /\ e.addr \in Nat /\ e.len \in Nat
        /\ e.addr + PAGE_SIZE <= AddrMod /\ e.len < AddrMod
    BY <1>2, <1>6, MapsAssumption DEF Available
  <2>2. e.addr <= (e.addr + e.len) % AddrMod
    BY <1>6 DEF PmmInit, End
  <2>3. QED
    BY <2>1, <2>2, InitRegionExact
<1>7. ASSUME NEW r \in Reserved(blocks), NEW p \in Nat
      PROVE  ~DeinitRegion(p, r[1], r[2]) <=>
                 Bytes(p * PAGE_SIZE, PAGE_SIZE) \cap Bytes(r[1], r[2]) = {}
  <2>1. r[1] \in Nat /\ r[2] \in Nat \ {0} /\ r[1] + r[2] + PAGE_SIZE <= AddrMod
    BY <1>4, <1>7, ReservedTypes DEF blocks
  <2>2. QED
    BY <2>1, DeinitRegionExact
<1> DEFINE reserved == UNION {Bytes(r[1], r[2]) : r \in Reserved(blocks)}
<1>8. ASSUME NEW p \in Nat
      PROVE  (\A r \in Reserved(blocks) : ~DeinitRegion(p, r[1], r[2])) <=>
                 Bytes(p * PAGE_SIZE, PAGE_SIZE) \cap reserved = {}
  BY <1>7
<1>9. FreePages' = {p \in 0 .. blocks - 1 : StartsFree(p, mbd, blocks)}
  BY <1>1, <1>5 DEF FreePages, blocks
<1>10. UsablePages(mbd)' =
         {p \in 0 .. blocks - 1 :
             /\ \E e \in Available(mbd) :
                    Bytes(p * PAGE_SIZE, PAGE_SIZE) \subseteq Bytes(e.addr, e.len)
             /\ Bytes(p * PAGE_SIZE, PAGE_SIZE) \cap reserved = {}}
  BY <1>1, <1>2 DEF UsablePages, blocks
<1>11. ASSUME NEW p \in 0 .. blocks - 1
       PROVE  StartsFree(p, mbd, blocks) <=>
                 /\ \E e \in Available(mbd) :
                       Bytes(p * PAGE_SIZE, PAGE_SIZE) \subseteq Bytes(e.addr, e.len)
                 /\ Bytes(p * PAGE_SIZE, PAGE_SIZE) \cap reserved = {}
  <2>1. p \in Nat /\ p < blocks
    BY <1>4, <1>11 DEF blocks
  <2> HIDE DEF reserved
  <2>2. QED
    BY <1>6, <1>8, <2>1 DEF StartsFree
<1> HIDE DEF reserved
<1>12. QED
  BY <1>9, <1>10, <1>11

(* No page is lost and none is handed out twice: the free pages and those  *)
(* handed out are the usable memory, byte by byte of the memory map, after *)
(* any sequence of pmm_alloc_page and pmm_free_page, for every page size,  *)
(* word size and memory map of which no region begins or is taken out in   *)
(* the last page of the address space.                                     *)
THEOREM PagesAlwaysConserved == Spec => []PagesConserved
<1> DEFINE Inv == IInv /\ PagesConserved
<1>1. Init => Inv
  BY InitIInv DEF Init, PagesConserved
<1>2. Inv /\ [Next]_vars => Inv'
  <2> SUFFICES ASSUME IInv, PagesConserved, [Next]_vars, IInv' PROVE PagesConserved'
    BY NextIInv
  <2>1. CASE PmmInit
    <3>1. FreePages' = UsablePages(mbd)' /\ owned' = {}
      BY <2>1, InitUsable DEF PmmInit, IInv, TypeOK, PageInv
    <3>2. QED
      BY <3>1 DEF PagesConserved
  <2>2. ASSUME UNCHANGED <<mbd, phase, pmm_max_blocks>>, phase = "ready",
               NEW p \in FreePages, FreePages' = FreePages \ {p}, owned' = owned \cup {p}
        PROVE  PagesConserved'
    <3>1. UsablePages(mbd)' = UsablePages(mbd)
      BY <2>2 DEF UsablePages
    <3>2. QED
      BY <2>2, <3>1 DEF PagesConserved
  <2>3. ASSUME UNCHANGED <<mbd, phase, pmm_max_blocks>>, phase = "ready",
               NEW p \in owned, FreePages' = FreePages \cup {p}, owned' = owned \ {p}
        PROVE  PagesConserved'
    <3>1. UsablePages(mbd)' = UsablePages(mbd)
      BY <2>3 DEF UsablePages
    <3>2. QED
      BY <2>3, <3>1 DEF PagesConserved
  <2>4. ASSUME UNCHANGED <<mbd, pmm_max_blocks, pmm_bitmap, owned>>, phase' = "ready" => phase = "ready"
        PROVE  PagesConserved'
    <3>1. UsablePages(mbd)' = UsablePages(mbd) /\ FreePages' = FreePages
      BY <2>4 DEF UsablePages, FreePages
    <3>2. QED
      BY <2>4, <3>1 DEF PagesConserved
  <2>5. CASE PmmAlloc
    <3>1. ASSUME NEW w \in 0 .. Words(pmm_max_blocks) - 1, NEW b \in Bits,
                 LowestClear(w, b), TakePage(w, b), UNCHANGED <<mbd, phase, pmm_max_blocks>>
          PROVE  PagesConserved'
      <4>1. w * WordBits + b \in FreePages
        BY <3>1, FoundIsFree
      <4>2. FreePages' = FreePages \ {w * WordBits + b} /\ owned' = owned \cup {w * WordBits + b}
        BY <3>1, TakeRemoves DEF TakePage
      <4>3. QED
        BY <2>2, <2>5, <3>1, <4>1, <4>2 DEF PmmAlloc
    <3>2. QED
      BY <2>4, <2>5, <3>1 DEF PmmAlloc
  <2>6. ASSUME NEW p \in owned \cup {pmm_max_blocks}, PmmFree(p) PROVE PagesConserved'
    <3>1. CASE p \in owned
      <4>1. p \in 0 .. pmm_max_blocks - 1 /\ FreePages' = FreePages \cup {p}
        BY <2>6, <3>1, FreeAdds
      <4>2. owned' = owned \ {p} /\ UNCHANGED <<mbd, phase, pmm_max_blocks>> /\ phase = "ready"
        BY <2>6, <4>1 DEF PmmFree, IInv, TypeOK
      <4>3. QED
        BY <2>3, <3>1, <4>1, <4>2
    <3>2. CASE p = pmm_max_blocks
      BY <2>4, <2>6, <3>2 DEF PmmFree, IInv, TypeOK
    <3>3. QED
      BY <2>6, <3>1, <3>2
  <2>7. QED
    BY <2>1, <2>4, <2>5, <2>6 DEF Next, vars, PmmInitPanic
<1>3. QED
  BY <1>1, <1>2, PTL DEF Spec

-------------------------------------------------------------------------------
(* Refinement *)

(* The first free bit of the first word with one is the lowest free page. *)
LEMMA AllocIsLowest ==
    ASSUME IInv, NEW w \in 0 .. Words(pmm_max_blocks) - 1, NEW b \in Bits,
           LowestClear(w, b), TakePage(w, b), UNCHANGED pmm_max_blocks,
           \A v \in 0 .. w - 1 : pmm_bitmap[v] = Bits
    PROVE  Abstract!Alloc(w * WordBits + b)
<1> DEFINE g == w * WordBits + b
<1>1. w \in Nat /\ g \in Nat /\ g \in FreePages /\ FreePages' = FreePages \ {g}
  <2>1. w \in Nat
    BY PageParts
  <2>2. g \in FreePages
    BY FoundIsFree
  <2>3. FreePages' = FreePages \ {g}
    BY TakeRemoves
  <2>4. g \in Nat
    BY <2>1, DivUnique
  <2>5. QED
    BY <2>1, <2>2, <2>3, <2>4
<1>2. ASSUME NEW o \in FreePages PROVE g <= o
  <2>1. /\ o \in Nat /\ Word(o) \in Nat /\ Bit(o) \in Bits
        /\ o = Word(o) * WordBits + Bit(o)
    BY <1>2, PageParts DEF FreePages
  <2>2. Bit(o) \notin pmm_bitmap[Word(o)] /\ Word(o) >= w
    BY <1>1, <1>2, <2>1 DEF FreePages
  <2>3. CASE Word(o) = w
    BY <2>1, <2>2, <2>3 DEF LowestClear, Bits
  <2>4. CASE Word(o) > w
    <3>1. w * WordBits + WordBits <= Word(o) * WordBits
      BY <1>1, <2>1, <2>4, MulMono
    <3>2. QED
      BY <1>1, <2>1, <3>1 DEF Bits
  <2>5. QED
    BY <1>1, <2>1, <2>2, <2>3, <2>4
<1>3. g * PAGE_SIZE # NULL
  <2>1. g # 0
    BY <1>1 DEF IInv, PageInv
  <2>2. \A k \in Nat : k # 0 => k * PAGE_SIZE # 0
    OBVIOUS
  <2>3. QED
    BY <1>1, <2>1, <2>2 DEF NULL
<1>4. QED
  BY <1>1, <1>2, <1>3 DEF Abstract!Alloc, TakePage

LEMMA StepAbstract == IInv /\ IInv' /\ [Next]_vars => [Abstract!Next]_Abstract!vars
<1> SUFFICES ASSUME IInv, IInv', [Next]_vars PROVE [Abstract!Next]_Abstract!vars
  OBVIOUS
<1>1. ASSUME UNCHANGED <<pmm_max_blocks, pmm_bitmap, ret>> PROVE UNCHANGED Abstract!vars
  BY <1>1 DEF Abstract!vars, FreePages
<1>2. CASE UNCHANGED vars \/ PmmInitPanic
  BY <1>1, <1>2 DEF vars, PmmInitPanic
<1>3. CASE PmmInit
  <2>1. FreePages = {} /\ FreePages' \subseteq Nat /\ ret' = ret
    BY <1>3 DEF PmmInit, IInv, PageInv, FreePages, TypeOK
  <2>2. QED
    BY <2>1 DEF Abstract!Next, Abstract!Setup
<1>4. CASE PmmAlloc
  <2>1. CASE /\ FindsNothing(0) /\ ret' = NULL
             /\ UNCHANGED <<pmm_max_blocks, pmm_bitmap>>
    <3>1. FreePages = {} /\ FreePages' = FreePages
      BY <2>1, SearchIsLowest DEF FreePages
    <3>2. QED
      BY <2>1, <3>1 DEF Abstract!Next, Abstract!Fail
  <2>2. ASSUME NEW n \in {0, 1}, NEW w \in 0 .. Words(pmm_max_blocks) - 1, NEW b \in Bits,
               Finds(n, w), LowestClear(w, b), TakePage(w, b), UNCHANGED pmm_max_blocks
        PROVE  Abstract!Next
    <3>1. Abstract!Alloc(w * WordBits + b)
      BY <2>2, AllocIsLowest, SearchIsLowest
    <3>2. w * WordBits + b \in FreePages
      BY <2>2, FoundIsFree
    <3>3. QED
      BY <3>1, <3>2 DEF Abstract!Next
  <2>3. QED
    BY <1>4, <2>1, <2>2 DEF PmmAlloc
<1>5. ASSUME NEW p \in owned \cup {pmm_max_blocks}, PmmFree(p)
      PROVE  [Abstract!Next]_Abstract!vars
  <2>1. CASE p \in owned
    <3>1. FreePages' = FreePages \cup {p} /\ p \notin FreePages /\ ret' = ret
      BY <1>5, <2>1, FreeAdds DEF PmmFree, IInv, PageInv
    <3>2. QED
      BY <3>1 DEF Abstract!Next, Abstract!Release
  <2>2. CASE p = pmm_max_blocks
    BY <1>1, <1>5, <2>2 DEF PmmFree, IInv, TypeOK
  <2>3. QED
    BY <1>5, <2>1, <2>2
<1>6. QED
  BY <1>2, <1>3, <1>4, <1>5 DEF Next

(* pmm.c implements the lowest-free-page allocator: NULL means exhausted,  *)
(* and anything else is a page nobody else holds.                          *)
THEOREM Refinement == Spec => RefinesPageAllocator
<1>1. Init => Abstract!Init
  BY DEF Init, Abstract!Init, FreePages
<1>2. QED
  BY Invariance, <1>1, StepAbstract, PTL DEF Spec, RefinesPageAllocator, Abstract!Spec
===============================================================================
