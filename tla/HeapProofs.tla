------------------------------ MODULE HeapProofs ------------------------------
(***************************************************************************)
(* The heap invariants hold for every alignment, header size, memory map   *)
(* and set of requests.                                                    *)
(***************************************************************************)
EXTENDS Heap, TLAPS

USE SizeAssumption, NullAssumption, RequestAssumption

(* Rounding up loses nothing. *)
LEMMA RoundUpBounds ==
    ASSUME NEW n \in Nat
    PROVE  RoundUp(n) \in Nat /\ n <= RoundUp(n)
<1>1. (n + Align - 1) \in Nat
  OBVIOUS
<1>2. /\ (n + Align - 1) \div Align \in Nat
      /\ (n + Align - 1) % Align <= Align - 1
      /\ n + Align - 1 = ((n + Align - 1) \div Align) * Align + ((n + Align - 1) % Align)
  BY <1>1
<1>3. QED
  BY <1>2 DEF RoundUp

(* What the type invariant says of one block. *)
LEMMA BlockType ==
    ASSUME TypeOK, NEW b \in Blocks
    PROVE  /\ b \in Nat /\ hdr[b].size \in Nat /\ hdr[b].is_free \in BOOLEAN
           /\ hdr[b].next \in Blocks \cup {NULL}
           /\ hdr[b] = Header(hdr[b].size, hdr[b].is_free, hdr[b].next)
           /\ EndOf(b) \in Nat /\ b < EndOf(b) /\ EndOf(b) = b + header_size + hdr[b].size
BY DEF TypeOK, EndOf, data, Header

LEMMA InitIInv == Init => IInv
<1> SUFFICES ASSUME Init PROVE IInv
  OBVIOUS
<1>1. Blocks = {} /\ DOMAIN live = {}
  BY DEF Init, Blocks
<1>2. heap_limit \in Nat
  BY MbdAssumption DEF Init, init_heap, HeapStart
<1>3. HeapStart \in Nat
  BY DEF HeapStart
<1>4. QED
  BY <1>1, <1>2, <1>3 DEF Init, IInv, TypeOK, BlocksTile, LiveProtected, NothingLeaked,
     CursorInv, EndInv, Blocks

(* Two blocks do not share an end, and only the last one has no successor. *)
LEMMA EndsDiffer ==
    ASSUME TypeOK, BlocksTile, NEW a \in Blocks, NEW b \in Blocks, a # b
    PROVE  EndOf(a) # EndOf(b)
<1>1. CASE a < b
  BY <1>1, BlockType DEF BlocksTile
<1>2. CASE b < a
  BY <1>2, BlockType DEF BlocksTile
<1>3. QED
  BY <1>1, <1>2, BlockType

(* The list is empty exactly if the heap is. *)
LEMMA EmptyHeap ==
    ASSUME TypeOK, BlocksTile, EndInv
    PROVE  first_block = NULL => Blocks = {}
<1> SUFFICES ASSUME first_block = NULL, NEW b \in Blocks PROVE FALSE
  OBVIOUS
<1>1. heap_end = HeapStart
  BY DEF BlocksTile, HeapStart
<1>2. QED
  BY <1>1, BlockType DEF BlocksTile, EndInv, HeapStart

(* The cursor moves on to the next block: the block it leaves is the only    *)
(* one that becomes a block behind it.                                       *)
LEMMA Advance ==
    ASSUME TypeOK, BlocksTile, EndInv, current # NULL, NEW b \in Blocks,
           hdr[current].next = NULL \/ b < hdr[current].next
    PROVE  b = current \/ b < current
<1>1. current \in Blocks
  BY DEF TypeOK
<1>2. SUFFICES ASSUME current < b PROVE FALSE
  BY <1>1, BlockType
<1>3. EndOf(current) <= b /\ EndOf(b) <= heap_end
  BY <1>1, <1>2 DEF BlocksTile, EndInv
<1>4. QED
  BY <1>1, <1>3, BlockType DEF BlocksTile, TypeOK

(* malloc starts, moves on, or fails; free moves on or returns: the heap     *)
(* does not change.                                                          *)
LEMMA CursorStep ==
    IInv /\ (Malloc \/ SearchNext \/ GrowFails \/ SweepNext \/ FreeReturns \/ UNCHANGED vars)
        => IInv'
<1> SUFFICES ASSUME IInv,
                    Malloc \/ SearchNext \/ GrowFails \/ SweepNext \/ FreeReturns
                        \/ UNCHANGED vars
             PROVE  IInv'
  OBVIOUS
<1> USE DEF IInv
<1>1. UNCHANGED <<hdr, first_block, heap_end, heap_limit, live>>
  BY DEF Malloc, SearchNext, GrowFails, SweepNext, FreeReturns, vars, state
<1>2. BlocksTile' /\ LiveProtected' /\ NothingLeaked' /\ EndInv'
  BY <1>1 DEF BlocksTile, LiveProtected, NothingLeaked, EndInv, EndOf, data, from_data, Blocks
<1>3. Blocks' = Blocks
  BY <1>1 DEF Blocks
<1>4. \A b \in Blocks : CanMerge(b)' = CanMerge(b)
  BY <1>1 DEF CanMerge
<1>5. CASE Malloc
  <2>1. PICK n \in Requests : n # 0 /\ request' = n /\ size' = RoundUp(n)
    BY <1>5 DEF Malloc
  <2>2. request' \in Nat /\ size' \in Nat /\ request' <= size'
    BY <2>1, RoundUpBounds
  <2>3. TypeOK'
    BY <1>1, <1>3, <1>5, <2>2 DEF TypeOK, Malloc, Blocks
  <2>4. \A b \in Blocks : ~Passed(b)'
    <3> TAKE b \in Blocks
    <3>1. first_block # NULL
      BY EmptyHeap
    <3>2. first_block = HeapStart /\ HeapStart \in Nat /\ HeapStart <= b
      BY <3>1 DEF BlocksTile, HeapStart
    <3>3. QED
      BY <1>5, <3>2, BlockType DEF Passed, Malloc
  <2>5. CursorInv'
    BY <1>1, <1>3, <1>4, <1>5, <2>2, <2>4 DEF CursorInv, Malloc
  <2>6. QED
    BY <1>2, <2>3, <2>5
<1>6. CASE SearchNext
  <2>1. current \in Blocks /\ hdr[current].next \in Blocks \cup {NULL}
    BY <1>6, BlockType DEF TypeOK, SearchNext
  <2>2. TypeOK'
    BY <1>1, <1>3, <1>6, <2>1 DEF TypeOK, SearchNext, Blocks
  <2>3. \A b \in Blocks : Passed(b)' => ~Fits(b)'
    <3> SUFFICES ASSUME NEW b \in Blocks, Passed(b)' PROVE ~Fits(b)
      BY <1>1, <1>6 DEF Fits, SearchNext
    <3>1. b = current \/ b < current
      BY <1>6, Advance DEF Passed, SearchNext
    <3>2. QED
      BY <1>6, <3>1 DEF CursorInv, Passed, SearchNext
  <2>4. CursorInv'
    <3>1. last' # NULL /\ hdr'[last'].next = current'
      BY <1>1, <1>6 DEF SearchNext
    <3>2. QED
      BY <1>3, <1>4, <1>6, <2>3, <3>1 DEF CursorInv, SearchNext
  <2>5. QED
    BY <1>2, <2>2, <2>4
<1>7. CASE GrowFails
  BY <1>1, <1>2, <1>3, <1>4, <1>7 DEF GrowFails, TypeOK, CursorInv, Blocks
<1>8. CASE SweepNext
  <2>1. current \in Blocks /\ hdr[current].next \in Blocks \cup {NULL}
    BY <1>8, BlockType DEF TypeOK, SweepNext
  <2>2. TypeOK'
    BY <1>1, <1>3, <1>8, <2>1 DEF TypeOK, SweepNext, Blocks
  <2>3. \A b \in Blocks : Passed(b)' => ~CanMerge(b)
    <3> SUFFICES ASSUME NEW b \in Blocks, Passed(b)' PROVE ~CanMerge(b)
      OBVIOUS
    <3>1. b = current \/ b < current
      BY <1>8, Advance DEF Passed, SweepNext
    <3>2. QED
      BY <1>8, <3>1 DEF CursorInv, Passed, SweepNext
  <2>4. CursorInv'
    BY <1>3, <1>4, <1>8, <2>3 DEF CursorInv, SweepNext
  <2>5. QED
    BY <1>2, <2>2, <2>4
<1>9. CASE FreeReturns
  <2>1. \A b \in Blocks : ~CanMerge(b)
    BY <1>9 DEF CursorInv, Passed, FreeReturns
  <2>2. QED
    BY <1>1, <1>2, <1>3, <1>4, <1>9, <2>1 DEF FreeReturns, TypeOK, CursorInv, Blocks
<1>10. CASE UNCHANGED vars
  BY <1>1, <1>2, <1>10 DEF vars, TypeOK, CursorInv, Passed, Fits, CanMerge, Blocks
<1>11. QED
  BY <1>5, <1>6, <1>7, <1>8, <1>9, <1>10

(* free marks the block of a live pointer free and starts its sweep.         *)
LEMMA FreeStart == IInv /\ Free => IInv'
<1> SUFFICES ASSUME IInv, Free PROVE IInv'
  OBVIOUS
<1> USE DEF IInv
<1>1. PICK p \in DOMAIN live :
        /\ hdr' = [hdr EXCEPT ![from_data(p)].is_free = TRUE]
        /\ live' = [q \in DOMAIN live \ {p} |-> live[q]]
  BY DEF Free
<1> DEFINE f == from_data(p)
<1>2. f \in Blocks /\ p \in Nat /\ f = p - header_size
  BY DEF LiveProtected, TypeOK, from_data
<1>3. /\ Blocks' = Blocks
      /\ hdr'[f].size = hdr[f].size /\ hdr'[f].is_free = TRUE
      /\ hdr'[f].next = hdr[f].next
      /\ \A b \in Blocks : b # f => hdr'[b] = hdr[b]
  <2>1. /\ Blocks' = Blocks
        /\ hdr'[f] = [hdr[f] EXCEPT !.is_free = TRUE]
        /\ \A b \in Blocks : b # f => hdr'[b] = hdr[b]
    BY <1>1, <1>2 DEF Blocks
  <2>2. hdr[f] \in [size : Nat, is_free : BOOLEAN, next : Blocks \cup {NULL}]
    BY <1>2 DEF TypeOK
  <2>3. QED
    BY <2>1, <2>2
<1>4. \A b \in Blocks : hdr'[b].size = hdr[b].size /\ hdr'[b].next = hdr[b].next
  BY <1>3
<1>5. TypeOK'
  <2>1. hdr' \in [Blocks -> [size : Nat, is_free : BOOLEAN, next : Blocks \cup {NULL}]]
    BY <1>1, <1>2 DEF TypeOK
  <2>2. DOMAIN live' \subseteq Nat /\ live' \in [DOMAIN live' -> Nat]
    BY <1>1 DEF TypeOK
  <2>3. QED
    BY <1>3, <2>1, <2>2 DEF TypeOK, Free
<1>6. \A b \in Blocks : EndOf(b)' = EndOf(b)
  BY <1>4 DEF EndOf, data
<1>7. BlocksTile' /\ EndInv'
  BY <1>3, <1>4, <1>6 DEF BlocksTile, EndInv, Free
<1>8. LiveProtected'
  <2> SUFFICES ASSUME NEW q \in DOMAIN live, q # p
               PROVE  /\ from_data(q) \in Blocks
                      /\ ~hdr'[from_data(q)].is_free
                      /\ live'[q] <= hdr'[from_data(q)].size
                      /\ EndOf(from_data(q)) <= heap_limit
    BY <1>1, <1>3, <1>6 DEF LiveProtected, Free, from_data
  <2>1. from_data(q) # f
    BY DEF from_data, TypeOK
  <2>2. QED
    BY <1>1, <1>3, <2>1 DEF LiveProtected
<1>9. NothingLeaked'
  <2> SUFFICES ASSUME NEW b \in Blocks, ~hdr'[b].is_free
               PROVE  data(b) \in DOMAIN live'
    BY <1>3 DEF NothingLeaked, data
  <2>1. b # f
    BY <1>3
  <2>2. data(b) # p
    BY <1>2, <2>1, BlockType DEF data
  <2>3. QED
    BY <1>1, <1>3, <2>1, <2>2 DEF NothingLeaked
<1>10. CursorInv'
  <2>1. \A b \in Blocks : ~Passed(b)'
    <3> TAKE b \in Blocks
    <3>1. first_block = HeapStart /\ HeapStart \in Nat /\ HeapStart <= b
      BY EmptyHeap DEF BlocksTile, HeapStart
    <3>2. QED
      BY <3>1, BlockType DEF Passed, Free
  <2>2. QED
    BY <1>3, <2>1 DEF CursorInv, Free
<1>11. QED
  BY <1>5, <1>7, <1>8, <1>9, <1>10

(* One iteration of coalesce: the block at the cursor takes in its           *)
(* successor, which is free and hence in nobody's hands.                     *)
LEMMA CoalesceStep == IInv /\ Coalesce => IInv'
<1> SUFFICES ASSUME IInv, Coalesce PROVE IInv'
  OBVIOUS
<1> USE DEF IInv
<1>1. PICK c \in Blocks, n \in Blocks :
        /\ c = current /\ n = hdr[c].next /\ n = EndOf(c)
        /\ hdr[c].is_free /\ hdr[n].is_free
  BY BlockType DEF Coalesce, CanMerge, TypeOK, BlocksTile
<1>2. c < n /\ c \in Nat /\ n \in Nat /\ hdr[c].size \in Nat /\ hdr[n].size \in Nat
  BY <1>1, BlockType
<1>3. /\ Blocks' = Blocks \ {n}
      /\ hdr' = [a \in Blocks \ {n} |->
                    IF a = c THEN Header(hdr[c].size + header_size + hdr[n].size, TRUE,
                                         hdr[n].next)
                    ELSE hdr[a]]
  BY <1>1 DEF Coalesce, Absorb, Blocks
<1>4. c \in Blocks'
  BY <1>1, <1>2, <1>3
<1>5. /\ hdr'[c].size = hdr[c].size + header_size + hdr[n].size
      /\ hdr'[c].is_free = TRUE
      /\ hdr'[c].next = hdr[n].next
      /\ \A b \in Blocks' : b # c => hdr'[b] = hdr[b]
  BY <1>3, <1>4 DEF Header
<1>6. /\ EndOf(c)' = EndOf(n)
      /\ \A b \in Blocks' : b # c => EndOf(b)' = EndOf(b)
  <2>1. EndOf(n) = n + header_size + hdr[n].size /\ n = c + header_size + hdr[c].size
    BY <1>1, BlockType
  <2>2. EndOf(c)' = c + header_size + hdr'[c].size
    BY <1>2, <1>5 DEF EndOf, data
  <2>3. QED
    BY <1>2, <1>5, <2>1, <2>2 DEF EndOf, data
<1>7. \A b \in Blocks : hdr[b].next = n => b = c
  BY <1>1, <1>2, EndsDiffer, NullAssumption DEF BlocksTile
<1>8. hdr[n].next # n /\ hdr[n].next \in Blocks \cup {NULL}
  BY <1>1, <1>2, <1>7, BlockType
<1>9. TypeOK'
  <2>1. \A b \in Blocks' : hdr'[b] \in [size : Nat, is_free : BOOLEAN,
                                        next : Blocks' \cup {NULL}]
    <3> TAKE b \in Blocks'
    <3>1. CASE b = c
      BY <1>2, <1>3, <1>8, <3>1 DEF Header
    <3>2. CASE b # c
      <4>1. hdr[b].next # n
        BY <1>3, <1>7, <3>2
      <4>2. hdr[b] \in [size : Nat, is_free : BOOLEAN, next : Blocks \cup {NULL}]
        BY <1>3 DEF TypeOK
      <4>3. hdr[b] \in [size : Nat, is_free : BOOLEAN, next : Blocks' \cup {NULL}]
        BY <1>3, <4>1, <4>2
      <4>4. QED
        BY <1>5, <3>2, <4>3
    <3>3. QED
      BY <3>1, <3>2
  <2>2. hdr' \in [Blocks' -> [size : Nat, is_free : BOOLEAN, next : Blocks' \cup {NULL}]]
    BY <1>3, <2>1
  <2>3. first_block # n
    BY <1>1, <1>2 DEF BlocksTile, HeapStart
  <2>4. last = NULL
    BY DEF Coalesce, CursorInv
  <2>5. QED
    BY <1>1, <1>3, <1>4, <2>2, <2>3, <2>4 DEF TypeOK, Coalesce
<1>10. BlocksTile'
  <2>1. \A b \in Blocks' :
            /\ HeapStart <= b
            /\ IF hdr'[b].next = NULL THEN EndOf(b)' = heap_end
                                      ELSE EndOf(b)' = hdr'[b].next
    <3> TAKE b \in Blocks'
    <3>1. CASE b = c
      BY <1>1, <1>5, <1>6, <3>1 DEF BlocksTile
    <3>2. CASE b # c
      <4>1. b \in Blocks /\ hdr'[b] = hdr[b] /\ EndOf(b)' = EndOf(b)
        BY <1>3, <1>5, <1>6, <3>2
      <4>2. QED
        BY <4>1 DEF BlocksTile
    <3>3. QED
      BY <3>1, <3>2
  <2>2. \A a, b \in Blocks' : a < b => EndOf(a)' <= b
    <3> SUFFICES ASSUME NEW a \in Blocks', NEW b \in Blocks', a < b PROVE EndOf(a)' <= b
      OBVIOUS
    <3>1. CASE a # c
      BY <1>3, <1>6, <3>1 DEF BlocksTile
    <3>2. CASE a = c
      <4>1. n <= b /\ n # b
        BY <1>1, <1>3, <3>2 DEF BlocksTile
      <4>2. b \in Nat
        BY <1>3, BlockType
      <4>3. n < b
        BY <1>2, <4>1, <4>2
      <4>4. EndOf(n) <= b
        BY <1>1, <1>3, <4>3 DEF BlocksTile
      <4>5. QED
        BY <1>6, <3>2, <4>4
    <3>3. QED
      BY <3>1, <3>2
  <2>3. QED
    BY <2>1, <2>2 DEF BlocksTile, Coalesce
<1>11. EndInv'
  BY <1>1, <1>3, <1>6 DEF EndInv, Coalesce
<1>12. LiveProtected' /\ NothingLeaked'
  <2>1. \A p \in DOMAIN live : from_data(p) \in Blocks' /\ from_data(p) # c
    BY <1>1, <1>3 DEF LiveProtected
  <2>2. LiveProtected'
    BY <1>5, <1>6, <2>1 DEF LiveProtected, Coalesce, from_data
  <2>3. NothingLeaked'
    BY <1>3, <1>5 DEF NothingLeaked, Coalesce, data
  <2>4. QED
    BY <2>2, <2>3
<1>13. CursorInv'
  <2>1. \A b \in Blocks' : Passed(b)' => ~CanMerge(b)'
    <3> SUFFICES ASSUME NEW b \in Blocks', Passed(b)', CanMerge(b)' PROVE FALSE
      OBVIOUS
    <3>1. b < c /\ b # c /\ b \in Blocks
      BY <1>1, <1>2, <1>3, BlockType DEF Passed, Coalesce
    <3>2. hdr'[b] = hdr[b] /\ hdr[b].next \in Blocks'
      BY <1>5, <1>9, <3>1 DEF CanMerge, TypeOK
    <3>3. hdr[hdr[b].next].is_free
      <4>1. CASE hdr[b].next = c
        BY <1>1, <4>1
      <4>2. CASE hdr[b].next # c
        BY <1>5, <3>2, <4>2 DEF CanMerge
      <4>3. QED
        BY <4>1, <4>2
    <3>4. CanMerge(b)
      BY <3>2, <3>3 DEF CanMerge
    <3>5. ~CanMerge(b)
      BY <1>1, <3>1 DEF CursorInv, Passed, Coalesce
    <3>6. QED
      BY <3>4, <3>5
  <2>2. QED
    BY <2>1 DEF CursorInv, Coalesce
<1>14. QED
  BY <1>9, <1>10, <1>11, <1>12, <1>13

(* malloc takes a block whole: only its flag changes.                        *)
LEMMA TakeWhole ==
    ASSUME IInv, SearchHit, hdr' = Take(current)
    PROVE  IInv'
<1> USE DEF IInv
<1>1. PICK c \in Blocks : c = current /\ hdr[c].is_free /\ hdr[c].size >= size
  BY DEF SearchHit, TypeOK, Fits
<1>2. /\ Blocks' = Blocks
      /\ hdr'[c].size = hdr[c].size /\ hdr'[c].is_free = FALSE
      /\ hdr'[c].next = hdr[c].next
      /\ \A b \in Blocks : b # c => hdr'[b] = hdr[b]
  <2>1. /\ Blocks' = Blocks
        /\ hdr'[c] = [hdr[c] EXCEPT !.is_free = FALSE]
        /\ \A b \in Blocks : b # c => hdr'[b] = hdr[b]
    BY <1>1 DEF Blocks, Take
  <2>2. hdr[c] \in [size : Nat, is_free : BOOLEAN, next : Blocks \cup {NULL}]
    BY DEF TypeOK
  <2>3. QED
    BY <2>1, <2>2
<1>3. \A b \in Blocks : hdr'[b].size = hdr[b].size /\ hdr'[b].next = hdr[b].next
  BY <1>2
<1>4. \A b \in Blocks : EndOf(b)' = EndOf(b)
  BY <1>3 DEF EndOf, data
<1>5. /\ DOMAIN live' = DOMAIN live \cup {data(c)}
      /\ live'[data(c)] = request
      /\ \A p \in DOMAIN live : p # data(c) => live'[p] = live[p]
      /\ c \in Nat /\ data(c) \in Nat /\ from_data(data(c)) = c
      /\ c \in Blocks /\ request <= size
  BY <1>1, BlockType DEF SearchHit, HandOut, CursorInv, data, from_data
<1>6. TypeOK'
  <2>1. hdr' \in [Blocks -> [size : Nat, is_free : BOOLEAN, next : Blocks \cup {NULL}]]
    <3> DEFINE R == [size : Nat, is_free : BOOLEAN, next : Blocks \cup {NULL}]
    <3>1. hdr \in [Blocks -> R] /\ hdr[c] \in R
      BY DEF TypeOK
    <3>2. [hdr[c] EXCEPT !.is_free = FALSE] \in R
      BY <3>1
    <3> HIDE DEF R
    <3>3. hdr' \in [Blocks -> R]
      BY <1>1, <3>1, <3>2 DEF Take
    <3>4. QED
      BY <3>3 DEF R
  <2>2. DOMAIN live' \subseteq Nat /\ live' \in [DOMAIN live' -> Nat]
    BY <1>1, <1>5 DEF TypeOK, SearchHit, HandOut
  <2>3. QED
    BY <1>2, <2>1, <2>2 DEF TypeOK, SearchHit, HandOut
<1>7. BlocksTile' /\ EndInv'
  BY <1>2, <1>3, <1>4 DEF BlocksTile, EndInv, SearchHit
<1>8. LiveProtected'
  <2> SUFFICES ASSUME NEW p \in DOMAIN live'
               PROVE  /\ from_data(p) \in Blocks
                      /\ ~hdr'[from_data(p)].is_free
                      /\ live'[p] <= hdr'[from_data(p)].size
                      /\ EndOf(from_data(p)) <= heap_limit
    BY <1>2, <1>4 DEF LiveProtected, SearchHit, from_data
  <2>1. CASE p = data(c)
    BY <1>1, <1>2, <1>5, <2>1, BlockType DEF EndInv, TypeOK
  <2>2. CASE p # data(c)
    BY <1>1, <1>2, <1>5, <2>2 DEF LiveProtected
  <2>3. QED
    BY <2>1, <2>2
<1>9. NothingLeaked'
  BY <1>2, <1>5 DEF NothingLeaked, data
<1>10. CursorInv'
  <2>1. \A b \in Blocks : ~CanMerge(b)'
    <3> SUFFICES ASSUME NEW b \in Blocks, CanMerge(b)' PROVE FALSE
      OBVIOUS
    <3>1. b # c /\ hdr'[b] = hdr[b] /\ hdr[b].next \in Blocks
      BY <1>2, BlockType DEF CanMerge
    <3>2. hdr[b].next # c
      BY <1>2, <3>1 DEF CanMerge
    <3>3. CanMerge(b)
      BY <1>2, <3>1, <3>2 DEF CanMerge
    <3>4. QED
      BY <3>3 DEF CursorInv, SearchHit
  <2>2. QED
    BY <1>2, <2>1 DEF CursorInv, SearchHit, HandOut
<1>11. QED
  BY <1>6, <1>7, <1>8, <1>9, <1>10

(* malloc takes the front of a block; the rest becomes a free block.         *)
LEMMA TakeFront ==
    ASSUME IInv, SearchHit, hdr[current].size >= size + header_size + MinSplit,
           hdr' = Split(current, size, hdr[current].size - size - header_size)
    PROVE  IInv'
<1> USE DEF IInv
<1>1. PICK c \in Blocks : c = current /\ hdr[c].is_free
  BY DEF SearchHit, TypeOK, Fits
<1>2. c \in Nat /\ hdr[c].size \in Nat /\ size \in Nat /\ hdr[c].next \in Blocks \cup {NULL}
  BY BlockType DEF TypeOK
<1>3. PICK m \in Nat : m = data(c) + size
  BY <1>2 DEF data
<1>4. PICK rest \in Nat : rest = hdr[c].size - size - header_size
  BY <1>1, <1>2
<1>5. /\ c < m /\ m < EndOf(c) /\ EndOf(c) = m + header_size + rest
      /\ EndOf(c) \in Nat
  BY <1>2, <1>3, <1>4, BlockType DEF data
<1>6. m \notin Blocks
  BY <1>2, <1>5 DEF BlocksTile
<1>7. /\ Blocks' = Blocks \cup {m}
      /\ hdr' = [a \in Blocks \cup {m} |->
                    IF a = m THEN Header(rest, TRUE, hdr[c].next)
                    ELSE IF a = c THEN Header(size, FALSE, m)
                    ELSE hdr[a]]
  BY <1>1, <1>3, <1>4 DEF Split, Blocks
<1>8. /\ hdr'[m].size = rest /\ hdr'[m].is_free = TRUE /\ hdr'[m].next = hdr[c].next
      /\ hdr'[c].size = size /\ hdr'[c].is_free = FALSE /\ hdr'[c].next = m
      /\ \A b \in Blocks : b # c => hdr'[b] = hdr[b]
  BY <1>5, <1>6, <1>7 DEF Header
<1>9. /\ EndOf(m)' = EndOf(c) /\ EndOf(c)' = m
      /\ \A b \in Blocks : b # c => EndOf(b)' = EndOf(b)
  BY <1>2, <1>3, <1>5, <1>8 DEF EndOf, data
<1>10. /\ DOMAIN live' = DOMAIN live \cup {data(c)}
       /\ live'[data(c)] = request
       /\ \A p \in DOMAIN live : p # data(c) => live'[p] = live[p]
       /\ data(c) \in Nat /\ from_data(data(c)) = c
       /\ request <= size
  BY <1>1, <1>2 DEF SearchHit, HandOut, CursorInv, data, from_data
<1>11. TypeOK'
  <2>1. \A b \in Blocks' : hdr'[b] \in [size : Nat, is_free : BOOLEAN,
                                        next : Blocks' \cup {NULL}]
    <3> TAKE b \in Blocks'
    <3> DEFINE N == Blocks' \cup {NULL}
    <3>0. hdr[c].next \in N /\ m \in N
      BY <1>2, <1>7
    <3>1. CASE b = m
      <4> HIDE DEF N
      <4>1. Header(rest, TRUE, hdr[c].next) \in [size : Nat, is_free : BOOLEAN, next : N]
        BY <3>0 DEF Header
      <4>2. QED
        BY <1>7, <3>1, <4>1 DEF N
    <3>2. CASE b = c
      <4> HIDE DEF N
      <4>1. Header(size, FALSE, m) \in [size : Nat, is_free : BOOLEAN, next : N]
        BY <1>2, <3>0 DEF Header
      <4>2. QED
        BY <1>5, <1>6, <1>7, <3>2, <4>1 DEF N
    <3>3. CASE b # m /\ b # c
      <4>1. hdr[b] \in [size : Nat, is_free : BOOLEAN, next : Blocks \cup {NULL}]
        BY <1>7, <3>3 DEF TypeOK
      <4>2. hdr[b] \in [size : Nat, is_free : BOOLEAN, next : Blocks' \cup {NULL}]
        BY <1>7, <4>1
      <4>3. QED
        BY <1>7, <1>8, <3>3, <4>2
    <3>4. QED
      BY <3>1, <3>2, <3>3
  <2>2. hdr' \in [Blocks' -> [size : Nat, is_free : BOOLEAN, next : Blocks' \cup {NULL}]]
    BY <1>7, <2>1
  <2>3. DOMAIN live' \subseteq Nat /\ live' \in [DOMAIN live' -> Nat]
    BY <1>1, <1>10 DEF TypeOK, SearchHit, HandOut
  <2>4. QED
    BY <1>7, <2>2, <2>3 DEF TypeOK, SearchHit, HandOut
<1>12. BlocksTile'
  <2>1. \A b \in Blocks' :
            /\ HeapStart <= b
            /\ IF hdr'[b].next = NULL THEN EndOf(b)' = heap_end
                                      ELSE EndOf(b)' = hdr'[b].next
    <3> TAKE b \in Blocks'
    <3>1. CASE b = m
      BY <1>2, <1>5, <1>8, <1>9, <3>1 DEF BlocksTile, HeapStart
    <3>2. CASE b = c
      BY <1>3, <1>8, <1>9, <3>2, NullAssumption DEF BlocksTile
    <3>3. CASE b # m /\ b # c
      BY <1>7, <1>8, <1>9, <3>3 DEF BlocksTile
    <3>4. QED
      BY <3>1, <3>2, <3>3
  <2>2. \A a, b \in Blocks' : a < b => EndOf(a)' <= b
    <3> SUFFICES ASSUME NEW a \in Blocks', NEW b \in Blocks', a < b PROVE EndOf(a)' <= b
      OBVIOUS
    <3>1. a \in Nat /\ b \in Nat /\ (a # m => a \in Blocks) /\ (b # m => b \in Blocks)
      BY <1>7, BlockType
    <3>2. CASE a = m
      <4>1. b \in Blocks /\ c < b
        BY <1>2, <1>5, <3>1, <3>2
      <4>2. QED
        BY <1>9, <3>2, <4>1 DEF BlocksTile
    <3>3. CASE a = c
      <4>1. CASE b = m
        BY <1>9, <3>3, <4>1
      <4>2. CASE b # m
        <5>1. EndOf(c) <= b
          BY <3>1, <3>3, <4>2 DEF BlocksTile
        <5>2. QED
          BY <1>5, <1>9, <3>1, <3>3, <5>1
      <4>3. QED
        BY <4>1, <4>2
    <3>4. CASE a # m /\ a # c
      <4>1. CASE b # m
        BY <1>9, <3>1, <3>4, <4>1 DEF BlocksTile
      <4>2. CASE b = m
        <5>1. a < c
          <6>1. ~(c < a)
            BY <1>5, <3>1, <3>4, <4>2 DEF BlocksTile
          <6>2. QED
            BY <1>2, <3>1, <3>4, <6>1
        <5>2. EndOf(a) <= c /\ EndOf(a) \in Nat
          BY <3>1, <3>4, <5>1, BlockType DEF BlocksTile
        <5>3. QED
          BY <1>2, <1>5, <1>9, <3>1, <3>4, <4>2, <5>2
      <4>3. QED
        BY <4>1, <4>2
    <3>5. QED
      BY <3>2, <3>3, <3>4
  <2>3. QED
    BY <2>1, <2>2 DEF BlocksTile, SearchHit
<1>13. EndInv'
  <2>1. EndOf(c) <= heap_end /\ heap_end \in Nat /\ heap_end <= heap_limit
    BY DEF EndInv, TypeOK
  <2>2. \A b \in Blocks' : EndOf(b)' <= heap_end
    <3> TAKE b \in Blocks'
    <3>1. CASE b = m
      BY <1>9, <2>1, <3>1
    <3>2. CASE b = c
      BY <1>5, <1>9, <2>1, <3>2
    <3>3. CASE b # m /\ b # c
      BY <1>7, <1>9, <3>3 DEF EndInv
    <3>4. QED
      BY <3>1, <3>2, <3>3
  <2>3. QED
    BY <2>1, <2>2 DEF EndInv, SearchHit
<1>14. LiveProtected'
  <2> SUFFICES ASSUME NEW p \in DOMAIN live'
               PROVE  /\ from_data(p) \in Blocks'
                      /\ ~hdr'[from_data(p)].is_free
                      /\ live'[p] <= hdr'[from_data(p)].size
                      /\ EndOf(from_data(p))' <= heap_limit
    BY DEF LiveProtected, SearchHit, from_data
  <2>1. CASE p = data(c)
    <3>1. EndOf(c)' <= heap_limit
      BY <1>5, <1>9 DEF EndInv, TypeOK
    <3>2. from_data(p)' = from_data(p)
      BY DEF from_data
    <3>3. QED
      BY <1>7, <1>8, <1>10, <2>1, <3>1 DEF EndOf, data
  <2>2. CASE p # data(c)
    <3>1. p \in DOMAIN live /\ live'[p] = live[p]
      BY <1>10, <2>2
    <3>2. from_data(p) \in Blocks /\ from_data(p) # c
      BY <1>1, <3>1 DEF LiveProtected
    <3>3. QED
      BY <1>7, <1>8, <1>9, <3>1, <3>2 DEF LiveProtected
  <2>3. QED
    BY <2>1, <2>2
<1>15. NothingLeaked'
  BY <1>7, <1>8, <1>10 DEF NothingLeaked, data
<1>16. CursorInv'
  <2>1. \A b \in Blocks' : ~CanMerge(b)'
    <3> SUFFICES ASSUME NEW b \in Blocks', CanMerge(b)' PROVE FALSE
      OBVIOUS
    <3>1. CASE b = m
      <4>1. hdr[c].next # NULL /\ hdr'[hdr[c].next].is_free
        BY <1>8, <3>1 DEF CanMerge
      <4>2. hdr[c].next \in Blocks /\ hdr[c].next # c
        BY <1>2, <1>8, <4>1
      <4>3. CanMerge(c)
        BY <1>1, <1>8, <4>1, <4>2 DEF CanMerge
      <4>4. QED
        BY <4>3 DEF CursorInv, SearchHit
    <3>2. CASE b # m
      <4>1. b \in Blocks /\ b # c /\ hdr'[b] = hdr[b]
        BY <1>7, <1>8, <3>2 DEF CanMerge
      <4>2. hdr[b].next \in Blocks /\ hdr[b].next # c /\ hdr[b].is_free
        BY <1>8, <4>1, BlockType DEF CanMerge
      <4>3. CanMerge(b)
        BY <1>8, <4>1, <4>2 DEF CanMerge
      <4>4. QED
        BY <4>1, <4>3 DEF CursorInv, SearchHit
    <3>3. QED
      BY <3>1, <3>2
  <2>2. QED
    BY <2>1 DEF CursorInv, SearchHit, HandOut
<1>17. QED
  BY <1>11, <1>12, <1>13, <1>14, <1>15, <1>16

LEMMA HitStep == IInv /\ SearchHit => IInv'
BY TakeWhole, TakeFront DEF SearchHit, SplitAndTake

(* malloc adds a block at heap_end, behind the last one.                     *)
LEMMA GrowStep == IInv /\ Grow => IInv'
<1> SUFFICES ASSUME IInv, Grow PROVE IInv'
  OBVIOUS
<1> USE DEF IInv
<1>1. PICK e \in Nat : e = heap_end
  BY DEF TypeOK
<1>2. size \in Nat /\ heap_end' = e + header_size + size /\ heap_end' \in Nat /\ e < heap_end'
  BY <1>1 DEF TypeOK, Grow
<1>3. /\ \A b \in Blocks : b \in Nat /\ b < e /\ EndOf(b) <= e /\ EndOf(b) \in Nat
      /\ e \notin Blocks
  BY <1>1, BlockType DEF EndInv
<1>4. /\ Blocks' = Blocks \cup {e}
      /\ hdr' = [b \in Blocks \cup {e} |->
                    IF b = e THEN Header(size, FALSE, NULL)
                    ELSE IF b = last THEN [hdr[b] EXCEPT !.next = e]
                    ELSE hdr[b]]
  BY <1>1 DEF Grow, Blocks
<1>5. /\ hdr'[e].size = size /\ hdr'[e].is_free = FALSE /\ hdr'[e].next = NULL
      /\ hdr'[e] = Header(size, FALSE, NULL)
  BY <1>4 DEF Header
<1>6. \A b \in Blocks : b # last => hdr'[b] = hdr[b]
  BY <1>3, <1>4
<1>7. last \in Blocks =>
        /\ hdr'[last].size = hdr[last].size /\ hdr'[last].is_free = hdr[last].is_free
        /\ hdr'[last].next = e
        /\ hdr'[last] \in [size : Nat, is_free : BOOLEAN, next : {e}]
  <2>1. last \in Blocks => hdr'[last] = [hdr[last] EXCEPT !.next = e]
    BY <1>3, <1>4
  <2>2. last \in Blocks =>
          hdr[last] \in [size : Nat, is_free : BOOLEAN, next : Blocks \cup {NULL}]
    BY DEF TypeOK
  <2>3. QED
    BY <2>1, <2>2
<1>8. \A b \in Blocks : hdr'[b].size = hdr[b].size /\ hdr'[b].is_free = hdr[b].is_free
  BY <1>6, <1>7
<1>9. \A b \in Blocks : EndOf(b)' = EndOf(b)
  BY <1>8 DEF EndOf, data
<1>10. EndOf(e)' = heap_end'
  BY <1>2, <1>5 DEF EndOf, data
<1>11. /\ last = NULL => Blocks = {}
       /\ last # NULL => last \in Blocks /\ hdr[last].next = NULL /\ EndOf(last) = e
  BY <1>1, EmptyHeap DEF Grow, CursorInv, TypeOK, BlocksTile
<1>12. \A b \in Blocks : hdr[b].next = NULL => b = last
  BY <1>1, <1>11, EndsDiffer DEF BlocksTile
<1>13. /\ DOMAIN live' = DOMAIN live \cup {data(e)}
       /\ live' = [p \in DOMAIN live \cup {data(e)} |->
                      IF p = data(e) THEN request ELSE live[p]]
       /\ data(e) \in Nat /\ from_data(data(e)) = e
       /\ request <= size /\ request \in Nat
  BY <1>1 DEF Grow, HandOut, CursorInv, data, from_data, TypeOK
<1>14. TypeOK'
  <2>1. \A b \in Blocks' : hdr'[b] \in [size : Nat, is_free : BOOLEAN,
                                        next : Blocks' \cup {NULL}]
    <3> TAKE b \in Blocks'
    <3> DEFINE N == Blocks' \cup {NULL}
    <3>0. NULL \in N /\ e \in N /\ Blocks \cup {NULL} \subseteq N
      BY <1>4
    <3> HIDE DEF N
    <3>1. CASE b = e
      <4>1. Header(size, FALSE, NULL) \in [size : Nat, is_free : BOOLEAN, next : N]
        BY <1>2, <3>0 DEF Header
      <4>2. QED
        BY <1>5, <3>1, <4>1 DEF N
    <3>2. CASE b \in Blocks /\ b = last
      BY <1>7, <3>0, <3>2 DEF N
    <3>3. CASE b \in Blocks /\ b # last
      <4>1. hdr[b] \in [size : Nat, is_free : BOOLEAN, next : Blocks \cup {NULL}]
        BY <3>3 DEF TypeOK
      <4>2. hdr[b] \in [size : Nat, is_free : BOOLEAN, next : N]
        BY <3>0, <4>1
      <4>3. QED
        BY <1>6, <3>3, <4>2 DEF N
    <3>4. QED
      BY <1>4, <3>1, <3>2, <3>3
  <2>2. hdr' \in [Blocks' -> [size : Nat, is_free : BOOLEAN, next : Blocks' \cup {NULL}]]
    BY <1>4, <2>1
  <2>3. live' \in [DOMAIN live' -> Nat] /\ DOMAIN live' \subseteq Nat
    BY <1>13 DEF TypeOK
  <2>4. Blocks' \subseteq Nat /\ first_block' \in Blocks' \cup {NULL}
    BY <1>1, <1>3, <1>4 DEF TypeOK, Grow
  <2>5. QED
    BY <1>2, <2>2, <2>3, <2>4 DEF TypeOK, Grow, HandOut
<1>15. BlocksTile'
  <2>1. first_block' = IF heap_end' = HeapStart THEN NULL ELSE HeapStart
    <3>1. heap_end' # HeapStart
      BY <1>1, <1>2 DEF EndInv, HeapStart
    <3>2. first_block' = HeapStart
      BY <1>1, NullAssumption DEF Grow, BlocksTile, HeapStart
    <3>3. QED
      BY <3>1, <3>2
  <2>2. \A b \in Blocks' :
            /\ HeapStart <= b
            /\ IF hdr'[b].next = NULL THEN EndOf(b)' = heap_end'
                                      ELSE EndOf(b)' = hdr'[b].next
    <3> TAKE b \in Blocks'
    <3>1. CASE b = e
      BY <1>1, <1>5, <1>10, <3>1 DEF EndInv
    <3>2. CASE b \in Blocks /\ b = last
      BY <1>7, <1>9, <1>11, <3>2, NullAssumption DEF BlocksTile
    <3>3. CASE b \in Blocks /\ b # last
      BY <1>6, <1>9, <1>12, <3>3 DEF BlocksTile
    <3>4. QED
      BY <1>4, <3>1, <3>2, <3>3
  <2>3. \A a, b \in Blocks' : a < b => EndOf(a)' <= b
    <3> SUFFICES ASSUME NEW a \in Blocks', NEW b \in Blocks', a < b PROVE EndOf(a)' <= b
      OBVIOUS
    <3>1. CASE a = e
      BY <1>3, <1>4, <3>1
    <3>2. CASE a \in Blocks /\ b = e
      BY <1>3, <1>9, <3>2
    <3>3. CASE a \in Blocks /\ b \in Blocks
      BY <1>9, <3>3 DEF BlocksTile
    <3>4. QED
      BY <1>4, <3>1, <3>2, <3>3
  <2>4. QED
    BY <2>1, <2>2, <2>3 DEF BlocksTile, HeapStart
<1>16. EndInv'
  <2>1. HeapStart <= heap_end'
    BY <1>1, <1>2 DEF EndInv, HeapStart
  <2>2. \A b \in Blocks' : EndOf(b)' <= heap_end'
    BY <1>2, <1>3, <1>4, <1>9, <1>10
  <2>3. heap_end' <= heap_limit'
    BY <1>1, <1>2 DEF Grow, SbrkAllows, TypeOK
  <2>4. QED
    BY <2>1, <2>2, <2>3 DEF EndInv, HeapStart
<1>17. LiveProtected'
  <2> SUFFICES ASSUME NEW p \in DOMAIN live'
               PROVE  /\ from_data(p) \in Blocks'
                      /\ ~hdr'[from_data(p)].is_free
                      /\ live'[p] <= hdr'[from_data(p)].size
                      /\ EndOf(from_data(p))' <= heap_limit
    BY DEF LiveProtected, Grow, from_data
  <2>1. CASE p = data(e)
    <3>1. from_data(p) = e /\ EndOf(from_data(p))' = EndOf(e)'
      BY <1>13, <2>1 DEF EndOf, data, from_data
    <3>2. EndOf(e)' <= heap_limit
      BY <1>1, <1>2, <1>10 DEF Grow, SbrkAllows, TypeOK
    <3>3. live'[p] = request
      BY <1>13, <2>1
    <3>4. QED
      BY <1>4, <1>5, <1>13, <3>1, <3>2, <3>3
  <2>2. CASE p # data(e)
    <3>1. p \in DOMAIN live /\ live'[p] = live[p]
      BY <1>13, <2>2
    <3>2. from_data(p) \in Blocks
      BY <3>1 DEF LiveProtected
    <3>3. QED
      BY <1>4, <1>8, <1>9, <3>1, <3>2 DEF LiveProtected
  <2>3. QED
    BY <2>1, <2>2
<1>18. NothingLeaked'
  BY <1>4, <1>8, <1>13 DEF NothingLeaked, data
<1>19. CursorInv'
  <2>1. \A b \in Blocks' : ~CanMerge(b)'
    <3> SUFFICES ASSUME NEW b \in Blocks', CanMerge(b)' PROVE FALSE
      OBVIOUS
    <3>1. b \in Blocks /\ b # last
      BY <1>4, <1>5, <1>7 DEF CanMerge
    <3>2. hdr'[b] = hdr[b] /\ hdr[b].next \in Blocks
      BY <1>6, <1>12, <3>1, BlockType
    <3>3. CanMerge(b)
      BY <1>8, <3>2 DEF CanMerge
    <3>4. QED
      BY <3>1, <3>3 DEF CursorInv, Grow
  <2>2. QED
    BY <2>1 DEF CursorInv, Grow, HandOut
<1>20. QED
  BY <1>14, <1>15, <1>16, <1>17, <1>18, <1>19

-------------------------------------------------------------------------------
(* Every step of malloc and free preserves the invariant.                    *)
THEOREM Invariance == SafetySpec => []IInv
<1>1. IInv /\ [Next]_vars => IInv'
  BY CursorStep, FreeStart, CoalesceStep, HitStep, GrowStep
  DEF Next, MallocStep, FreeStep
<1>2. QED
  BY InitIInv, <1>1, PTL DEF SafetySpec

(* The cursors of malloc and free are blocks on the list or NULL: neither  *)
(* follows a pointer into a block that has been merged away.               *)
THEOREM TypeCorrect == SafetySpec => []TypeOK
<1>1. IInv => TypeOK
  BY DEF IInv
<1>2. QED
  BY Invariance, <1>1, PTL

(* The list of malloc.cpp is always exactly the heap between its bottom and  *)
(* heap_end: next pointers and sizes agree and blocks do not overlap.        *)
THEOREM ListIsHeap == SafetySpec => []BlocksTile
BY Invariance, PTL DEF IInv

(* Memory that malloc handed out stays in a block of its own, large enough,  *)
(* not free and within the heap, until it is freed.                          *)
THEOREM AllocationsSafe == SafetySpec => []LiveProtected
BY Invariance, PTL DEF IInv

(* A block that is not free belongs to a caller.                             *)
THEOREM NoLeak == SafetySpec => []NothingLeaked
BY Invariance, PTL DEF IInv

(* When free returns, no two neighbouring blocks are free.                   *)
THEOREM FullyMerged == SafetySpec => []FreeMerged
<1>1. IInv => FreeMerged
  BY DEF IInv, CursorInv, FreeMerged
<1>2. QED
  BY Invariance, <1>1, PTL

(* malloc calls sbrk only if no free block on the list is large enough.      *)
THEOREM GrowthNeeded == SafetySpec => []GrowsOnlyIfFull
<1>1. IInv => GrowsOnlyIfFull
  BY DEF IInv, CursorInv, Passed, GrowsOnlyIfFull
<1>2. QED
  BY Invariance, <1>1, PTL
===============================================================================
