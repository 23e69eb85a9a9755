---------------------------- MODULE PageAllocator ----------------------------
(***************************************************************************)
(* What the physical memory manager promises: once set up with a set of    *)
(* pages it hands out the lowest free one, with an address that does not   *)
(* mean failure, fails only when none is free, and takes pages back.  Pmm  *)
(* is the implementation.                                                  *)
(***************************************************************************)
EXTENDS Integers

CONSTANTS
    PageSize,  \* bytes in a page
    Null       \* the address that means failure

VARIABLES
    free,      \* page numbers that may be handed out
    ret        \* the address returned by the last allocation

vars == <<free, ret>>

Init == free = {} /\ ret = Null

Setup ==
    /\ free = {}
    /\ free' \in SUBSET Nat
    /\ UNCHANGED ret

Alloc(p) ==
    /\ p \in free /\ \A o \in free : p <= o
    /\ p * PageSize # Null
    /\ free' = free \ {p}
    /\ ret' = p * PageSize

Fail ==
    /\ free = {}
    /\ ret' = Null
    /\ UNCHANGED free

Release(p) ==
    /\ p \notin free
    /\ free' = free \cup {p}
    /\ UNCHANGED ret

Next ==
    \/ Setup \/ Fail
    \/ \E p \in free : Alloc(p)
    \/ \E p \in free' : Release(p)

Spec == Init /\ [][Next]_vars
==============================================================================
