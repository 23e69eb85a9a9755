--------------------------------- MODULE MCPmm --------------------------------
(***************************************************************************)
(* Pmm with pages of four bytes and words of four bits.  The maps have low *)
(* memory, one or two regions above it with aligned and unaligned bounds,  *)
(* a hole and a reserved entry, too little memory, or a region that runs   *)
(* over the end of the address space; the empty map also stands for boot   *)
(* information without a map.                                              *)
(***************************************************************************)
EXTENDS Pmm

Ram(a, l)  == [addr |-> a, len |-> l, type |-> 1]
Rsvd(a, l) == [addr |-> a, len |-> l, type |-> 2]

BootRegions == {<<5, 2>>, <<7, 1>>}

SmallMaps ==
    {{}, {Ram(0, 4), Ram(4, 30), Ram(40, 30)}}
    \cup {{Ram(0, 3), Rsvd(3, 1), Ram(4, l)} : l \in {16} \cup 36 .. 41}
    \cup {{Ram(0, 4), Ram(4, 21), Rsvd(25, 3), Ram(a, 48 - a)} : a \in 28 .. 32}
===============================================================================
