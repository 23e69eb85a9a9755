--------------------------------- MODULE MCVmm --------------------------------
(***************************************************************************)
(* Tables of four entries: a gigabyte is 16 pages, the identity map ends   *)
(* at page 48 and its uncached zone begins at page 32.  The registers lie  *)
(* in that zone, across its end, or across the end of a last-level table.  *)
(***************************************************************************)
EXTENDS Vmm

SmallBars == {33, 46, 58}
SmallFree == {{}, {7, 8}, {7, 8, 9}}
SomePages == {0, 5, 15, 16, 31} \cup 32 .. 38 \cup 46 .. 52 \cup 58 .. 67

Map(v, p, f, l) == [virt |-> v, phys |-> p, flags |-> f, leaf |-> l]

\* A page that is absent, moved, or under a 2 MB page.
PageCalls == {Map(50, 20, {"W"}, 1), Map(50, 50, {"W", "PCD"}, 1), Map(5, 9, {"W"}, 1)}

\* 2 MB and 1 GB pages over nothing and over tables, also with unaligned
\* addresses, and small pages among them.
AllCalls == {Map(48, 16, {"W"}, 2), Map(49, 16, {"W"}, 2), Map(36, 20, {"W"}, 2),
             Map(64, 32, {"W", "PS"}, 3), Map(64, 24, {"W"}, 3),
             Map(66, 3, {"W"}, 1), Map(50, 20, {"P", "W", "PS"}, 1)}

SomeCalls == PageCalls \cup AllCalls

TouchedPages == {5, 50, 51}

\* Either small pages, while the program touches memory, or pages of all
\* sizes, while it does not.
VARIABLE part

MCInit == Init /\ part \in {"small", "huge"}

MCNext ==
    /\ \/ Step
       \/ part = "small" /\ (\E c \in PageCalls : Begin(c))
       \/ part = "small" /\ (\E v \in TouchedPages : Access(v))
       \/ part = "huge" /\ (\E c \in AllCalls : Begin(c))
    /\ UNCHANGED part

MCSpec == MCInit /\ [][MCNext]_<<vars, part>>
===============================================================================
