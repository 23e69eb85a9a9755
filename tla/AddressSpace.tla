----------------------------- MODULE AddressSpace -----------------------------
(***************************************************************************)
(* What the page tables promise: a function from virtual pages to frames,  *)
(* -1 where there is none.  A request takes effect on all of its pages at  *)
(* once, or not at all, and never touches any other page.                  *)
(***************************************************************************)
EXTENDS Integers

CONSTANTS
    Pages,      \* virtual pages
    Requests    \* [virt, phys, span, uncached]

VARIABLE map

Covers(r, v) == r.virt <= v /\ v < r.virt + r.span

Target(r, v) == [frame |-> r.phys + (v - r.virt), uncached |-> r.uncached]

Install(r) ==
    /\ \A v \in Pages : Covers(r, v) => map'[v] = Target(r, v)
    /\ \A v \in Pages : ~Covers(r, v) => map'[v] = map[v]

Spec == /\ map \in [Pages -> [frame : Nat \cup {-1}, uncached : BOOLEAN]]
        /\ [][\E r \in Requests : Install(r)]_map
===============================================================================
