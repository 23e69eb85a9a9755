-------------------------------- MODULE MCHeap --------------------------------
(* Heap with all sizes of the code divided by four. *)
EXTENDS Heap, Sequences

Region(addr, len, type) == [addr |-> addr, len |-> len, type |-> type]

With(map) == [mem_map |-> TRUE, mmap |-> map]

\* A heap of 40 bytes and one of 17, neither a whole number of blocks; a map
\* in which kernel_end is not in available memory, so that the heap is empty;
\* and no map at all.
SmallMaps ==
    { With(<< Region(0, 10, 1), Region(10, 47, 1) >>),
      With(<< Region(0, 16, 2), Region(5, 29, 1), Region(0, 64, 1) >>),
      With(<< Region(0, 64, 2) >>),
      [mem_map |-> FALSE, mmap |-> << >>] }
===============================================================================
