------------------------------- MODULE MCHeap -------------------------------
(* Pages of eight bytes: four small blocks, or two big ones.               *)
EXTENDS Heap, TLC
MCPages == {8, 16, 24, 32, 40, 48}
MCAddresses == {p + i : p \in MCPages, i \in {0, 2, 4, 6}}
MCUnit == [k \in Kinds |-> IF k = "small" THEN 2 ELSE 4]
MCSlabsPerPage == [k \in Kinds |-> 2]
\* The callers are alike.
MCSymmetry == Permutations(Callers)
\* initHeap took the first four pages.
MCInit == HeapInit /\ supply = {40, 48} /\ ht = Fresh(8)
MCSpec == MCInit /\ [][HeapNext]_heapvars
=============================================================================
