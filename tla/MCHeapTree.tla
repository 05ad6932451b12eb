----------------------------- MODULE MCHeapTree -----------------------------
(* The tree's two users, heap.c and allocPage: a run is of one or the other. *)
EXTENDS PageAllocTree, FiniteSetsExt, TLC
\* The heap's largest address, and how many allocations of pages there are at once.
CONSTANTS MaxHeapAddress, MaxHolders
VARIABLE user
\* Pages of two bytes in a memory of 16: shifted, those of MCSpace are at 12, 0 (null),
\* 4, 8 and 12 again.
MCSpace == {6, 8, 10, 12, 14}
MCAddresses == MCSpace \cup {4}
\* The pages of nodes are alike.
MCSymmetry == Permutations(Pages)
MCInit == PTInit /\ user \in {"heap", "pages"}
Holders == MapThenSumSet(LAMBDA a : live[a], Addresses)
HeapStep ==
  /\ HTNext /\ UNCHANGED <<used, live, shared>>
  /\ \A a \in Tracked(ht'.root) : a <= MaxHeapAddress
\* The user of pages leaves one page of nodes, which the heap takes.
PagesStep == PTNext /\ Holders' <= MaxHolders /\ supply' # {}
MCNext ==
  /\ \/ user = "heap" /\ HeapStep
     \/ user = "pages" /\ PagesStep
  /\ UNCHANGED user
MCSpec == MCInit /\ [][MCNext]_<<ptvars, user>>
=============================================================================
