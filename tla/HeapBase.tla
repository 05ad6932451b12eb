------------------------------ MODULE HeapBase ------------------------------
(***************************************************************************)
(* What the parts of the heap share: the kinds of block, and the pages it  *)
(* lives on.  allocVirtKrnlMem gives a page that is left, or 0;            *)
(* deallocVirtKrnlMem takes one back, or refuses.  Neither is in the       *)
(* repository any more, only the calls are.                                *)
(***************************************************************************)
CONSTANTS
  Kinds,            \* enum eStack of heap.c
  Pages             \* what allocVirtKrnlMem has to give

VARIABLE supply     \* pages it has not given
=============================================================================
