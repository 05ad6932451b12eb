--------------------------- MODULE PageAllocTree ---------------------------
(***************************************************************************)
(* pagealloctree.c: the allocations of whole pages, kept in a tree.  Its   *)
(* nodes, free list, rotations, insertion, deletion and search are those   *)
(* of heaptree.c under other names, and the operators of HeapTree model    *)
(* them line by line; a node holds a number of pages where the heap's      *)
(* holds a kind of block.  The virtual memory functions that give and take *)
(* the pages are not in the repository any more, only the calls are: they  *)
(* are modelled by the pages in use, and allocVirtKrnlMem gives the        *)
(* address of one, as all its other callers take it.                       *)
(***************************************************************************)
EXTENDS HeapTree

CONSTANTS
  PAGE_SIZE,    \* bytes of a page (4096 = 2^12)
  MEMORY,       \* bytes that an address reaches (2^32)
  Space,        \* the pages that there are to give
  MaxPages,     \* the largest allocation (256)
  Requests      \* the numbers of pages that are asked for

\* (uint32_t) v << 12
Shifted(v) == (v * PAGE_SIZE) % MEMORY

ASSUME PageAllocAssumption ==
  /\ PAGE_SIZE \in Nat /\ MEMORY \in Nat \ {0} /\ MaxPages \in Nat \ {0}
  /\ Space \subseteq Addresses /\ \A v \in Space : Shifted(v) \in Addresses \cup {0}
  /\ Requests \subseteq Nat \ {0}

VARIABLES
  used,         \* the pages in use
  live,         \* how many callers hold each address
  shared        \* those that two of their holders ever held at once
ptvars == <<hvars, used, live, shared>>

\* numpages is an unsigned char: the largest allocation is kept as zero pages.
numpages(n) == n % MaxPages
Block(a, n) == {a + i * PAGE_SIZE : i \in 0 .. n - 1}

\* The variables after initPageTree.
PTInit == HTInit /\ used = {} /\ live = [a \in Addresses |-> 0] /\ shared = {}

Hold(a) ==
  /\ live' = [live EXCEPT ![a] = @ + 1]
  /\ shared' = IF live[a] > 0 THEN shared \cup {a} ELSE shared
Drop(a) ==
  /\ live' = [live EXCEPT ![a] = @ - 1]
  /\ shared' = IF live[a] = 1 THEN shared \ {a} ELSE shared

ptGetTreeNode(a) == htGetNodeInternal(ht.root, a)
\* An address that is still in the tree keeps its old node and number of pages; on
\* the way back from it heights are computed anew and the tree is rotated.
ptInsertTreeNode(a, n) ==
  IF ptGetTreeNode(a) = Null THEN InsertOutcomes(ht, supply, a, n)
  ELSE LET root == htInsertNodeInternal(ht.root, a, Null)
       IN  {HTOutcome([ht EXCEPT !.root = root], supply, IF root = Lost THEN "faulted" ELSE "up")}

ptDeleteTreeNode(a) == DeleteOutcomes(ht, supply, a)

\* One page.  The address of the page that allocVirtKrnlMem gives is shifted as if it
\* were a page's number; what comes out is marked in use, entered and returned, but
\* for null, and then the page is lost.  (That page 0 is in use makes no difference.)
allocOnePage ==
  \E v \in Space \ used :
    LET a == Shifted(v) IN
    /\ used' = (used \cup {v, a}) \ {0}
    /\ IF a = 0 THEN UNCHANGED <<hvars, live, shared>>
       ELSE Hold(a) /\ Apply(ptInsertTreeNode(a, numpages(1)))

\* A block of free pages.
allocPages(n) ==
  \E a \in Space :
    /\ Block(a, n) \subseteq Space \ used
    /\ used' = used \cup Block(a, n)
    /\ Hold(a) /\ Apply(ptInsertTreeNode(a, numpages(n)))

\* For too many pages, or when there are none, null is returned and what was got is
\* taken back.
allocPage(n) ==
  /\ status = "up" /\ n <= MaxPages
  /\ IF n = 1 THEN allocOnePage ELSE allocPages(n)

\* freePage of an address its caller holds: the node says how many pages go back,
\* and the node of a single page stays in the tree.  When the pages are not in use
\* nothing is done.
freePage(a) ==
  LET node == ptGetTreeNode(a) IN
  /\ status = "up" /\ live[a] > 0
  /\ node # Null /\ Block(a, node.memstack) \subseteq used
  /\ used' = used \ Block(a, node.memstack)
  /\ Drop(a)
  /\ IF node.memstack = 1 THEN UNCHANGED hvars ELSE Apply(ptDeleteTreeNode(a))

PTNext == (\E n \in Requests : allocPage(n)) \/ (\E a \in Addresses : freePage(a))
PTSpec == PTInit /\ [][PTNext]_ptvars

-----------------------------------------------------------------------------
(* Properties.                                                             *)

Allocated == {a \in Addresses : live[a] > 0}

\* What a caller holds alone is in the tree, however often it was rebuilt and although
\* the nodes of single pages are never taken out: freePage never answers that it has
\* not got the allocation.  Only for an address that was given to two callers at once,
\* which the shift can do (pagealloctree.c:353), may the first to free it take the
\* node away from the second.
LiveTracked == status = "up" => Allocated \ shared \subseteq Tracked(ht.root)
=============================================================================
