-------------------------------- MODULE Heap --------------------------------
(***************************************************************************)
(* heap.c: kmalloc and kfree over the slab allocators and the tree of      *)
(* allocations, with callers that may free an address more than once.      *)
(* One thread calls the heap; a call is one step.                          *)
(***************************************************************************)
EXTENDS SlabAlloc, HeapTree

CONSTANT Callers    \* parts of the kernel that call it

\* Every block of every page may be given out.
ASSUME HeapAssumption ==
  \A p \in Pages, k \in Kinds : \A b \in Bits(k) : p + Unit[k] * b \in Addresses

VARIABLE held       \* what each caller was given and did not free

heapvars == <<slabs, supply, ht, status, held>>

\* Sizes asked for: nothing, each block size, and more than the largest.
Sizes == {0} \cup {Unit[k] : k \in Kinds} \cup {PageSize}

\* The kind kmalloc asks: the smallest block that holds the size.
KindsFor(size) ==
  {k \in Kinds : size <= Unit[k] /\ \A l \in Kinds : size <= Unit[l] => Unit[k] <= Unit[l]}

\* After initHeap: a page of nodes, one of slabs for each kind, one for initPageTree.
HeapInit ==
  /\ slabs = [k \in Kinds |-> NewSlabs(k)]
  /\ \E S \in SUBSET Pages, p \in Pages :
       /\ Cardinality(S) = Cardinality(Kinds) + 2
       /\ p \in S
       /\ supply = Pages \ S
       /\ ht = Fresh(p)
  /\ status = "up"
  /\ held = [c \in Callers |-> {}]

\* No block of the size: alloc4 refuses 0 bytes; a size above the largest block
\* goes to allocPage as a number of pages, which refuses it.
KmallocRefused(size) ==
  /\ status = "up"
  /\ size = 0 \/ KindsFor(size) = {}
  /\ UNCHANGED heapvars

\* Fault: kmalloc does not look.
Duplicate_Never(a) == FALSE
Duplicate(a) == htGetNodeInternal(ht.root, a) # Null

\* An address that is in the tree already stops the kernel.
Kmalloc(c, size) ==
  /\ status = "up"
  /\ size # 0
  /\ \E k \in KindsFor(size) : \E o \in AllocOutcomes(slabs, supply, k) :
       /\ slabs' = o.slabs
       /\ IF o.ptr = 0 THEN supply' = o.supply /\ UNCHANGED <<ht, status, held>>
          ELSE IF Duplicate(o.ptr)
          THEN supply' = o.supply /\ status' = "duplicate" /\ UNCHANGED <<ht, held>>
          ELSE /\ Apply(InsertOutcomes(ht, o.supply, o.ptr, k))
               /\ held' = IF status' = "up" THEN [held EXCEPT ![c] = @ \cup {o.ptr}] ELSE held

\* The node says which allocator frees the address; if it does, the node goes.
Kfree(c, a) ==
  LET node == htGetNodeInternal(ht.root, a) IN
  /\ status = "up"
  /\ node # Null
  /\ a \in held[c] \/ \A d \in Callers : a \notin held[d]
  /\ \E o \in FreeOutcomes(slabs, supply, node.memstack, a) :
       /\ slabs' = o.slabs
       /\ IF o.ok THEN Apply(DeleteOutcomes(ht, o.supply, a))
          ELSE supply' = o.supply /\ UNCHANGED <<ht, status>>
  /\ held' = [held EXCEPT ![c] = @ \ {a}]

\* "Possible double free attempt."
KfreeUnknown(a) ==
  /\ status = "up"
  /\ htGetNodeInternal(ht.root, a) = Null
  /\ UNCHANGED heapvars

HeapNext ==
  \/ \E c \in Callers :
       \/ \E size \in Sizes : Kmalloc(c, size)
       \/ \E a \in Addresses : Kfree(c, a)
  \/ \E size \in Sizes : KmallocRefused(size)
  \/ \E a \in Addresses : KfreeUnknown(a)

HeapSpec == HeapInit /\ [][HeapNext]_heapvars

-----------------------------------------------------------------------------
(* Properties.                                                             *)

Held == UNION {held[c] : c \in Callers}

\* What a caller holds is in the tree, whatever was rotated or freed: kmalloc's
\* check against giving a block twice sees it (heap.c:89).
HeldTracked == status = "up" => Held \subseteq Tracked(ht.root)

\* The page of a block that is held is a slab's, and is not given to anybody else,
\* although free... may mark the wrong block available (slaballoc.c:452).
HeldPagesKept ==
  status = "up" => \A a \in Held :
    /\ \E x \in Places : SlabAt(x).address = PageOf(a)
    /\ PageOf(a) \notin supply

\* Both: a block that is held is known to the heap and stays backed by its page.
HeldKept == HeldTracked /\ HeldPagesKept

\* heap.c:88, "make sure we don't have an internal eror".
NoInternalError == status # "duplicate"

\* Blocks belong to one caller at a time: a block is given out only when nobody
\* holds it, and is lost only when it is freed.
Ownership == INSTANCE FrameOwnership
  WITH Clients <- Callers, Frames <- Addresses, holds <- held
ImplementsOwnership == Ownership!Spec
=============================================================================
