------------------------------ MODULE HeapTree ------------------------------
(***************************************************************************)
(* heaptree.c: the tree that keeps track of the addresses the heap gave    *)
(* out.  A tree is Null or a record of its root with its two subtrees;     *)
(* free nodes are chained through their left children from htFreeList.     *)
(* The file's variables are one record `ht'.  A function that changes them *)
(* and may ask for a page has a set of outcomes.                           *)
(*                                                                         *)
(* Dereferencing null does not stop the kernel at once: page 0 is mapped.  *)
(* A word read there is a pointer to nowhere or null (listEnd); a rotation *)
(* about null (Lost) also writes through what it read, and the model ends. *)
(***************************************************************************)
EXTENDS HeapBase, Integers, Sequences, FiniteSets

CONSTANTS
  Addresses,        \* what the heap gives out
  NodesPerPage      \* htFreeListNodesPerPage

ASSUME HeapTreeAssumption ==
  /\ Addresses \subseteq Nat \ {0} /\ IsFiniteSet(Addresses)
  /\ NodesPerPage \in Nat \ {0}

\* No tree, and a tree rotated about null.
Null == [tree |-> "null"]
Lost == [tree |-> "lost"]

VARIABLES
  ht,               \* [root, list, listEnd, count, size]: see HTType
  status            \* "up", "nomemory", "faulted"; in Heap, "duplicate"

hvars == <<ht, supply, status>>

-----------------------------------------------------------------------------
(* Rotations and the stored heights.                                       *)

\* htMax
Larger(a, b) == IF a > b THEN a ELSE b
htHeight(t) == IF t = Null THEN 0 ELSE t.height
htGetBalance(t) == IF t = Null THEN 0 ELSE htHeight(t.left) - htHeight(t.right)

\* Node t with a new left child, and with new children and its height computed
\* from theirs.
WithLeft(t, l) == IF l = Lost THEN Lost ELSE [t EXCEPT !.left = l]
Join(t, l, r) ==
  IF l = Lost \/ r = Lost THEN Lost
  ELSE [t EXCEPT !.left = l, !.right = r, !.height = Larger(htHeight(l), htHeight(r)) + 1]

\* Fault: the child that is moved across is dropped.
htRotateRight_Drop(t) ==
  IF t.left \in {Null, Lost} THEN Lost
  ELSE Join(t.left, t.left.left, Join(t, Null, t.right))
\* The new root's height is computed before that of the node below it.
htRotateRight(t) ==
  IF t.left \in {Null, Lost} THEN Lost
  ELSE [t.left EXCEPT
          !.right = Join(t, t.left.right, t.right),
          !.height = Larger(htHeight(t.left.left), t.height) + 1]

htRotateLeft(t) ==
  IF t.right \in {Null, Lost} THEN Lost
  ELSE Join(t.right, Join(t, t.left, t.right.left), t.right.right)

\* The end of htInsertNodeInternal, for a node on the way to address a.
RebalanceInserted(t, a) ==
  LET b == htGetBalance(t) IN
  IF t = Lost THEN Lost
  ELSE IF b > 1 /\ a < t.left.address THEN htRotateRight(t)
  ELSE IF b > 1 /\ a > t.left.address THEN htRotateRight([t EXCEPT !.left = htRotateLeft(t.left)])
  ELSE IF b < -1 /\ a > t.right.address THEN htRotateLeft(t)
  ELSE IF b < -1 /\ a < t.right.address
       THEN htRotateLeft([t EXCEPT !.right = htRotateRight(t.right)])
  ELSE t

\* The end of htDeleteNodeInternal.  A right child in balance is not rotated.
RebalanceDeleted(t) ==
  LET b == htGetBalance(t) IN
  IF t = Lost THEN Lost
  ELSE IF b > 1 /\ htGetBalance(t.left) >= 0 THEN htRotateRight(t)
  ELSE IF b > 1 THEN htRotateRight([t EXCEPT !.left = htRotateLeft(t.left)])
  ELSE IF b < -1 /\ htGetBalance(t.right) < 0 THEN htRotateLeft(t)
  ELSE IF b < -1 /\ htGetBalance(t.right) > 0
       THEN htRotateLeft([t EXCEPT !.right = htRotateRight(t.right)])
  ELSE t

-----------------------------------------------------------------------------
(* Insertion, deletion, search: each is a function on the trees below the  *)
(* one it is called with.                                                  *)

\* The trees below t, itself among them: none is further away than there are
\* addresses.
Subtrees(t) ==
  LET within[n \in Nat] ==
        IF n = 0 THEN {t} \ {Null, Lost}
        ELSE (UNION {{u, u.left, u.right} : u \in within[n - 1]}) \ {Null, Lost}
  IN  within[Cardinality(Addresses)]

Tracked(t) == {u.address : u \in Subtrees(t)}
NodesOf(t) == {u.node : u \in Subtrees(t)}

\* Tree t with address a; `new' is the node that is made where the way to a ends.
\* It is not looked at when a is there: then the way is rebalanced all the same.
htInsertNodeInternal(t, a, new) ==
  LET f[u \in Subtrees(t) \cup {Null}] ==
        IF u = Null THEN new
        ELSE IF a < u.address THEN RebalanceInserted(Join(u, f[u.left], u.right), a)
        ELSE IF a > u.address THEN RebalanceInserted(Join(u, u.left, f[u.right]), a)
        ELSE u
  IN  f[t]

\* Fault: the loop is left out.
htMinValueNode_Top(t) == t
htMinValueNode(t) ==
  LET f[u \in Subtrees(t)] == IF u.left = Null THEN u ELSE f[u.left]
  IN  f[t]

\* The address to delete from the right subtree of t: that of the successor if t has
\* address a and two children.
RightTarget(t, a) ==
  IF a = t.address /\ t.left # Null /\ t.right # Null THEN htMinValueNode(t.right).address ELSE a

\* Fault: the address is not copied.
WithAddress_Old(t, next) == t
WithAddress(t, next) == [t EXCEPT !.address = next]

\* Tree t without address a, if l and r are its subtrees without it.  On the way to
\* the left nothing is computed anew.  With one child, the child is copied into the
\* node.  With two, the node takes the address of its successor, which is deleted,
\* and keeps its own memstack.
Deleted(t, a, l, r) ==
  IF a < t.address THEN WithLeft(t, l)
  ELSE IF a > t.address THEN RebalanceDeleted(Join(t, t.left, r))
  ELSE IF t.left = Null /\ t.right = Null THEN Null
  ELSE IF t.left = Null
       THEN RebalanceDeleted(Join([t.right EXCEPT !.node = t.node], t.right.left, t.right.right))
  ELSE IF t.right = Null
       THEN RebalanceDeleted(Join([t.left EXCEPT !.node = t.node], t.left.left, t.left.right))
  ELSE RebalanceDeleted(Join(WithAddress(t, RightTarget(t, a)), t.left, r))

htDeleteNodeInternal(t, a) ==
  LET f[u \in Subtrees(t) \cup {Null}] ==
        [b \in Addresses |->
           IF u = Null THEN Null
           ELSE Deleted(u, b, f[u.left][b], f[u.right][RightTarget(u, b)])]
  IN  f[t][a]

\* getAllocTreeNode: the node of an address, or Null.
htGetNodeInternal(t, a) ==
  LET f[u \in Subtrees(t) \cup {Null}] ==
        IF u = Null \/ u.address = a THEN u
        ELSE IF u.address > a THEN f[u.left] ELSE f[u.right]
  IN  f[t]

\* Fault: the node that held the address, also when its child's was copied to it.
FreedNode_Own(t, a) == htGetNodeInternal(t, a).node
\* The node that the deletion of a gives to the free list, if l and r are those that
\* the deletions from its subtrees give.
Freed(t, a, l, r) ==
  IF a < t.address THEN l
  ELSE IF a > t.address \/ (t.left # Null /\ t.right # Null) THEN r
  ELSE IF t.left = Null /\ t.right = Null THEN t.node
  ELSE IF t.left = Null THEN t.right.node ELSE t.left.node
FreedNode(t, a) ==
  LET f[u \in Subtrees(t) \cup {Null}] ==
        [b \in Addresses |->
           IF u = Null THEN Null ELSE Freed(u, b, f[u.left][b], f[u.right][RightTarget(u, b)])]
  IN  f[t][a]

-----------------------------------------------------------------------------
(* The free list.                                                          *)

\* The chain htAddFreeHeapNodes makes of a page; a node is its page and place.
Chain(p) == [i \in 1 .. NodesPerPage |-> <<p, i>>]

\* Fault: the page of the free nodes is given back when the tree is empty.
HTOutcome_PageBack(h, s, st) ==
  [ht |-> h, supply |-> IF h.size = 0 THEN s \cup {h.list[1][1]} ELSE s, status |-> st]
HTOutcome(h, s, st) == [ht |-> h, supply |-> s, status |-> st]

\* htGetNodeFromhtFreeList and htNewNode: node n of list l becomes the tree's.
Give(h, l, count, s, a, k) ==
  LET new == [node |-> Head(l), address |-> a, memstack |-> k,
              left |-> Null, right |-> Null, height |-> 1]
      root == htInsertNodeInternal(h.root, a, new)
  IN  HTOutcome([h EXCEPT !.root = root, !.list = Tail(l), !.count = count - 1, !.size = @ + 1],
              s, IF root = Lost THEN "faulted" ELSE "up")

\* insertAllocTreeNode of an address that is not in the tree.  An empty list
\* with a count above zero gets no new page (htAddFreeHeapNodes).
InsertOutcomes(h, s, a, k) ==
  IF h.list # <<>> THEN {Give(h, h.list, h.count, s, a, k)}
  ELSE IF h.listEnd = "wild" THEN {HTOutcome(h, s, "faulted")}
  ELSE IF h.count > 0 \/ s = {} THEN {HTOutcome(h, s, "nomemory")}
  ELSE {Give(h, Chain(p), NodesPerPage, s \ {p}, a, k) : p \in s}

\* The node is put after the first one and linked to what follows the second:
\* the second is lost.  With one node, what follows "the second" is the word at
\* address 0.  The empty set: a pointer to nowhere is dereferenced.
htPutNodeInFreeList(h, n) ==
  LET given(l, end, count) ==
        [h EXCEPT !.list = l, !.listEnd = end, !.count = count, !.size = @ - 1]
      rest == SubSeq(h.list, 3, Len(h.list))
  IN  IF Len(h.list) >= 2 THEN {given(<<h.list[1], n>> \o rest, h.listEnd, h.count + 1)}
      ELSE IF h.listEnd = "wild" THEN {}
      ELSE IF Len(h.list) = 1
           THEN {given(<<h.list[1], n>>, end, h.count + 1) : end \in {"null", "wild"}}
      ELSE {given(<<n>>, "null", 1)}

\* deleteAllocTreeNode of an address in the tree.
DeleteOutcomes(h, s, a) ==
  LET root == htDeleteNodeInternal(h.root, a)
      put == htPutNodeInFreeList(h, FreedNode(h.root, a))
  IN  IF put = {} THEN {HTOutcome(h, s, "faulted")}
      ELSE {HTOutcome([g EXCEPT !.root = root], s, IF root = Lost THEN "faulted" ELSE "up")
              : g \in put}

-----------------------------------------------------------------------------
(* The tree as heap.c uses it: an address is looked up before it is put in *)
(* or taken out.                                                           *)

Apply(outcomes) ==
  \E o \in outcomes : ht' = o.ht /\ supply' = o.supply /\ status' = o.status

\* The variables after initHeapTree, which took page p.
Fresh(p) == [root |-> Null, list |-> Chain(p), listEnd |-> "null",
             count |-> NodesPerPage, size |-> 0]

HTInit ==
  \E p \in Pages : ht = Fresh(p) /\ supply = Pages \ {p} /\ status = "up"

Insert(a, k) ==
  /\ status = "up"
  /\ htGetNodeInternal(ht.root, a) = Null
  /\ Apply(InsertOutcomes(ht, supply, a, k))

Delete(a) ==
  /\ status = "up"
  /\ htGetNodeInternal(ht.root, a) # Null
  /\ Apply(DeleteOutcomes(ht, supply, a))

HTNext == \E a \in Addresses : Delete(a) \/ \E k \in Kinds : Insert(a, k)

HTSpec == HTInit /\ [][HTNext]_hvars

-----------------------------------------------------------------------------
(* Properties.                                                             *)

\* While the kernel runs, the tree is in search order, with each address once:
\* what was put in is found again, whatever was rotated (heaptree.c:176-219).
SearchTree ==
  status = "up" =>
    \A t \in Subtrees(ht.root) :
      /\ \A a \in Tracked(t.left) : a < t.address
      /\ \A a \in Tracked(t.right) : a > t.address

\* "Self balancing tree that keeps track of the address given out by the heap"
\* (heaptree.c:1): no rotation is about a child that is not there.
KeepsTrack == ht.root # Lost

InTree == NodesOf(ht.root)
InList == {ht.list[i] : i \in DOMAIN ht.list}

\* A node is in the tree or in the free list, in one place, and not both, whichever
\* node a deletion frees (heaptree.c:93, 235); as many are counted as allocated
\* (heaptree.c:9) as there are.
NodesOnce ==
  status = "up" =>
    /\ InTree \cap InList = {}
    /\ Cardinality(InList) = Len(ht.list)
    /\ Cardinality(InTree) = Cardinality(Subtrees(ht.root))
    /\ ht.size = Cardinality(InTree)

\* A set of addresses, one in or out at a time: what the tree stands for.
Registry == INSTANCE AddressSet WITH members <- Tracked(ht.root), lost <- status # "up"
ImplementsRegistry == Registry!Spec
=============================================================================
