----------------------------- MODULE Heap_proofs -----------------------------
(***************************************************************************)
(* Proofs about the heap, its tree of allocations and its slab allocators, *)
(* for every set of pages, addresses, kinds of block and callers.          *)
(*                                                                         *)
(* The trees are those that have a level: a level is built from the one    *)
(* below.  What holds of null and of a node when it holds of its children  *)
(* holds of every tree, because there is no least level at which it could  *)
(* fail; and a function that the tree's operators define by recursion is   *)
(* the set of pairs that every set closed under its equation has.  So what *)
(* insertion, deletion and search compute is known of every tree.          *)
(*                                                                         *)
(* Then: the tree is in search order and shares no node with the free      *)
(* list; the slabs' books are right; and tree and slabs agree about every  *)
(* block, which is the invariant of the heap.                              *)
(***************************************************************************)
EXTENDS Heap, PageAllocTree, TLAPS, FiniteSetTheorems, WellFoundedInduction, SequenceTheorems

-----------------------------------------------------------------------------
(* Trees: those of any depth whose nodes are among the nodes of the pages  *)
(* and hold something of K.                                                *)

NodeIds == Pages \X (1 .. NodesPerPage)

RootedIn(K, X) ==
  [node : NodeIds, address : Addresses, memstack : K, left : X, right : X, height : Nat]
Layer(K, X) == {Null} \cup RootedIn(K, X)

IsTower(F, K, n) == F = [i \in 0 .. n |-> IF i = 0 THEN {Null} ELSE Layer(K, F[i - 1])]
Level(K, n) == (CHOOSE F : IsTower(F, K, n))[n]
Trees(K) == UNION {Level(K, n) : n \in Nat}

\* A set of natural numbers that is not empty has a least one.
LEMMA Least ==
  ASSUME NEW S \in SUBSET Nat, S # {}
  PROVE  \E n \in S : \A m \in S : n <= m
<1> DEFINE R == {ss \in Nat \X Nat : ss[1] < ss[2]}
<1>1. IsWellFoundedOn(R, Nat)
  BY NatLessThanWellFounded DEF OpToRel
<1>2. PICK n \in S : \A m \in S : ~ (<<m, n>> \in R)
  <2> HIDE DEF R
  <2> QED BY <1>1, WFMin
<1>3. ASSUME NEW m \in S PROVE n <= m
  <2>1. ~ (<<m, n>> \in R)
    BY <1>2
  <2>2. m \in Nat /\ n \in Nat
    OBVIOUS
  <2> QED BY <2>1, <2>2
<1> QED BY <1>3

\* A set that holds 0 and the next of each number it holds has every number.
LEMMA Naturals ==
  ASSUME NEW S \in SUBSET Nat, 0 \in S, \A n \in S : n + 1 \in S
  PROVE  S = Nat
<1>1. SUFFICES ASSUME Nat \ S # {} PROVE FALSE
  OBVIOUS
<1>2. PICK n \in Nat \ S : \A m \in Nat \ S : n <= m
  BY <1>1, Least
<1>3. n - 1 \in Nat /\ n - 1 \notin Nat \ S
  <2>1. n # 0
    BY <1>2
  <2>2. n \in Nat
    BY <1>2
  <2>3. n - 1 \in Nat /\ ~(n <= n - 1)
    BY <2>1, <2>2
  <2> QED BY <1>2, <2>3
<1>4. (n - 1) + 1 \in S /\ (n - 1) + 1 = n
  BY <1>2, <1>3
<1> QED BY <1>2, <1>4

\* There is a tower of layers of each height,
LEMMA TowerExists ==
  ASSUME NEW K, NEW n \in Nat
  PROVE  \E F : IsTower(F, K, n)
<1> DEFINE S == {m \in Nat : \E F : IsTower(F, K, m)}
<1>1. 0 \in S
  <2> DEFINE F == [i \in 0 .. 0 |-> {Null}]
  <2>1. F = [i \in 0 .. 0 |-> IF i = 0 THEN {Null} ELSE Layer(K, F[i - 1])]
    OBVIOUS
  <2> QED BY <2>1 DEF IsTower
<1>2. ASSUME NEW m \in S PROVE m + 1 \in S
  <2>1. PICK F : IsTower(F, K, m)
    OBVIOUS
  <2> DEFINE G == [i \in 0 .. m + 1 |-> IF i = m + 1 THEN Layer(K, F[m]) ELSE F[i]]
  <2>2. ASSUME NEW i \in 0 .. m + 1
        PROVE  G[i] = IF i = 0 THEN {Null} ELSE Layer(K, G[i - 1])
    <3>0. m \in Nat /\ i \in Nat
      OBVIOUS
    <3>1. CASE i = m + 1
      <4>1. i # 0 /\ i - 1 = m /\ m \in 0 .. m + 1 /\ m # m + 1
        BY <3>0, <3>1
      <4> QED BY <3>1, <4>1
    <3>2. CASE i # m + 1 /\ i # 0
      <4>1. i \in 0 .. m /\ i - 1 \in 0 .. m + 1 /\ i - 1 # m + 1
        BY <3>0, <3>2
      <4>2. F[i] = Layer(K, F[i - 1])
        BY <2>1, <3>2, <4>1 DEF IsTower
      <4> QED BY <3>2, <4>1, <4>2
    <3>3. CASE i = 0
      <4>1. i \in 0 .. m /\ i # m + 1
        BY <3>0, <3>3
      <4> QED BY <2>1, <3>3, <4>1 DEF IsTower
    <3> QED BY <3>1, <3>2, <3>3
  <2>3. IsTower(G, K, m + 1)
    BY <2>2 DEF IsTower
  <2>4. m + 1 \in Nat
    OBVIOUS
  <2> QED BY <2>3, <2>4
<1> HIDE DEF S
<1>3. S = Nat
  BY <1>1, <1>2, Naturals DEF S
<1> QED BY <1>3 DEF S

\* and two towers have the same layers as far as both go.
LEMMA TowerUnique ==
  ASSUME NEW K, NEW n \in Nat, NEW m \in Nat, NEW F, NEW G, IsTower(F, K, n), IsTower(G, K, m),
         NEW j \in Nat, j <= n, j <= m
  PROVE  F[j] = G[j]
<1> DEFINE S == {i \in Nat : i <= n /\ i <= m => F[i] = G[i]}
<1>1. 0 \in S
  BY DEF IsTower
<1>2. ASSUME NEW i \in S PROVE i + 1 \in S
  <2>1. SUFFICES ASSUME i + 1 <= n, i + 1 <= m PROVE F[i + 1] = G[i + 1]
    OBVIOUS
  <2>2. i \in Nat /\ i <= n /\ i <= m /\ i + 1 # 0 /\ (i + 1) - 1 = i /\ i + 1 \in 0 .. n /\ i + 1 \in 0 .. m
    BY <2>1
  <2>3. F[i] = G[i]
    BY <2>2
  <2>4. F[i + 1] = Layer(K, F[(i + 1) - 1]) /\ G[i + 1] = Layer(K, G[(i + 1) - 1])
    BY <2>2 DEF IsTower
  <2> QED BY <2>2, <2>3, <2>4
<1> HIDE DEF S
<1>3. S = Nat
  BY <1>1, <1>2, Naturals DEF S
<1> QED BY <1>3 DEF S

\* So each level is the layer over the one below,
LEMMA Levels ==
  ASSUME NEW K
  PROVE  /\ Level(K, 0) = {Null}
         /\ \A n \in Nat : Level(K, n + 1) = Layer(K, Level(K, n))
<1> DEFINE Tw(n) == CHOOSE F : IsTower(F, K, n)
<1>1. \A n \in Nat : IsTower(Tw(n), K, n)
  BY TowerExists
<1> HIDE DEF Tw
<1>2. \A n \in Nat : Level(K, n) = Tw(n)[n]
  BY DEF Level, Tw
<1>3. Level(K, 0) = {Null}
  BY <1>1, <1>2 DEF IsTower
<1>4. ASSUME NEW n \in Nat PROVE Level(K, n + 1) = Layer(K, Level(K, n))
  <2>1. n + 1 \in Nat /\ n + 1 # 0 /\ (n + 1) - 1 = n /\ n + 1 \in 0 .. n + 1 /\ n <= n /\ n <= n + 1
    OBVIOUS
  <2>2. Tw(n + 1)[n + 1] = Layer(K, Tw(n + 1)[(n + 1) - 1])
    BY <1>1, <2>1 DEF IsTower
  <2>3. Tw(n + 1)[n] = Tw(n)[n]
    BY <1>1, <2>1, TowerUnique
  <2> QED BY <1>2, <2>1, <2>2, <2>3
<1> QED BY <1>3, <1>4

\* a layer over more trees has more,
LEMMA LayerGrows ==
  ASSUME NEW K, NEW X, NEW Y, X \subseteq Y
  PROVE  Layer(K, X) \subseteq Layer(K, Y)
BY DEF Layer, RootedIn

\* and a level holds those below it.
LEMMA LevelsGrow ==
  ASSUME NEW K, NEW n \in Nat, NEW m \in Nat, n <= m
  PROVE  Level(K, n) \subseteq Level(K, m)
<1> DEFINE S == {i \in Nat : Level(K, i) \subseteq Level(K, i + 1)}
<1>1. 0 \in S
  BY Levels DEF Layer
<1>2. ASSUME NEW i \in S PROVE i + 1 \in S
  <2>1. i + 1 \in Nat /\ Level(K, i) \subseteq Level(K, i + 1)
    OBVIOUS
  <2>2. Level(K, i + 1) = Layer(K, Level(K, i)) /\ Level(K, (i + 1) + 1) = Layer(K, Level(K, i + 1))
    BY <2>1, Levels
  <2> QED BY <2>1, <2>2, LayerGrows
<1> HIDE DEF S
<1>3. \A i \in Nat : Level(K, i) \subseteq Level(K, i + 1)
  BY <1>1, <1>2, Naturals DEF S
<1> DEFINE P == {i \in Nat : Level(K, n) \subseteq Level(K, n + i)}
<1>4. 0 \in P
  OBVIOUS
<1>5. ASSUME NEW i \in P PROVE i + 1 \in P
  <2>1. i + 1 \in Nat /\ n + i \in Nat /\ (n + i) + 1 = n + (i + 1) /\ Level(K, n) \subseteq Level(K, n + i)
    OBVIOUS
  <2> QED BY <2>1, <1>3
<1> HIDE DEF P
<1>6. P = Nat
  BY <1>4, <1>5, Naturals DEF P
<1>7. m - n \in Nat /\ n + (m - n) = m
  OBVIOUS
<1> QED BY <1>6, <1>7 DEF P

\* What a tree is, and induction over trees.
LEMMA TreesAre ==
  ASSUME NEW K
  PROVE  Trees(K) = Layer(K, Trees(K))
<1>1. ASSUME NEW t \in Trees(K) PROVE t \in Layer(K, Trees(K))
  <2>1. PICK n \in Nat : t \in Level(K, n)
    BY DEF Trees
  <2>2. n <= n + 1 /\ n + 1 \in Nat
    OBVIOUS
  <2>3. t \in Level(K, n + 1)
    BY <2>1, <2>2, LevelsGrow
  <2>4. t \in Layer(K, Level(K, n))
    BY <2>3, Levels
  <2>5. Level(K, n) \subseteq Trees(K)
    BY DEF Trees
  <2> QED BY <2>4, <2>5, LayerGrows
<1>2. ASSUME NEW t \in Layer(K, Trees(K)) PROVE t \in Trees(K)
  <2>1. CASE t = Null
    BY <2>1, Levels DEF Trees
  <2>2. CASE t \in RootedIn(K, Trees(K))
    <3>1. t.left \in Trees(K) /\ t.right \in Trees(K)
      BY <2>2 DEF RootedIn
    <3>2. PICK n \in Nat : t.left \in Level(K, n)
      BY <3>1 DEF Trees
    <3>3. PICK m \in Nat : t.right \in Level(K, m)
      BY <3>1 DEF Trees
    <3>4. PICK h \in Nat : n <= h /\ m <= h
      <4>1. n <= n + m /\ m <= n + m /\ n + m \in Nat
        OBVIOUS
      <4> QED BY <4>1
    <3>5. t.left \in Level(K, h) /\ t.right \in Level(K, h)
      BY <3>2, <3>3, <3>4, LevelsGrow
    <3>6. t \in RootedIn(K, Level(K, h))
      BY <2>2, <3>5 DEF RootedIn
    <3>7. t \in Level(K, h + 1) /\ h + 1 \in Nat
      BY <3>6, Levels DEF Layer
    <3> QED BY <3>7 DEF Trees
  <2> QED BY <2>1, <2>2 DEF Layer
<1> QED BY <1>1, <1>2

\* No node is null or lost.
LEMMA NoNode ==
  ASSUME NEW K, NEW X
  PROVE  Null \notin RootedIn(K, X) /\ Lost \notin RootedIn(K, X) /\ Null # Lost
<1>1. \A r \in RootedIn(K, X) : "tree" \notin DOMAIN r
  BY DEF RootedIn
<1>2. "tree" \in DOMAIN Null /\ "tree" \in DOMAIN Lost
  BY DEF Null, Lost
<1>3. Null.tree = "null" /\ Lost.tree = "lost"
  BY DEF Null, Lost
<1> QED BY <1>1, <1>2, <1>3

\* What holds of null, and of a node when it holds of its children, holds of
\* every tree.
LEMMA TreeInduction ==
  ASSUME NEW K, NEW P, Null \in P,
         \A u \in Trees(K) \ {Null} : u.left \in P /\ u.right \in P => u \in P
  PROVE  Trees(K) \subseteq P
<1> DEFINE S == {n \in Nat : Level(K, n) \subseteq P}
<1>1. 0 \in S
  BY Levels
<1>2. ASSUME NEW n \in S PROVE n + 1 \in S
  <2>1. n \in Nat /\ n + 1 \in Nat /\ Level(K, n) \subseteq P
    OBVIOUS
  <2>2. Level(K, n + 1) = Layer(K, Level(K, n))
    BY <2>1, Levels
  <2>3. ASSUME NEW u \in Level(K, n + 1) PROVE u \in P
    <3>1. CASE u = Null
      BY <3>1
    <3>2. CASE u \in RootedIn(K, Level(K, n))
      <4>1. u.left \in P /\ u.right \in P
        BY <2>1, <3>2 DEF RootedIn
      <4>2. u \in Trees(K)
        BY <2>1 DEF Trees
      <4> QED BY <3>1, <4>1, <4>2
    <3> QED BY <2>2, <3>1, <3>2 DEF Layer
  <2> QED BY <2>1, <2>3
<1> HIDE DEF S
<1>3. S = Nat
  BY <1>1, <1>2, Naturals DEF S
<1> QED BY <1>3 DEF S, Trees

-----------------------------------------------------------------------------
(* Nodes, and functions defined by recursion.                              *)

\* A node, its fields.
LEMMA NodeIs ==
  ASSUME NEW K, NEW t \in Trees(K) \ {Null}
  PROVE  /\ t = [node |-> t.node, address |-> t.address, memstack |-> t.memstack,
                 left |-> t.left, right |-> t.right, height |-> t.height]
         /\ t.node \in NodeIds /\ t.address \in Addresses /\ t.memstack \in K
         /\ t.left \in Trees(K) /\ t.right \in Trees(K) /\ t.height \in Nat
         /\ t # Lost
<1>1. t \in RootedIn(K, Trees(K))
  BY TreesAre DEF Layer
<1>2. t # Lost
  BY <1>1, NoNode
<1> QED BY <1>1, <1>2 DEF RootedIn

\* A node over two trees is a tree,
LEMMA MakesNode ==
  ASSUME NEW K, NEW n \in NodeIds, NEW a \in Addresses, NEW k \in K,
         NEW l \in Trees(K), NEW r \in Trees(K), NEW h \in Nat
  PROVE  [node |-> n, address |-> a, memstack |-> k, left |-> l, right |-> r, height |-> h]
           \in Trees(K) \ {Null}
<1> DEFINE t == [node |-> n, address |-> a, memstack |-> k, left |-> l, right |-> r, height |-> h]
<1>1. t \in RootedIn(K, Trees(K))
  BY DEF RootedIn
<1>2. t # Null
  BY <1>1, NoNode
<1> QED BY <1>1, <1>2, TreesAre DEF Layer

\* and so is null.
LEMMA NullIsTree ==
  ASSUME NEW K
  PROVE  Null \in Trees(K) /\ Lost \notin Trees(K) /\ Null # Lost
BY TreesAre, NoNode DEF Layer

\* A function on numbers, and one on trees, may be defined from its values before, or
\* on the subtrees.
Unrolls(V, v0, G, f) ==
  f \in [Nat -> V] /\ f[0] = v0 /\ \A n \in Nat : f[n + 1] = G[f[n]]

\* The function on numbers exists: it is the least set of pairs closed under G.
LEMMA NatRecursion ==
  ASSUME NEW V, NEW v0 \in V, NEW G \in [V -> V]
  PROVE  \E f : Unrolls(V, v0, G, f)
<1> DEFINE Closed(X) == /\ <<0, v0>> \in X
                        /\ \A n \in Nat, x \in V : <<n, x>> \in X => <<n + 1, G[x]>> \in X
           R == {z \in Nat \X V : \A X \in SUBSET (Nat \X V) : Closed(X) => z \in X}
           P == {n \in Nat : \E v \in V : <<n, v>> \in R /\ \A w \in V : <<n, w>> \in R => w = v}
<1>1. Closed(R)
  <2>1. <<0, v0>> \in R
    OBVIOUS
  <2>2. ASSUME NEW n \in Nat, NEW x \in V, <<n, x>> \in R PROVE <<n + 1, G[x]>> \in R
    <3>1. <<n + 1, G[x]>> \in Nat \X V
      OBVIOUS
    <3>2. ASSUME NEW X \in SUBSET (Nat \X V), Closed(X) PROVE <<n + 1, G[x]>> \in X
      <4>1. <<n, x>> \in X
        BY <2>2, <3>2
      <4> QED BY <3>2, <4>1
    <3> QED BY <3>1, <3>2
  <2> QED BY <2>1, <2>2
<1>2. ASSUME NEW X \in SUBSET (Nat \X V), Closed(X) PROVE R \subseteq X
  BY <1>2
<1>3. R \subseteq Nat \X V
  OBVIOUS
<1> HIDE DEF R
<1>4. 0 \in P
  <2>1. ASSUME NEW w \in V, <<0, w>> \in R, w # v0 PROVE FALSE
    <3>1. Closed(R \ {<<0, w>>})
      <4>1. <<0, v0>> \in R \ {<<0, w>>}
        BY <1>1, <2>1
      <4>2. ASSUME NEW n \in Nat, NEW x \in V, <<n, x>> \in R \ {<<0, w>>}
            PROVE  <<n + 1, G[x]>> \in R \ {<<0, w>>}
        <5>1. <<n + 1, G[x]>> \in R
          BY <1>1, <4>2
        <5>2. n + 1 # 0
          OBVIOUS
        <5> QED BY <5>1, <5>2
      <4> QED BY <4>1, <4>2
    <3>2. R \subseteq R \ {<<0, w>>}
      BY <1>2, <1>3, <3>1
    <3> QED BY <2>1, <3>2
  <2> QED BY <1>1, <2>1
<1>5. ASSUME NEW n \in P PROVE n + 1 \in P
  <2>1. PICK x \in V : <<n, x>> \in R /\ \A w \in V : <<n, w>> \in R => w = x
    OBVIOUS
  <2>2. n \in Nat /\ n + 1 \in Nat /\ G[x] \in V /\ <<n + 1, G[x]>> \in R
    BY <1>1, <2>1
  <2>3. ASSUME NEW w \in V, <<n + 1, w>> \in R, w # G[x] PROVE FALSE
    <3>1. Closed(R \ {<<n + 1, w>>})
      <4>1. <<0, v0>> \in R \ {<<n + 1, w>>}
        <5>1. n + 1 # 0
          BY <2>2
        <5> QED BY <1>1, <5>1
      <4>2. ASSUME NEW m \in Nat, NEW y \in V, <<m, y>> \in R \ {<<n + 1, w>>}
            PROVE  <<m + 1, G[y]>> \in R \ {<<n + 1, w>>}
        <5>1. <<m + 1, G[y]>> \in R /\ <<m, y>> \in R
          BY <1>1, <4>2
        <5>2. m + 1 = n + 1 => y = x
          <6>1. m + 1 = n + 1 => m = n
            BY <2>2
          <6> QED BY <2>1, <5>1, <6>1
        <5> QED BY <2>3, <5>1, <5>2
      <4> QED BY <4>1, <4>2
    <3>2. R \subseteq R \ {<<n + 1, w>>}
      BY <1>2, <1>3, <3>1
    <3> QED BY <2>3, <3>2
  <2> QED BY <2>2, <2>3
<1>6. P = Nat
  <2> HIDE DEF P
  <2>1. P \subseteq Nat
    BY DEF P
  <2> QED BY <1>4, <1>5, <2>1, Naturals
<1> DEFINE f == [n \in Nat |-> CHOOSE v \in V : <<n, v>> \in R]
<1>7. \A n \in Nat : f[n] \in V /\ <<n, f[n]>> \in R /\ \A w \in V : <<n, w>> \in R => w = f[n]
  BY <1>6
<1> HIDE DEF P
<1>8. f \in [Nat -> V]
  BY <1>7
<1> HIDE DEF f
<1>9. f[0] = v0
  BY <1>1, <1>7
<1>10. ASSUME NEW n \in Nat PROVE f[n + 1] = G[f[n]]
  <2>1. PICK x \in V : x = f[n]
    BY <1>8
  <2>2. <<n, x>> \in R
    BY <1>7, <2>1
  <2>3. <<n + 1, G[x]>> \in R /\ G[x] \in V /\ n + 1 \in Nat
    BY <1>1, <2>2
  <2> QED BY <1>7, <2>1, <2>3
<1> QED BY <1>8, <1>9, <1>10 DEF Unrolls

\* G[u][x][y] is the value at u if x and y are those at its subtrees, v0 is that of no
\* tree, and R relates the trees of S to the values they may have.
Closed(K, S) ==
  /\ S \in SUBSET Trees(K) /\ Null \in S
  /\ \A u \in S \ {Null} : u.left \in S /\ u.right \in S
Stays(S, V, R, v0, G) ==
  /\ R \in SUBSET (S \X V) /\ <<Null, v0>> \in R
  /\ \A u \in S \ {Null} : \A x \in V, y \in V :
       <<u.left, x>> \in R /\ <<u.right, y>> \in R => <<u, G[u][x][y]>> \in R
Follows(S, V, v0, G, f) ==
  /\ f[Null] = v0
  /\ \A u \in S \ {Null} : f[u.left] \in V /\ f[u.right] \in V => f[u] = G[u][f[u.left]][f[u.right]]

\* What a recursive function on trees is related to.
LEMMA TreeValues ==
  ASSUME NEW K, NEW S, Closed(K, S), NEW V, NEW R, NEW v0, NEW G, Stays(S, V, R, v0, G),
         NEW f, Follows(S, V, v0, G, f)
  PROVE  \A u \in S : <<u, f[u]>> \in R
<1> DEFINE P == {u \in Trees(K) : u \in S => <<u, f[u]>> \in R}
<1>1. Null \in P
  BY NullIsTree DEF Stays, Follows
<1>2. ASSUME NEW u \in Trees(K) \ {Null}, u.left \in P, u.right \in P PROVE u \in P
  <2>1. SUFFICES ASSUME u \in S PROVE <<u, f[u]>> \in R
    OBVIOUS
  <2>2. PICK x : x = f[u.left]
    OBVIOUS
  <2>3. PICK y : y = f[u.right]
    OBVIOUS
  <2>4. u.left \in S /\ u.right \in S
    BY <2>1 DEF Closed
  <2>5. <<u.left, x>> \in R /\ <<u.right, y>> \in R
    BY <1>2, <2>2, <2>3, <2>4
  <2>6. x \in V /\ y \in V
    BY <2>5 DEF Stays
  <2>7. f[u] = G[u][x][y]
    BY <2>1, <2>2, <2>3, <2>6 DEF Follows
  <2> QED BY <2>1, <2>5, <2>6, <2>7 DEF Stays
<1> HIDE DEF P
<1>3. Trees(K) \subseteq P
  BY <1>1, <1>2, TreeInduction
<1> QED BY <1>3 DEF P, Closed

\* And that it exists.
LEMMA TreeRecursion ==
  ASSUME NEW K, NEW S, Closed(K, S), NEW V, NEW R, NEW v0, NEW G, Stays(S, V, R, v0, G)
  PROVE  \E f \in [S -> V] : Follows(S, V, v0, G, f)
<1> DEFINE Pass(X) == /\ <<Null, v0>> \in X
                      /\ \A u \in S \ {Null} : \A x \in V, y \in V :
                           <<u.left, x>> \in X /\ <<u.right, y>> \in X => <<u, G[u][x][y]>> \in X
           W == {z \in S \X V : \A X \in SUBSET (S \X V) : Pass(X) => z \in X}
           P == {u \in Trees(K) : u \in S =>
                   \E v \in V : <<u, v>> \in W /\ \A w \in V : <<u, w>> \in W => w = v}
<1>0. Null \in S /\ v0 \in V /\ \A u \in S \ {Null} : u.left \in S /\ u.right \in S
  BY DEF Closed, Stays
<1>g. Pass(R) /\ R \in SUBSET (S \X V)
  BY DEF Stays
<1>1. Pass(W)
  <2>1. <<Null, v0>> \in W
    BY <1>0
  <2>2. ASSUME NEW u \in S \ {Null}, NEW x \in V, NEW y \in V, <<u.left, x>> \in W, <<u.right, y>> \in W
        PROVE  <<u, G[u][x][y]>> \in W
    <3>1. ASSUME NEW X \in SUBSET (S \X V), Pass(X) PROVE <<u, G[u][x][y]>> \in X
      <4>1. <<u.left, x>> \in X /\ <<u.right, y>> \in X
        BY <2>2, <3>1
      <4> QED BY <3>1, <4>1
    <3>2. <<u, G[u][x][y]>> \in R
      BY <1>g, <3>1
    <3>3. <<u, G[u][x][y]>> \in S \X V
      BY <1>g, <3>2
    <3> QED BY <3>1, <3>3
  <2> QED BY <2>1, <2>2
<1>2. ASSUME NEW X \in SUBSET (S \X V), Pass(X) PROVE W \subseteq X
  BY <1>2
<1>3. W \subseteq S \X V
  OBVIOUS
<1> HIDE DEF W
<1>v. \A u \in S \ {Null} : \A x \in V, y \in V :
        <<u.left, x>> \in W /\ <<u.right, y>> \in W => G[u][x][y] \in V
  BY <1>1, <1>3
<1>4. Null \in P
  <2>1. ASSUME NEW w \in V, <<Null, w>> \in W, w # v0 PROVE FALSE
    <3>1. Pass(W \ {<<Null, w>>})
      BY <1>1, <2>1
    <3>2. W \subseteq W \ {<<Null, w>>}
      BY <1>2, <1>3, <3>1
    <3> QED BY <2>1, <3>2
  <2> QED BY <1>0, <1>1, <2>1, NullIsTree
<1>5. ASSUME NEW u \in Trees(K) \ {Null}, u.left \in P, u.right \in P PROVE u \in P
  <2>0. SUFFICES ASSUME u \in S
                 PROVE  \E v \in V : <<u, v>> \in W /\ \A w \in V : <<u, w>> \in W => w = v
    OBVIOUS
  <2>1. PICK x \in V : <<u.left, x>> \in W /\ \A w \in V : <<u.left, w>> \in W => w = x
    BY <1>0, <1>5, <2>0
  <2>2. PICK y \in V : <<u.right, y>> \in W /\ \A w \in V : <<u.right, w>> \in W => w = y
    BY <1>0, <1>5, <2>0
  <2> DEFINE v == G[u][x][y]
  <2>3. v \in V /\ <<u, v>> \in W
    BY <1>1, <1>v, <2>0, <2>1, <2>2
  <2>4. ASSUME NEW w \in V, <<u, w>> \in W, w # v PROVE FALSE
    <3>1. Pass(W \ {<<u, w>>})
      <4>1. <<Null, v0>> \in W \ {<<u, w>>}
        BY <1>1
      <4>2. ASSUME NEW u2 \in S \ {Null}, NEW x2 \in V, NEW y2 \in V,
                   <<u2.left, x2>> \in W \ {<<u, w>>}, <<u2.right, y2>> \in W \ {<<u, w>>}
            PROVE  <<u2, G[u2][x2][y2]>> \in W \ {<<u, w>>}
        <5>1. <<u2, G[u2][x2][y2]>> \in W
          BY <1>1, <4>2
        <5>2. u2 = u => x2 = x /\ y2 = y
          BY <2>1, <2>2, <4>2
        <5> QED BY <2>4, <5>1, <5>2
      <4> QED BY <4>1, <4>2
    <3>2. W \subseteq W \ {<<u, w>>}
      BY <1>2, <1>3, <3>1
    <3> QED BY <2>4, <3>2
  <2> QED BY <2>3, <2>4
<1>6. \A u \in S : \E v \in V : <<u, v>> \in W /\ \A w \in V : <<u, w>> \in W => w = v
  <2> HIDE DEF P
  <2>1. Trees(K) \subseteq P
    BY <1>4, <1>5, TreeInduction
  <2> QED BY <2>1 DEF P, Closed
<1> HIDE DEF P
<1> DEFINE f == [u \in S |-> CHOOSE v \in V : <<u, v>> \in W]
<1>7. \A u \in S : f[u] \in V /\ <<u, f[u]>> \in W /\ \A w \in V : <<u, w>> \in W => w = f[u]
  BY <1>6
<1>8. f \in [S -> V]
  BY <1>7
<1> HIDE DEF f
<1>9. f[Null] = v0
  BY <1>0, <1>1, <1>7
<1>10. ASSUME NEW u \in S \ {Null} PROVE f[u] = G[u][f[u.left]][f[u.right]]
  <2>1. <<u, G[u][f[u.left]][f[u.right]]>> \in W /\ G[u][f[u.left]][f[u.right]] \in V
    BY <1>0, <1>1, <1>7, <1>v
  <2> QED BY <1>7, <2>1
<1> QED BY <1>8, <1>9, <1>10 DEF Follows

\* The trees below one, itself among them; their addresses and nodes.
IsBelow(K, f) ==
  /\ f \in [Trees(K) -> SUBSET Trees(K)]
  /\ f[Null] = {}
  /\ \A u \in Trees(K) \ {Null} : f[u] = {u} \cup f[u.left] \cup f[u.right]
Below(K, t) == (CHOOSE f : IsBelow(K, f))[t]
AddressesBelow(K, t) == {u.address : u \in Below(K, t)}
NodesBelow(K, t) == {u.node : u \in Below(K, t)}

\* In search order at its root, with nodes of its own in each subtree.
Apart(a, n, A, B, M, N) ==
  /\ \A x \in A : x < a
  /\ \A x \in B : x > a
  /\ n \notin M /\ n \notin N /\ M \cap N = {}
FitsBelow(K, u) ==
  Apart(u.address, u.node, AddressesBelow(K, u.left), AddressesBelow(K, u.right),
        NodesBelow(K, u.left), NodesBelow(K, u.right))
Sound(K) == {t \in Trees(K) : \A u \in Below(K, t) : FitsBelow(K, u)}

\* The trees below a node: itself and those below its children.
LEMMA BelowIs ==
  ASSUME NEW K
  PROVE  /\ Below(K, Null) = {}
         /\ \A u \in Trees(K) : Below(K, u) \subseteq Trees(K) \ {Null}
         /\ \A u \in Trees(K) \ {Null} :
              Below(K, u) = {u} \cup Below(K, u.left) \cup Below(K, u.right)
<1> DEFINE T == Trees(K)
           V == SUBSET (T \ {Null})
           G == [u \in T |-> [x \in V |-> [y \in V |-> ({u} \ {Null}) \cup x \cup y]]]
           R == T \X V
<1>0. Closed(K, T)
  BY NullIsTree, NodeIs DEF Closed
<1>1. PICK none \in V : none = {}
  OBVIOUS
<1>2. PICK f \in [T -> V] : f[Null] = none /\ \A u \in T \ {Null} : f[u] = G[u][f[u.left]][f[u.right]]
  <2>1. \A u \in T, x \in V, y \in V : G[u][x][y] \in V
    OBVIOUS
  <2> HIDE DEF G, V
  <2>2. Stays(T, V, R, none, G)
    BY <2>1, NullIsTree DEF Stays
  <2> HIDE DEF R
  <2>3. \E f \in [T -> V] : Follows(T, V, none, G, f)
    BY <1>0, <2>2, TreeRecursion
  <2>4. \A u \in T \ {Null} : u.left \in T /\ u.right \in T
    BY NodeIs
  <2> HIDE DEF T
  <2> QED BY <2>3, <2>4 DEF Follows
<1>3. ASSUME NEW u \in T \ {Null} PROVE f[u] = {u} \cup f[u.left] \cup f[u.right]
  <2>1. u \in T /\ u.left \in T /\ u.right \in T /\ u # Null
    BY NodeIs
  <2>2. f[u.left] \in V /\ f[u.right] \in V
    BY <2>1
  <2>3. G[u][f[u.left]][f[u.right]] = ({u} \ {Null}) \cup f[u.left] \cup f[u.right]
    <3>1. \A x \in V, y \in V : G[u][x][y] = ({u} \ {Null}) \cup x \cup y
      BY <2>1
    <3> HIDE DEF G, V
    <3> QED BY <2>2, <3>1
  <2> QED BY <1>2, <2>1, <2>3
<1>4. IsBelow(K, f)
  BY <1>1, <1>2, <1>3 DEF IsBelow
<1> DEFINE g == CHOOSE h : IsBelow(K, h)
<1>5. IsBelow(K, g)
  BY <1>4
<1> HIDE DEF g
<1>6. \A u : Below(K, u) = g[u]
  BY DEF Below, g
<1>7. ASSUME NEW u \in T PROVE Null \notin g[u]
  <2> DEFINE P == {x \in T : Null \notin g[x]}
  <2>1. Null \in P
    BY <1>5, NullIsTree DEF IsBelow
  <2>2. ASSUME NEW x \in T \ {Null}, x.left \in P, x.right \in P PROVE x \in P
    BY <1>5, <2>2 DEF IsBelow
  <2> HIDE DEF P
  <2>3. T \subseteq P
    BY <2>1, <2>2, TreeInduction
  <2> QED BY <2>3 DEF P
<1> QED BY <1>5, <1>6, <1>7 DEF IsBelow

\* What is below a tree that is below another is below that one.
LEMMA BelowBelow ==
  ASSUME NEW K, NEW t \in Trees(K), NEW u \in Below(K, t)
  PROVE  /\ u \in Trees(K) \ {Null}
         /\ Below(K, u) \subseteq Below(K, t)
         /\ u.left \in Below(K, t) \cup {Null} /\ u.right \in Below(K, t) \cup {Null}
<1> DEFINE P == {x \in Trees(K) : \A y \in Below(K, x) : Below(K, y) \subseteq Below(K, x)}
<1>1. Null \in P
  BY BelowIs, NullIsTree
<1>2. ASSUME NEW x \in Trees(K) \ {Null}, x.left \in P, x.right \in P PROVE x \in P
  <2>1. Below(K, x) = {x} \cup Below(K, x.left) \cup Below(K, x.right)
    BY BelowIs
  <2> QED BY <1>2, <2>1
<1> HIDE DEF P
<1>3. Trees(K) \subseteq P
  BY <1>1, <1>2, TreeInduction
<1>4. Below(K, u) \subseteq Below(K, t)
  BY <1>3 DEF P
<1>5. u \in Trees(K) \ {Null}
  BY BelowIs
<1>6. u.left \in Trees(K) /\ u.right \in Trees(K)
  BY <1>5, NodeIs
<1>7. \A x \in Trees(K) : x \in Below(K, x) \cup {Null}
  BY BelowIs
<1>8. Below(K, u.left) \subseteq Below(K, u) /\ Below(K, u.right) \subseteq Below(K, u)
  BY <1>5, BelowIs
<1> QED BY <1>4, <1>5, <1>6, <1>7, <1>8

\* Below a tree is the tree, and what has a parent there.
LEMMA Parent ==
  ASSUME NEW K, NEW t \in Trees(K), NEW u \in Below(K, t), u # t
  PROVE  \E p \in Below(K, t) : u = p.left \/ u = p.right
<1> DEFINE P == {x \in Trees(K) : \A y \in Below(K, x) :
                    y = x \/ \E p \in Below(K, x) : y = p.left \/ y = p.right}
<1>1. Null \in P
  BY BelowIs, NullIsTree
<1>2. ASSUME NEW x \in Trees(K) \ {Null}, x.left \in P, x.right \in P PROVE x \in P
  <2>1. Below(K, x) = {x} \cup Below(K, x.left) \cup Below(K, x.right)
    BY BelowIs
  <2>2. ASSUME NEW y \in Below(K, x), y # x
        PROVE  \E p \in Below(K, x) : y = p.left \/ y = p.right
    <3>1. CASE y \in Below(K, x.left)
      <4>1. y = x.left \/ \E p \in Below(K, x.left) : y = p.left \/ y = p.right
        BY <1>2, <3>1
      <4> QED BY <2>1, <4>1
    <3>2. CASE y \in Below(K, x.right)
      <4>1. y = x.right \/ \E p \in Below(K, x.right) : y = p.left \/ y = p.right
        BY <1>2, <3>2
      <4> QED BY <2>1, <4>1
    <3> QED BY <2>1, <2>2, <3>1, <3>2
  <2> QED BY <2>2
<1> HIDE DEF P
<1>3. Trees(K) \subseteq P
  BY <1>1, <1>2, TreeInduction
<1> QED BY <1>3 DEF P

\* The subtrees of a sound tree are sound, and so is what is made of two if it fits.
LEMMA SoundIs ==
  ASSUME NEW K
  PROVE  /\ Null \in Sound(K) /\ Lost \notin Sound(K)
         /\ \A u \in Trees(K) \ {Null} :
              u \in Sound(K) <=> u.left \in Sound(K) /\ u.right \in Sound(K) /\ FitsBelow(K, u)
<1>1. Null \in Sound(K) /\ Lost \notin Sound(K)
  BY BelowIs, NullIsTree DEF Sound
<1>2. ASSUME NEW u \in Trees(K) \ {Null}
      PROVE  u \in Sound(K) <=> u.left \in Sound(K) /\ u.right \in Sound(K) /\ FitsBelow(K, u)
  <2>1. Below(K, u) = {u} \cup Below(K, u.left) \cup Below(K, u.right)
    BY BelowIs
  <2>2. u.left \in Trees(K) /\ u.right \in Trees(K)
    BY NodeIs
  <2> QED BY <2>1, <2>2 DEF Sound
<1> QED BY <1>1, <1>2

\* A child of a sound tree has fewer addresses below it.
LEMMA FewerBelow ==
  ASSUME NEW K, NEW u \in Sound(K) \ {Null}
  PROVE  /\ IsFiniteSet(AddressesBelow(K, u)) /\ AddressesBelow(K, u) \subseteq Addresses
         /\ Cardinality(AddressesBelow(K, u.left)) < Cardinality(AddressesBelow(K, u))
         /\ Cardinality(AddressesBelow(K, u.right)) < Cardinality(AddressesBelow(K, u))
<1>1. u \in Trees(K) \ {Null} /\ FitsBelow(K, u)
  BY SoundIs DEF Sound
<1>2. Below(K, u) = {u} \cup Below(K, u.left) \cup Below(K, u.right)
  BY <1>1, BelowIs
<1>3. Below(K, u) \subseteq Trees(K) \ {Null}
  BY <1>1, BelowIs
<1>4. AddressesBelow(K, u) \subseteq Addresses
  BY <1>3, NodeIs DEF AddressesBelow
<1>5. /\ AddressesBelow(K, u.left) \subseteq AddressesBelow(K, u)
      /\ AddressesBelow(K, u.right) \subseteq AddressesBelow(K, u)
      /\ u.address \in AddressesBelow(K, u)
  BY <1>2 DEF AddressesBelow
<1>6. u.address \in Nat
  BY <1>4, <1>5, HeapTreeAssumption
<1>7. u.address \notin AddressesBelow(K, u.left) /\ u.address \notin AddressesBelow(K, u.right)
  BY <1>1, <1>6 DEF FitsBelow, Apart
<1>8. IsFiniteSet(AddressesBelow(K, u))
  BY <1>4, HeapTreeAssumption, FS_Subset
<1>9. ASSUME NEW A \in SUBSET AddressesBelow(K, u), u.address \notin A
      PROVE  Cardinality(A) < Cardinality(AddressesBelow(K, u))
  <2>1. /\ IsFiniteSet(A) /\ Cardinality(A) <= Cardinality(AddressesBelow(K, u))
        /\ Cardinality(A) = Cardinality(AddressesBelow(K, u)) => A = AddressesBelow(K, u)
    BY <1>8, FS_Subset
  <2>2. A # AddressesBelow(K, u)
    BY <1>5, <1>9
  <2>3. Cardinality(A) \in Nat /\ Cardinality(AddressesBelow(K, u)) \in Nat
    BY <1>8, <2>1, FS_CardinalityType
  <2> QED BY <2>1, <2>2, <2>3
<1> QED BY <1>4, <1>5, <1>7, <1>8, <1>9

\* The walk from a tree to all below: what is reached in n steps.
Wider(X) == (UNION {{u, u.left, u.right} : u \in X}) \ {Null, Lost}
Walk(t, w) == w = [n \in Nat |-> IF n = 0 THEN {t} \ {Null, Lost}
                                 ELSE (UNION {{u, u.left, u.right} : u \in w[n - 1]}) \ {Null, Lost}]

\* The walk of Subtrees starts with the tree and adds children.
LEMMA WalkSteps ==
  ASSUME NEW t, NEW w, Walk(t, w)
  PROVE  /\ w[0] = {t} \ {Null, Lost}
         /\ \A n \in Nat : w[n + 1] = Wider(w[n])
<1>1. w[0] = {t} \ {Null, Lost}
  BY DEF Walk
<1>2. ASSUME NEW n \in Nat PROVE w[n + 1] = Wider(w[n])
  <2>1. n + 1 \in Nat /\ n + 1 # 0 /\ (n + 1) - 1 = n
    OBVIOUS
  <2>2. \A m \in Nat : w[m] = IF m = 0 THEN {t} \ {Null, Lost}
                              ELSE (UNION {{u, u.left, u.right} : u \in w[m - 1]}) \ {Null, Lost}
    BY DEF Walk
  <2>3. w[n + 1] = (UNION {{u, u.left, u.right} : u \in w[(n + 1) - 1]}) \ {Null, Lost}
    BY <2>1, <2>2
  <2> QED BY <2>1, <2>3 DEF Wider
<1> QED BY <1>1, <1>2

\* A step of it keeps what it has.
LEMMA WiderIs ==
  ASSUME NEW K, NEW X \in SUBSET (Trees(K) \ {Null})
  PROVE  /\ Wider(X) \in SUBSET (Trees(K) \ {Null})
         /\ X \subseteq Wider(X)
         /\ \A u \in X : u.left \in Wider(X) \cup {Null} /\ u.right \in Wider(X) \cup {Null}
         /\ \A v \in Wider(X) : \E u \in X : v \in {u, u.left, u.right} /\ v # Null
<1>1. \A u \in X : u # Null /\ u # Lost /\ u.left \in Trees(K) /\ u.right \in Trees(K)
                   /\ u.left # Lost /\ u.right # Lost
  BY NodeIs, NullIsTree
<1>2. \A v : v \in Wider(X) <=> v # Null /\ v # Lost /\ \E u \in X : v = u \/ v = u.left \/ v = u.right
  <2>1. TAKE v
  <2>2. ASSUME v \in Wider(X)
        PROVE  v # Null /\ v # Lost /\ \E u \in X : v = u \/ v = u.left \/ v = u.right
    <3>1. PICK s \in {{u, u.left, u.right} : u \in X} : v \in s
      BY <2>2 DEF Wider
    <3>2. v # Null /\ v # Lost
      BY <2>2 DEF Wider
    <3> QED BY <3>1, <3>2
  <2>3. ASSUME v # Null, v # Lost, NEW u \in X, v = u \/ v = u.left \/ v = u.right
        PROVE  v \in Wider(X)
    <3>1. {u, u.left, u.right} \in {{x, x.left, x.right} : x \in X}
      OBVIOUS
    <3>2. v \in {u, u.left, u.right}
      BY <2>3
    <3>3. v \in UNION {{x, x.left, x.right} : x \in X}
      BY <3>1, <3>2
    <3> QED BY <2>3, <3>3 DEF Wider
  <2> QED BY <2>2, <2>3
<1>3. ASSUME NEW v \in Wider(X) PROVE v \in Trees(K) \ {Null}
  <2>1. PICK u \in X : v = u \/ v = u.left \/ v = u.right
    BY <1>2
  <2> QED BY <1>1, <1>2, <2>1
<1>4. ASSUME NEW u \in X
      PROVE  u \in Wider(X) /\ u.left \in Wider(X) \cup {Null} /\ u.right \in Wider(X) \cup {Null}
  BY <1>1, <1>2
<1>5. \A v \in Wider(X) : \E u \in X : v \in {u, u.left, u.right} /\ v # Null
  BY <1>2
<1> QED BY <1>3, <1>4, <1>5

\* The walk exists, because its steps are a function on numbers.
LEMMA WalkExists ==
  ASSUME NEW K, NEW t \in Trees(K)
  PROVE  \E w : Walk(t, w)
<1> DEFINE V == SUBSET (Trees(K) \ {Null})
           G == [X \in V |-> Wider(X)]
<1>1. G \in [V -> V]
  BY WiderIs
<1>2. PICK start \in V : start = {t} \ {Null, Lost}
  OBVIOUS
<1>3. PICK f : Unrolls(V, start, G, f)
  <2> HIDE DEF V, G
  <2> QED BY <1>1, NatRecursion
<1>4. f \in [Nat -> V] /\ f[0] = start
  BY <1>3 DEF Unrolls
<1>5. ASSUME NEW n \in Nat
      PROVE  f[n] = IF n = 0 THEN {t} \ {Null, Lost}
                    ELSE (UNION {{u, u.left, u.right} : u \in f[n - 1]}) \ {Null, Lost}
  <2>1. CASE n = 0
    BY <1>2, <1>4, <2>1
  <2>2. CASE n # 0
    <3>1. n - 1 \in Nat /\ (n - 1) + 1 = n
      BY <2>2
    <3>2. PICK X \in V : X = f[n - 1]
      BY <1>4, <3>1
    <3>3. f[n] = G[X]
      <4> HIDE DEF G, V
      <4>1. f[(n - 1) + 1] = G[f[n - 1]]
        BY <1>3, <3>1 DEF Unrolls
      <4> QED BY <3>1, <3>2, <4>1
    <3>4. f[n] = Wider(X)
      BY <3>3
    <3> QED BY <2>2, <3>2, <3>4 DEF Wider
  <2> QED BY <2>1, <2>2
<1>6. f = [n \in Nat |-> f[n]]
  BY <1>4
<1>7. Walk(t, f)
  BY <1>5, <1>6 DEF Walk
<1> QED BY <1>7

\* After as many steps as there are addresses it has reached every tree below.
LEMMA WalkReaches ==
  ASSUME NEW K, NEW t \in Sound(K), NEW w, Walk(t, w)
  PROVE  w[Cardinality(Addresses)] = Below(K, t)
<1> DEFINE N(u) == Cardinality(AddressesBelow(K, u))
<1>0. t \in Trees(K) /\ Below(K, t) \subseteq Trees(K) \ {Null} /\ Lost # t
  BY BelowIs, NullIsTree DEF Sound
<1>1. \A n \in Nat : w[n] \subseteq Below(K, t)
  <2> DEFINE S == {n \in Nat : w[n] \subseteq Below(K, t)}
  <2>1. 0 \in S
    <3>1. t \in Below(K, t) \cup {Null}
      BY <1>0, BelowIs
    <3> QED BY <3>1, WalkSteps
  <2>2. ASSUME NEW n \in S PROVE n + 1 \in S
    <3>1. n \in Nat /\ n + 1 \in Nat /\ w[n] \subseteq Below(K, t) /\ w[n] \subseteq Trees(K) \ {Null}
      BY <1>0
    <3>2. w[n + 1] = Wider(w[n])
      BY <3>1, WalkSteps
    <3>3. ASSUME NEW v \in Wider(w[n]) PROVE v \in Below(K, t)
      <4>1. PICK u \in w[n] : v \in {u, u.left, u.right} /\ v # Null
        BY <3>1, WiderIs
      <4>2. u \in Below(K, t)
        BY <3>1
      <4>3. u.left \in Below(K, t) \cup {Null} /\ u.right \in Below(K, t) \cup {Null}
        BY <1>0, <4>2, BelowBelow
      <4> QED BY <4>1, <4>2, <4>3
    <3> QED BY <3>1, <3>2, <3>3
  <2> HIDE DEF S
  <2>3. S = Nat
    BY <2>1, <2>2, Naturals DEF S
  <2> QED BY <2>3 DEF S
<1>2. ASSUME NEW n \in Nat
      PROVE  /\ w[n] \subseteq w[n + 1]
             /\ \A u \in w[n] : u.left \in w[n + 1] \cup {Null} /\ u.right \in w[n + 1] \cup {Null}
  <2>1. w[n] \in SUBSET (Trees(K) \ {Null})
    BY <1>0, <1>1
  <2>2. w[n + 1] = Wider(w[n])
    BY WalkSteps
  <2> QED BY <2>1, <2>2, WiderIs
<1>3. ASSUME NEW u \in Below(K, t) PROVE u \in Sound(K) \ {Null}
  BY <1>0, BelowBelow DEF Sound
<1>4. \A u \in Below(K, t) : N(u) \in Nat
  BY <1>3, FewerBelow, FS_CardinalityType
<1>5. ASSUME NEW p \in Below(K, t), NEW u \in Below(K, t), u = p.left \/ u = p.right
      PROVE  N(u) < N(p)
  BY <1>3, <1>5, FewerBelow
<1>6. ASSUME NEW u \in Below(K, t) PROVE t # Null
  BY BelowIs
<1>7. ASSUME NEW u \in Below(K, t) PROVE t \in Below(K, t)
  BY <1>0, <1>6, BelowIs
<1> HIDE DEF N
<1>8. \A n \in Nat : \A u \in Below(K, t) : u \in w[n] \/ N(u) + n < N(t)
  <2> DEFINE S == {n \in Nat : \A u \in Below(K, t) : u \in w[n] \/ N(u) + n < N(t)}
  <2>1. 0 \in S
    <3>1. ASSUME NEW u \in Below(K, t), u # t PROVE N(u) + 0 < N(t)
      <4>1. Below(K, t) = {t} \cup Below(K, t.left) \cup Below(K, t.right) /\ t \in Trees(K) \ {Null}
        BY <1>0, <1>6, BelowIs
      <4>3. AddressesBelow(K, u) \subseteq AddressesBelow(K, t.left)
            \/ AddressesBelow(K, u) \subseteq AddressesBelow(K, t.right)
        <5>1. u \in Below(K, t.left) \/ u \in Below(K, t.right)
          BY <3>1, <4>1
        <5>2. t.left \in Trees(K) /\ t.right \in Trees(K)
          BY <4>1, NodeIs
        <5>3. Below(K, u) \subseteq Below(K, t.left) \/ Below(K, u) \subseteq Below(K, t.right)
          BY <5>1, <5>2, BelowBelow
        <5> QED BY <5>3 DEF AddressesBelow
      <4>4. t \in Sound(K) \ {Null}
        BY <4>1
      <4>5. /\ AddressesBelow(K, t.left) \subseteq AddressesBelow(K, t)
            /\ AddressesBelow(K, t.right) \subseteq AddressesBelow(K, t)
            /\ IsFiniteSet(AddressesBelow(K, t))
        BY <4>1, <4>4, FewerBelow DEF AddressesBelow
      <4>6. /\ IsFiniteSet(AddressesBelow(K, t.left)) /\ IsFiniteSet(AddressesBelow(K, t.right))
        BY <4>5, FS_Subset
      <4>7. \/ Cardinality(AddressesBelow(K, u)) <= Cardinality(AddressesBelow(K, t.left))
            \/ Cardinality(AddressesBelow(K, u)) <= Cardinality(AddressesBelow(K, t.right))
        BY <4>3, <4>6, FS_Subset
      <4>8. /\ Cardinality(AddressesBelow(K, t.left)) \in Nat /\ Cardinality(AddressesBelow(K, t.right)) \in Nat
            /\ Cardinality(AddressesBelow(K, t)) \in Nat
            /\ Cardinality(AddressesBelow(K, u)) \in Nat
        BY <1>4, <3>1, <1>7, <4>6, FS_CardinalityType DEF N
      <4>9. /\ Cardinality(AddressesBelow(K, t.left)) < Cardinality(AddressesBelow(K, t))
            /\ Cardinality(AddressesBelow(K, t.right)) < Cardinality(AddressesBelow(K, t))
        BY <4>4, FewerBelow
      <4> QED BY <4>7, <4>8, <4>9 DEF N
    <3>2. ASSUME NEW u \in Below(K, t), u = t PROVE u \in w[0]
      BY <1>0, <1>6, <3>2, WalkSteps
    <3> QED BY <3>1, <3>2
  <2>2. ASSUME NEW n \in S PROVE n + 1 \in S
    <3>1. n \in Nat /\ n + 1 \in Nat /\ \A u \in Below(K, t) : u \in w[n] \/ N(u) + n < N(t)
      OBVIOUS
    <3>2. ASSUME NEW u \in Below(K, t), u \notin w[n + 1] PROVE N(u) + (n + 1) < N(t)
      <4>1. u # t
        <5>1. u = t => N(u) + n < N(t)
          BY <3>1, <3>2, <1>2
        <5>2. N(t) \in Nat
          BY <1>4, <1>7
        <5> QED BY <3>1, <5>1, <5>2
      <4>2. PICK p \in Below(K, t) : u = p.left \/ u = p.right
        BY <1>0, <4>1, Parent
      <4>3. u # Null
        BY <1>0
      <4>4. p \notin w[n]
        BY <1>2, <3>1, <3>2, <4>2, <4>3
      <4>5. N(p) + n < N(t) /\ N(u) < N(p)
        BY <1>5, <3>1, <4>2, <4>4
      <4>6. N(p) \in Nat /\ N(t) \in Nat /\ N(u) \in Nat
        BY <1>4, <1>7
      <4> QED BY <3>1, <4>5, <4>6
    <3> QED BY <3>1, <3>2
  <2> HIDE DEF S
  <2>3. S = Nat
    BY <2>1, <2>2, Naturals DEF S
  <2> QED BY <2>3 DEF S
<1>9. ASSUME NEW u \in Below(K, t) PROVE u \in w[Cardinality(Addresses)]
  <2>1. Cardinality(Addresses) \in Nat
    BY HeapTreeAssumption, FS_CardinalityType
  <2>2. t \in Sound(K) \ {Null}
    BY <1>6
  <2>3. AddressesBelow(K, t) \in SUBSET Addresses
    BY <2>2, FewerBelow
  <2>4. N(t) <= Cardinality(Addresses)
    BY <2>3, HeapTreeAssumption, FS_Subset DEF N
  <2>5. N(t) \in Nat /\ N(u) \in Nat
    BY <1>4, <1>7
  <2>6. ~(N(u) + Cardinality(Addresses) < N(t))
    BY <2>1, <2>4, <2>5
  <2> QED BY <1>8, <2>1, <2>6
<1>10. Cardinality(Addresses) \in Nat
  BY HeapTreeAssumption, FS_CardinalityType
<1> QED BY <1>1, <1>9, <1>10

\* So the model's Subtrees are the trees below.
LEMMA SubtreesAre ==
  ASSUME NEW K, NEW t \in Sound(K)
  PROVE  /\ Subtrees(t) = Below(K, t)
         /\ Tracked(t) = AddressesBelow(K, t)
         /\ NodesOf(t) = NodesBelow(K, t)
<1>1. t \in Trees(K)
  BY DEF Sound
<1>2. \E w : Walk(t, w)
  BY <1>1, WalkExists
<1>3. \A w : Walk(t, w) => w[Cardinality(Addresses)] = Below(K, t)
  BY WalkReaches
<1>4. Subtrees(t) = Below(K, t)
  BY <1>2, <1>3 DEF Subtrees, Walk
<1> QED BY <1>4 DEF Tracked, NodesOf, AddressesBelow, NodesBelow

-----------------------------------------------------------------------------
(* Sound trees, in terms of the model's operators.                         *)

\* Null is sound and holds nothing.
LEMMA SoundNull ==
  ASSUME NEW K
  PROVE  /\ Null \in Sound(K) /\ Lost \notin Sound(K) /\ Null # Lost
         /\ Subtrees(Null) = {} /\ Tracked(Null) = {} /\ NodesOf(Null) = {}
<1>1. Null \in Sound(K) /\ Lost \notin Sound(K) /\ Null # Lost
  BY SoundIs, NullIsTree
<1>2. Subtrees(Null) = {}
  BY <1>1, SubtreesAre, BelowIs
<1> QED BY <1>1, <1>2 DEF Tracked, NodesOf

\* What is known of a sound node and of its children.
LEMMA SoundNode ==
  ASSUME NEW K, NEW t \in Sound(K) \ {Null}
  PROVE  /\ t = [node |-> t.node, address |-> t.address, memstack |-> t.memstack,
                 left |-> t.left, right |-> t.right, height |-> t.height]
         /\ t.node \in NodeIds /\ t.address \in Addresses /\ t.memstack \in K /\ t.height \in Nat
         /\ t.left \in Sound(K) /\ t.right \in Sound(K) /\ t # Lost
         /\ Apart(t.address, t.node, Tracked(t.left), Tracked(t.right),
                  NodesOf(t.left), NodesOf(t.right))
         /\ Subtrees(t) = {t} \cup Subtrees(t.left) \cup Subtrees(t.right)
         /\ Tracked(t) = {t.address} \cup Tracked(t.left) \cup Tracked(t.right)
         /\ NodesOf(t) = {t.node} \cup NodesOf(t.left) \cup NodesOf(t.right)
<1>1. t \in Trees(K) \ {Null}
  BY DEF Sound
<1>2. t.left \in Sound(K) /\ t.right \in Sound(K) /\ FitsBelow(K, t)
  BY <1>1, SoundIs
<1>3. Apart(t.address, t.node, Tracked(t.left), Tracked(t.right), NodesOf(t.left), NodesOf(t.right))
  BY <1>2, SubtreesAre DEF FitsBelow
<1>4. Subtrees(t) = {t} \cup Subtrees(t.left) \cup Subtrees(t.right)
  BY <1>1, <1>2, BelowIs, SubtreesAre
<1>5. Tracked(t) = {t.address} \cup Tracked(t.left) \cup Tracked(t.right)
  BY <1>4 DEF Tracked
<1>6. NodesOf(t) = {t.node} \cup NodesOf(t.left) \cup NodesOf(t.right)
  BY <1>4 DEF NodesOf
<1>7. /\ t = [node |-> t.node, address |-> t.address, memstack |-> t.memstack,
              left |-> t.left, right |-> t.right, height |-> t.height]
      /\ t.node \in NodeIds /\ t.address \in Addresses /\ t.memstack \in K /\ t.height \in Nat
      /\ t # Lost
  BY <1>1, NodeIs
<1> QED BY <1>2, <1>3, <1>4, <1>5, <1>6, <1>7

\* A node over two sound trees that are on its two sides is sound.
LEMMA SoundMade ==
  ASSUME NEW K, NEW n \in NodeIds, NEW a \in Addresses, NEW k \in K,
         NEW l \in Sound(K), NEW r \in Sound(K), NEW h \in Nat,
         Apart(a, n, Tracked(l), Tracked(r), NodesOf(l), NodesOf(r)),
         NEW t, t = [node |-> n, address |-> a, memstack |-> k, left |-> l, right |-> r, height |-> h]
  PROVE  /\ t \in Sound(K) \ {Null}
         /\ Tracked(t) = {a} \cup Tracked(l) \cup Tracked(r)
         /\ NodesOf(t) = {n} \cup NodesOf(l) \cup NodesOf(r)
<1>1. l \in Trees(K) /\ r \in Trees(K)
  BY DEF Sound
<1>2. t \in Trees(K) \ {Null}
  BY <1>1, MakesNode
<1>3. t.left = l /\ t.right = r /\ t.address = a /\ t.node = n
  OBVIOUS
<1>4. FitsBelow(K, t)
  BY <1>3, SubtreesAre DEF FitsBelow
<1>5. t \in Sound(K)
  BY <1>2, <1>3, <1>4, SoundIs
<1> QED BY <1>2, <1>3, <1>5, SoundNode

\* Induction on sound trees.
LEMMA SoundInduction ==
  ASSUME NEW K, NEW P, Null \in P,
         \A u \in Sound(K) \ {Null} : u.left \in P /\ u.right \in P => u \in P
  PROVE  Sound(K) \subseteq P
<1> DEFINE Q == {t \in Trees(K) : t \in Sound(K) => t \in P}
<1>1. Null \in Q
  BY NullIsTree
<1>2. ASSUME NEW u \in Trees(K) \ {Null}, u.left \in Q, u.right \in Q PROVE u \in Q
  <2>1. u \in Sound(K) => u.left \in Sound(K) /\ u.right \in Sound(K)
    BY SoundIs
  <2> QED BY <1>2, <2>1
<1> HIDE DEF Q
<1>3. Trees(K) \subseteq Q
  BY <1>1, <1>2, TreeInduction
<1> QED BY <1>3 DEF Q, Sound

\* The trees below a sound tree, with Null: what its recursive functions are about.
LEMMA SoundBelow ==
  ASSUME NEW K, NEW t \in Sound(K)
  PROVE  /\ Subtrees(t) \subseteq Sound(K) \ {Null}
         /\ t \in Subtrees(t) \cup {Null}
         /\ \A u \in Subtrees(t) : u.left \in Subtrees(t) \cup {Null}
                                   /\ u.right \in Subtrees(t) \cup {Null}
<1>1. t \in Trees(K)
  BY DEF Sound
<1>2. Subtrees(t) = Below(K, t)
  BY SubtreesAre
<1>3. t \in Below(K, t) \cup {Null}
  BY <1>1, BelowIs
<1>4. ASSUME NEW u \in Below(K, t)
      PROVE  /\ u \in Sound(K) \ {Null}
             /\ u.left \in Below(K, t) \cup {Null} /\ u.right \in Below(K, t) \cup {Null}
  BY <1>1, BelowBelow DEF Sound
<1> QED BY <1>2, <1>3, <1>4

\* What a sound tree holds is finite, and each subtree has a node of its own.
LEMMA SoundTracks ==
  ASSUME NEW K, NEW t \in Sound(K)
  PROVE  /\ Tracked(t) \subseteq Addresses /\ NodesOf(t) \subseteq NodeIds
         /\ IsFiniteSet(Tracked(t)) /\ IsFiniteSet(Subtrees(t)) /\ IsFiniteSet(NodesOf(t))
         /\ Cardinality(NodesOf(t)) = Cardinality(Subtrees(t))
<1>1. Tracked(t) \subseteq Addresses /\ NodesOf(t) \subseteq NodeIds
  <2>1. \A u \in Subtrees(t) : u.address \in Addresses /\ u.node \in NodeIds
    BY SoundBelow, SoundNode
  <2> QED BY <2>1 DEF Tracked, NodesOf
<1>2. IsFiniteSet(Tracked(t))
  BY <1>1, HeapTreeAssumption, FS_Subset
<1> DEFINE P == {x \in Sound(K) : IsFiniteSet(Subtrees(x)) /\ IsFiniteSet(NodesOf(x))
                    /\ Cardinality(NodesOf(x)) = Cardinality(Subtrees(x))}
<1>3. Null \in P
  BY SoundNull, FS_EmptySet
<1>4. ASSUME NEW u \in Sound(K) \ {Null}, u.left \in P, u.right \in P PROVE u \in P
  <2> DEFINE l == u.left
             r == u.right
  <2>1. /\ IsFiniteSet(Subtrees(l)) /\ IsFiniteSet(Subtrees(r))
        /\ IsFiniteSet(NodesOf(l)) /\ IsFiniteSet(NodesOf(r))
        /\ Cardinality(NodesOf(l)) = Cardinality(Subtrees(l))
        /\ Cardinality(NodesOf(r)) = Cardinality(Subtrees(r))
    BY <1>4
  <2>2. /\ Subtrees(u) = {u} \cup Subtrees(l) \cup Subtrees(r)
        /\ NodesOf(u) = {u.node} \cup NodesOf(l) \cup NodesOf(r)
        /\ u.node \notin NodesOf(l) /\ u.node \notin NodesOf(r) /\ NodesOf(l) \cap NodesOf(r) = {}
    BY SoundNode DEF Apart
  <2> HIDE DEF l, r
  <2>3. u \notin Subtrees(l) /\ u \notin Subtrees(r) /\ Subtrees(l) \cap Subtrees(r) = {}
    BY <2>2 DEF NodesOf
  <2>4. /\ IsFiniteSet(Subtrees(l) \cup Subtrees(r)) /\ IsFiniteSet(NodesOf(l) \cup NodesOf(r))
        /\ Cardinality(Subtrees(l) \cup Subtrees(r))
             = Cardinality(Subtrees(l)) + Cardinality(Subtrees(r)) - Cardinality({})
        /\ Cardinality(NodesOf(l) \cup NodesOf(r))
             = Cardinality(NodesOf(l)) + Cardinality(NodesOf(r)) - Cardinality({})
    <3>1. /\ IsFiniteSet(Subtrees(l) \cup Subtrees(r))
          /\ Cardinality(Subtrees(l) \cup Subtrees(r)) = Cardinality(Subtrees(l)) + Cardinality(Subtrees(r))
               - Cardinality(Subtrees(l) \cap Subtrees(r))
      BY <2>1, FS_Union
    <3>2. /\ IsFiniteSet(NodesOf(l) \cup NodesOf(r))
          /\ Cardinality(NodesOf(l) \cup NodesOf(r)) = Cardinality(NodesOf(l)) + Cardinality(NodesOf(r))
               - Cardinality(NodesOf(l) \cap NodesOf(r))
      BY <2>1, FS_Union
    <3> QED BY <2>2, <2>3, <3>1, <3>2
  <2>5. Cardinality(NodesOf(l) \cup NodesOf(r)) = Cardinality(Subtrees(l) \cup Subtrees(r))
    BY <2>1, <2>4
  <2>6. /\ IsFiniteSet((Subtrees(l) \cup Subtrees(r)) \cup {u})
        /\ Cardinality((Subtrees(l) \cup Subtrees(r)) \cup {u}) = Cardinality(Subtrees(l) \cup Subtrees(r)) + 1
    BY <2>3, <2>4, FS_AddElement
  <2>7. /\ IsFiniteSet((NodesOf(l) \cup NodesOf(r)) \cup {u.node})
        /\ Cardinality((NodesOf(l) \cup NodesOf(r)) \cup {u.node}) = Cardinality(NodesOf(l) \cup NodesOf(r)) + 1
    BY <2>2, <2>4, FS_AddElement
  <2>8. Subtrees(u) = (Subtrees(l) \cup Subtrees(r)) \cup {u}
        /\ NodesOf(u) = (NodesOf(l) \cup NodesOf(r)) \cup {u.node}
    BY <2>2
  <2> QED BY <2>5, <2>6, <2>7, <2>8
<1> HIDE DEF P
<1>5. Sound(K) \subseteq P
  BY <1>3, <1>4, SoundInduction
<1> QED BY <1>1, <1>2, <1>5 DEF P

-----------------------------------------------------------------------------
(* Rotations: the tree is lost, or keeps its addresses and its nodes.      *)

Made(K, s, A, M) ==
  s = Lost \/ (s \in Sound(K) \ {Null} /\ Tracked(s) = A /\ NodesOf(s) = M)
Same(K, t, s) == Made(K, s, Tracked(t), NodesOf(t))

\* Stored heights are natural numbers.
LEMMA HeightIs ==
  ASSUME NEW K, NEW l \in Sound(K), NEW r \in Sound(K)
  PROVE  /\ htHeight(l) \in Nat
         /\ Larger(htHeight(l), htHeight(r)) + 1 \in Nat
<1>1. htHeight(l) \in Nat /\ htHeight(r) \in Nat
  BY SoundNode DEF htHeight
<1> QED BY <1>1 DEF Larger

\* A node joined to two sound trees on its two sides is sound.
LEMMA JoinMade ==
  ASSUME NEW K, NEW n \in NodeIds, NEW a \in Addresses, NEW k \in K, NEW l0, NEW r0, NEW h0,
         NEW t, t = [node |-> n, address |-> a, memstack |-> k, left |-> l0, right |-> r0, height |-> h0],
         NEW l \in Sound(K), NEW r \in Sound(K),
         Apart(a, n, Tracked(l), Tracked(r), NodesOf(l), NodesOf(r))
  PROVE  /\ Join(t, l, r) \in Sound(K) \ {Null}
         /\ Tracked(Join(t, l, r)) = {a} \cup Tracked(l) \cup Tracked(r)
         /\ NodesOf(Join(t, l, r)) = {n} \cup NodesOf(l) \cup NodesOf(r)
<1> DEFINE h == Larger(htHeight(l), htHeight(r)) + 1
<1>1. h \in Nat
  BY HeightIs
<1>2. l # Lost /\ r # Lost
  BY SoundNull
<1>3. Join(t, l, r) = [node |-> n, address |-> a, memstack |-> k, left |-> l, right |-> r, height |-> h]
  BY <1>2 DEF Join
<1> HIDE DEF h
<1> QED BY <1>1, <1>3, SoundMade

\* So it is with a new left child,
LEMMA ReplaceLeft ==
  ASSUME NEW K, NEW t \in Sound(K) \ {Null}, NEW l \in Sound(K),
         Apart(t.address, t.node, Tracked(l), Tracked(t.right), NodesOf(l), NodesOf(t.right))
  PROVE  /\ [t EXCEPT !.left = l] \in Sound(K) \ {Null}
         /\ [t EXCEPT !.left = l].left = l
         /\ Tracked([t EXCEPT !.left = l]) = {t.address} \cup Tracked(l) \cup Tracked(t.right)
         /\ NodesOf([t EXCEPT !.left = l]) = {t.node} \cup NodesOf(l) \cup NodesOf(t.right)
<1> DEFINE s == [t EXCEPT !.left = l]
<1>1. s = [node |-> t.node, address |-> t.address, memstack |-> t.memstack,
           left |-> l, right |-> t.right, height |-> t.height]
  BY SoundNode
<1>2. /\ t.node \in NodeIds /\ t.address \in Addresses /\ t.memstack \in K /\ t.height \in Nat
      /\ t.right \in Sound(K)
  BY SoundNode
<1>3. s.left = l
  BY <1>1
<1> HIDE DEF s
<1>4. /\ s \in Sound(K) \ {Null}
      /\ Tracked(s) = {t.address} \cup Tracked(l) \cup Tracked(t.right)
      /\ NodesOf(s) = {t.node} \cup NodesOf(l) \cup NodesOf(t.right)
  BY <1>1, <1>2, SoundMade
<1> QED BY <1>3, <1>4 DEF s

\* or a new right child.
LEMMA ReplaceRight ==
  ASSUME NEW K, NEW t \in Sound(K) \ {Null}, NEW r \in Sound(K),
         Apart(t.address, t.node, Tracked(t.left), Tracked(r), NodesOf(t.left), NodesOf(r))
  PROVE  /\ [t EXCEPT !.right = r] \in Sound(K) \ {Null}
         /\ [t EXCEPT !.right = r].right = r
         /\ Tracked([t EXCEPT !.right = r]) = {t.address} \cup Tracked(t.left) \cup Tracked(r)
         /\ NodesOf([t EXCEPT !.right = r]) = {t.node} \cup NodesOf(t.left) \cup NodesOf(r)
<1> DEFINE s == [t EXCEPT !.right = r]
<1>1. s = [node |-> t.node, address |-> t.address, memstack |-> t.memstack,
           left |-> t.left, right |-> r, height |-> t.height]
  BY SoundNode
<1>2. /\ t.node \in NodeIds /\ t.address \in Addresses /\ t.memstack \in K /\ t.height \in Nat
      /\ t.left \in Sound(K)
  BY SoundNode
<1>3. s.right = r
  BY <1>1
<1> HIDE DEF s
<1>4. /\ s \in Sound(K) \ {Null}
      /\ Tracked(s) = {t.address} \cup Tracked(t.left) \cup Tracked(r)
      /\ NodesOf(s) = {t.node} \cup NodesOf(t.left) \cup NodesOf(r)
  BY <1>1, <1>2, SoundMade
<1> QED BY <1>3, <1>4 DEF s

\* The addresses and nodes around a node whose left child is moved up.
LEMMA TurnRight ==
  ASSUME NEW a \in Nat, NEW b \in Nat, NEW m, NEW n,
         NEW A \in SUBSET Nat, NEW B \in SUBSET Nat, NEW C \in SUBSET Nat, NEW L, NEW M, NEW N,
         Apart(b, m, A, B, L, M), Apart(a, n, {b} \cup A \cup B, C, {m} \cup L \cup M, N)
  PROVE  /\ Apart(a, n, B, C, M, N)
         /\ Apart(b, m, A, {a} \cup B \cup C, L, {n} \cup M \cup N)
<1>1. b < a /\ (\A x \in B : x < a) /\ (\A x \in C : x > a)
  BY DEF Apart
<1>2. \A x \in C : x > b
  BY <1>1
<1> QED BY <1>1, <1>2 DEF Apart

\* And the other way round.
LEMMA TurnLeft ==
  ASSUME NEW a \in Nat, NEW b \in Nat, NEW m, NEW n,
         NEW A \in SUBSET Nat, NEW B \in SUBSET Nat, NEW C \in SUBSET Nat, NEW L, NEW M, NEW N,
         Apart(b, m, B, C, M, N), Apart(a, n, A, {b} \cup B \cup C, L, {m} \cup M \cup N)
  PROVE  /\ Apart(a, n, A, B, L, M)
         /\ Apart(b, m, {a} \cup A \cup B, C, {n} \cup L \cup M, N)
<1>1. b > a /\ (\A x \in B : x > a) /\ (\A x \in A : x < a)
  BY DEF Apart
<1>2. \A x \in A : x < b
  BY <1>1
<1> QED BY <1>1, <1>2 DEF Apart

\* Addresses are numbers.
LEMMA NatTracked ==
  ASSUME NEW K, NEW t \in Sound(K)
  PROVE  Tracked(t) \in SUBSET Nat
BY SoundTracks, HeapTreeAssumption

\* A rotation to the right loses the tree or keeps what it holds;
LEMMA RotatesRight ==
  ASSUME NEW K, NEW t \in Sound(K) \ {Null}
  PROVE  Same(K, t, htRotateRight(t))
<1>1. CASE t.left \in {Null, Lost}
  BY <1>1 DEF htRotateRight, Same, Made
<1>2. CASE t.left \notin {Null, Lost}
  <2>1. PICK l \in Sound(K) \ {Null} : l = t.left
    BY <1>2, SoundNode
  <2>2. PICK r \in Sound(K) : r = t.right
    BY SoundNode
  <2>3. PICK ll \in Sound(K), lr \in Sound(K) : ll = l.left /\ lr = l.right
    BY SoundNode
  <2>4. /\ t.address \in Nat /\ l.address \in Nat
        /\ Tracked(ll) \in SUBSET Nat /\ Tracked(lr) \in SUBSET Nat /\ Tracked(r) \in SUBSET Nat
    BY NatTracked, SoundNode, HeapTreeAssumption
  <2>5. /\ Tracked(l) = {l.address} \cup Tracked(ll) \cup Tracked(lr)
        /\ NodesOf(l) = {l.node} \cup NodesOf(ll) \cup NodesOf(lr)
        /\ Apart(l.address, l.node, Tracked(ll), Tracked(lr), NodesOf(ll), NodesOf(lr))
    BY <2>3, SoundNode
  <2>6. /\ Tracked(t) = {t.address} \cup Tracked(l) \cup Tracked(r)
        /\ NodesOf(t) = {t.node} \cup NodesOf(l) \cup NodesOf(r)
        /\ Apart(t.address, t.node, Tracked(l), Tracked(r), NodesOf(l), NodesOf(r))
    BY <2>1, <2>2, SoundNode
  <2>7. /\ Apart(t.address, t.node, Tracked(lr), Tracked(r), NodesOf(lr), NodesOf(r))
        /\ Apart(l.address, l.node, Tracked(ll), {t.address} \cup Tracked(lr) \cup Tracked(r),
                 NodesOf(ll), {t.node} \cup NodesOf(lr) \cup NodesOf(r))
    BY <2>4, <2>5, <2>6, TurnRight
  <2>8. PICK j : j = Join(t, lr, r)
    OBVIOUS
  <2>9. /\ j \in Sound(K) \ {Null}
        /\ Tracked(j) = {t.address} \cup Tracked(lr) \cup Tracked(r)
        /\ NodesOf(j) = {t.node} \cup NodesOf(lr) \cup NodesOf(r)
    <3>1. /\ t = [node |-> t.node, address |-> t.address, memstack |-> t.memstack,
                  left |-> t.left, right |-> t.right, height |-> t.height]
          /\ t.node \in NodeIds /\ t.address \in Addresses /\ t.memstack \in K
      BY SoundNode
    <3> QED BY <2>7, <2>8, <3>1, JoinMade
  <2>10. PICK h \in Nat : h = Larger(htHeight(ll), t.height) + 1
    <3>1. htHeight(ll) \in Nat /\ t.height \in Nat
      BY HeightIs, SoundNode
    <3>2. Larger(htHeight(ll), t.height) + 1 \in Nat
      BY <3>1 DEF Larger
    <3> QED BY <3>2
  <2>11. PICK s : s = [l EXCEPT !.right = j, !.height = h]
    OBVIOUS
  <2>12. s = [node |-> l.node, address |-> l.address, memstack |-> l.memstack,
              left |-> ll, right |-> j, height |-> h]
    <3>1. l = [node |-> l.node, address |-> l.address, memstack |-> l.memstack,
               left |-> l.left, right |-> l.right, height |-> l.height]
      BY SoundNode
    <3> QED BY <2>3, <2>11, <3>1
  <2>13. /\ s \in Sound(K) \ {Null}
         /\ Tracked(s) = {l.address} \cup Tracked(ll) \cup Tracked(j)
         /\ NodesOf(s) = {l.node} \cup NodesOf(ll) \cup NodesOf(j)
    <3>1. l.node \in NodeIds /\ l.address \in Addresses /\ l.memstack \in K
      BY SoundNode
    <3>2. Apart(l.address, l.node, Tracked(ll), Tracked(j), NodesOf(ll), NodesOf(j))
      BY <2>7, <2>9
    <3>3. j \in Sound(K)
      BY <2>9
    <3> QED BY <2>12, <3>1, <3>2, <3>3, SoundMade
  <2>14. htRotateRight(t) = s
    BY <1>2, <2>1, <2>2, <2>3, <2>8, <2>10, <2>11 DEF htRotateRight
  <2>15. Tracked(s) = Tracked(t) /\ NodesOf(s) = NodesOf(t)
    BY <2>5, <2>6, <2>9, <2>13
  <2> QED BY <2>13, <2>14, <2>15 DEF Same, Made
<1> QED BY <1>1, <1>2

\* so does one to the left,
LEMMA RotatesLeft ==
  ASSUME NEW K, NEW t \in Sound(K) \ {Null}
  PROVE  Same(K, t, htRotateLeft(t))
<1>1. CASE t.right \in {Null, Lost}
  BY <1>1 DEF htRotateLeft, Same, Made
<1>2. CASE t.right \notin {Null, Lost}
  <2>1. PICK r \in Sound(K) \ {Null} : r = t.right
    BY <1>2, SoundNode
  <2>2. PICK l \in Sound(K) : l = t.left
    BY SoundNode
  <2>3. PICK rl \in Sound(K), rr \in Sound(K) : rl = r.left /\ rr = r.right
    BY SoundNode
  <2>4. /\ t.address \in Nat /\ r.address \in Nat
        /\ Tracked(rl) \in SUBSET Nat /\ Tracked(rr) \in SUBSET Nat /\ Tracked(l) \in SUBSET Nat
    BY NatTracked, SoundNode, HeapTreeAssumption
  <2>5. /\ Tracked(r) = {r.address} \cup Tracked(rl) \cup Tracked(rr)
        /\ NodesOf(r) = {r.node} \cup NodesOf(rl) \cup NodesOf(rr)
        /\ Apart(r.address, r.node, Tracked(rl), Tracked(rr), NodesOf(rl), NodesOf(rr))
    BY <2>3, SoundNode
  <2>6. /\ Tracked(t) = {t.address} \cup Tracked(l) \cup Tracked(r)
        /\ NodesOf(t) = {t.node} \cup NodesOf(l) \cup NodesOf(r)
        /\ Apart(t.address, t.node, Tracked(l), Tracked(r), NodesOf(l), NodesOf(r))
    BY <2>1, <2>2, SoundNode
  <2>7. /\ Apart(t.address, t.node, Tracked(l), Tracked(rl), NodesOf(l), NodesOf(rl))
        /\ Apart(r.address, r.node, {t.address} \cup Tracked(l) \cup Tracked(rl), Tracked(rr),
                 {t.node} \cup NodesOf(l) \cup NodesOf(rl), NodesOf(rr))
    BY <2>4, <2>5, <2>6, TurnLeft
  <2>8. PICK j : j = Join(t, l, rl)
    OBVIOUS
  <2>9. /\ j \in Sound(K) \ {Null}
        /\ Tracked(j) = {t.address} \cup Tracked(l) \cup Tracked(rl)
        /\ NodesOf(j) = {t.node} \cup NodesOf(l) \cup NodesOf(rl)
    <3>1. /\ t = [node |-> t.node, address |-> t.address, memstack |-> t.memstack,
                  left |-> t.left, right |-> t.right, height |-> t.height]
          /\ t.node \in NodeIds /\ t.address \in Addresses /\ t.memstack \in K
      BY SoundNode
    <3> QED BY <2>7, <2>8, <3>1, JoinMade
  <2>10. PICK s : s = Join(r, j, rr)
    OBVIOUS
  <2>11. /\ s \in Sound(K) \ {Null}
         /\ Tracked(s) = {r.address} \cup Tracked(j) \cup Tracked(rr)
         /\ NodesOf(s) = {r.node} \cup NodesOf(j) \cup NodesOf(rr)
    <3>1. /\ r = [node |-> r.node, address |-> r.address, memstack |-> r.memstack,
                  left |-> r.left, right |-> r.right, height |-> r.height]
          /\ r.node \in NodeIds /\ r.address \in Addresses /\ r.memstack \in K
      BY SoundNode
    <3>2. Apart(r.address, r.node, Tracked(j), Tracked(rr), NodesOf(j), NodesOf(rr))
      BY <2>7, <2>9
    <3>3. j \in Sound(K)
      BY <2>9
    <3> QED BY <2>10, <3>1, <3>2, <3>3, JoinMade
  <2>12. htRotateLeft(t) = s
    BY <1>2, <2>1, <2>2, <2>3, <2>8, <2>10 DEF htRotateLeft
  <2>13. Tracked(s) = Tracked(t) /\ NodesOf(s) = NodesOf(t)
    BY <2>5, <2>6, <2>9, <2>11
  <2> QED BY <2>11, <2>12, <2>13 DEF Same, Made
<1> QED BY <1>1, <1>2

\* and so do the two double rotations.
LEMMA RotatesLeftRight ==
  ASSUME NEW K, NEW t \in Sound(K) \ {Null}, t.left # Null
  PROVE  Same(K, t, htRotateRight([t EXCEPT !.left = htRotateLeft(t.left)]))
<1>1. PICK l \in Sound(K) \ {Null} : l = t.left
  BY SoundNode
<1>2. PICK x : x = htRotateLeft(l)
  OBVIOUS
<1>3. Same(K, l, x)
  BY <1>2, RotatesLeft
<1>4. CASE x = Lost
  <2>1. [t EXCEPT !.left = x].left = x
    BY SoundNode
  <2>2. htRotateRight([t EXCEPT !.left = x]) = Lost
    BY <1>4, <2>1 DEF htRotateRight
  <2> QED BY <1>1, <1>2, <2>2 DEF Same, Made
<1>5. CASE x # Lost
  <2>1. x \in Sound(K) \ {Null} /\ Tracked(x) = Tracked(t.left) /\ NodesOf(x) = NodesOf(t.left)
    BY <1>1, <1>3, <1>5 DEF Same, Made
  <2>2. Apart(t.address, t.node, Tracked(x), Tracked(t.right), NodesOf(x), NodesOf(t.right))
    BY <2>1, SoundNode
  <2>3. PICK s : s = [t EXCEPT !.left = x]
    OBVIOUS
  <2>4. /\ s \in Sound(K) \ {Null}
        /\ Tracked(s) = {t.address} \cup Tracked(x) \cup Tracked(t.right)
        /\ NodesOf(s) = {t.node} \cup NodesOf(x) \cup NodesOf(t.right)
    BY <2>1, <2>2, <2>3, ReplaceLeft
  <2>5. Tracked(s) = Tracked(t) /\ NodesOf(s) = NodesOf(t)
    BY <2>1, <2>4, SoundNode
  <2>6. Same(K, s, htRotateRight(s))
    BY <2>4, RotatesRight
  <2> QED BY <1>1, <1>2, <2>3, <2>5, <2>6 DEF Same
<1> QED BY <1>4, <1>5

\* The other double rotation.
LEMMA RotatesRightLeft ==
  ASSUME NEW K, NEW t \in Sound(K) \ {Null}, t.right # Null
  PROVE  Same(K, t, htRotateLeft([t EXCEPT !.right = htRotateRight(t.right)]))
<1>1. PICK r \in Sound(K) \ {Null} : r = t.right
  BY SoundNode
<1>2. PICK x : x = htRotateRight(r)
  OBVIOUS
<1>3. Same(K, r, x)
  BY <1>2, RotatesRight
<1>4. CASE x = Lost
  <2>1. [t EXCEPT !.right = x].right = x
    BY SoundNode
  <2>2. htRotateLeft([t EXCEPT !.right = x]) = Lost
    BY <1>4, <2>1 DEF htRotateLeft
  <2> QED BY <1>1, <1>2, <2>2 DEF Same, Made
<1>5. CASE x # Lost
  <2>1. x \in Sound(K) \ {Null} /\ Tracked(x) = Tracked(t.right) /\ NodesOf(x) = NodesOf(t.right)
    BY <1>1, <1>3, <1>5 DEF Same, Made
  <2>2. Apart(t.address, t.node, Tracked(t.left), Tracked(x), NodesOf(t.left), NodesOf(x))
    BY <2>1, SoundNode
  <2>3. PICK s : s = [t EXCEPT !.right = x]
    OBVIOUS
  <2>4. /\ s \in Sound(K) \ {Null}
        /\ Tracked(s) = {t.address} \cup Tracked(t.left) \cup Tracked(x)
        /\ NodesOf(s) = {t.node} \cup NodesOf(t.left) \cup NodesOf(x)
    BY <2>1, <2>2, <2>3, ReplaceRight
  <2>5. Tracked(s) = Tracked(t) /\ NodesOf(s) = NodesOf(t)
    BY <2>1, <2>4, SoundNode
  <2>6. Same(K, s, htRotateLeft(s))
    BY <2>4, RotatesLeft
  <2> QED BY <1>1, <1>2, <2>3, <2>5, <2>6 DEF Same
<1> QED BY <1>4, <1>5

\* Only a child can be too high.
LEMMA Balances ==
  ASSUME NEW K, NEW t \in Sound(K) \ {Null}
  PROVE  /\ htGetBalance(t) > 1 => t.left # Null
         /\ htGetBalance(t) < -1 => t.right # Null
<1>1. htHeight(t.left) \in Nat /\ htHeight(t.right) \in Nat
  BY SoundNode, HeightIs
<1>2. htGetBalance(t) = htHeight(t.left) - htHeight(t.right)
  BY DEF htGetBalance
<1>3. htHeight(Null) = 0
  BY DEF htHeight
<1> QED BY <1>1, <1>2, <1>3

\* A tree that is left as it is.
LEMMA SameTree ==
  ASSUME NEW K, NEW t \in Sound(K) \ {Null}
  PROVE  Same(K, t, t)
BY DEF Same, Made

\* The end of an insertion and the end of a deletion lose the tree or keep what
\* it holds.
LEMMA RebalancesInserted ==
  ASSUME NEW K, NEW t \in Sound(K) \ {Null}, NEW a
  PROVE  Same(K, t, RebalanceInserted(t, a))
<1> DEFINE b == htGetBalance(t)
<1>1. t # Lost
  BY SoundNull
<1>2. b > 1 => Same(K, t, htRotateRight([t EXCEPT !.left = htRotateLeft(t.left)]))
  BY Balances, RotatesLeftRight
<1>3. b < -1 => Same(K, t, htRotateLeft([t EXCEPT !.right = htRotateRight(t.right)]))
  BY Balances, RotatesRightLeft
<1>4. Same(K, t, t) /\ Same(K, t, htRotateRight(t)) /\ Same(K, t, htRotateLeft(t))
  BY SameTree, RotatesRight, RotatesLeft
<1>5. RebalanceInserted(t, a) =
        IF b > 1 /\ a < t.left.address THEN htRotateRight(t)
        ELSE IF b > 1 /\ a > t.left.address THEN htRotateRight([t EXCEPT !.left = htRotateLeft(t.left)])
        ELSE IF b < -1 /\ a > t.right.address THEN htRotateLeft(t)
        ELSE IF b < -1 /\ a < t.right.address
             THEN htRotateLeft([t EXCEPT !.right = htRotateRight(t.right)])
        ELSE t
  BY <1>1 DEF RebalanceInserted
<1> HIDE DEF b
<1> QED BY <1>2, <1>3, <1>4, <1>5

\* The end of a deletion.
LEMMA RebalancesDeleted ==
  ASSUME NEW K, NEW t \in Sound(K) \ {Null}
  PROVE  Same(K, t, RebalanceDeleted(t))
<1> DEFINE b == htGetBalance(t)
<1>1. t # Lost
  BY SoundNull
<1>2. b > 1 => Same(K, t, htRotateRight([t EXCEPT !.left = htRotateLeft(t.left)]))
  BY Balances, RotatesLeftRight
<1>3. b < -1 => Same(K, t, htRotateLeft([t EXCEPT !.right = htRotateRight(t.right)]))
  BY Balances, RotatesRightLeft
<1>4. Same(K, t, t) /\ Same(K, t, htRotateRight(t)) /\ Same(K, t, htRotateLeft(t))
  BY SameTree, RotatesRight, RotatesLeft
<1>5. RebalanceDeleted(t) =
        IF b > 1 /\ htGetBalance(t.left) >= 0 THEN htRotateRight(t)
        ELSE IF b > 1 THEN htRotateRight([t EXCEPT !.left = htRotateLeft(t.left)])
        ELSE IF b < -1 /\ htGetBalance(t.right) < 0 THEN htRotateLeft(t)
        ELSE IF b < -1 /\ htGetBalance(t.right) > 0
             THEN htRotateLeft([t EXCEPT !.right = htRotateRight(t.right)])
        ELSE t
  BY <1>1 DEF RebalanceDeleted
<1> HIDE DEF b
<1> QED BY <1>2, <1>3, <1>4, <1>5

\* Functions on the subtrees of a sound tree can be defined by recursion.
LEMMA SoundClosed ==
  ASSUME NEW K, NEW t \in Sound(K)
  PROVE  /\ Closed(K, Subtrees(t) \cup {Null})
         /\ t \in Subtrees(t) \cup {Null}
         /\ Subtrees(t) \cup {Null} \subseteq Sound(K)
<1>1. Subtrees(t) \cup {Null} \subseteq Sound(K)
  BY SoundBelow, SoundNull
<1>2. Sound(K) \subseteq Trees(K)
  BY DEF Sound
<1> QED BY <1>1, <1>2, SoundBelow DEF Closed

\* What is below is tracked by its root, and its nodes are the root's.
LEMMA BelowTracked ==
  ASSUME NEW K, NEW t \in Sound(K), NEW u \in Subtrees(t) \cup {Null}
  PROVE  /\ Subtrees(u) \subseteq Subtrees(t) /\ Tracked(u) \subseteq Tracked(t)
         /\ NodesOf(u) \subseteq NodesOf(t)
<1>1. CASE u = Null
  BY <1>1, SoundNull
<1>2. CASE u \in Subtrees(t)
  <2>1. t \in Trees(K) /\ Subtrees(t) = Below(K, t)
    BY SubtreesAre DEF Sound
  <2>2. u \in Sound(K)
    BY <1>2, SoundBelow
  <2>3. Subtrees(u) = Below(K, u)
    BY <2>2, SubtreesAre
  <2>4. Subtrees(u) \subseteq Subtrees(t)
    BY <1>2, <2>1, <2>3, BelowBelow
  <2> QED BY <2>4 DEF Tracked, NodesOf
<1> QED BY <1>1, <1>2

-----------------------------------------------------------------------------
(* Insertion.                                                              *)

\* One node of the way to the new one.
Inserted(u, a, x, y) ==
  IF a < u.address THEN RebalanceInserted(Join(u, x, u.right), a)
  ELSE IF a > u.address THEN RebalanceInserted(Join(u, u.left, y), a)
  ELSE u

\* One level of the insertion.
LEMMA InsertedMade ==
  ASSUME NEW K, NEW u \in Sound(K) \ {Null}, NEW a \in Addresses \ Tracked(u), NEW n, n \notin NodesOf(u),
         NEW x, Made(K, x, Tracked(u.left) \cup {a}, NodesOf(u.left) \cup {n}),
         NEW y, Made(K, y, Tracked(u.right) \cup {a}, NodesOf(u.right) \cup {n})
  PROVE  Made(K, Inserted(u, a, x, y), Tracked(u) \cup {a}, NodesOf(u) \cup {n})
<1>1. /\ u = [node |-> u.node, address |-> u.address, memstack |-> u.memstack,
              left |-> u.left, right |-> u.right, height |-> u.height]
      /\ u.node \in NodeIds /\ u.address \in Addresses /\ u.memstack \in K
  BY SoundNode
<1>2. PICK l \in Sound(K), r \in Sound(K) : l = u.left /\ r = u.right
  BY SoundNode
<1>3. /\ Apart(u.address, u.node, Tracked(l), Tracked(r), NodesOf(l), NodesOf(r))
      /\ Tracked(u) = {u.address} \cup Tracked(l) \cup Tracked(r)
      /\ NodesOf(u) = {u.node} \cup NodesOf(l) \cup NodesOf(r)
  BY <1>2, SoundNode
<1>4. a \in Nat /\ u.address \in Nat /\ a # u.address
  BY <1>1, <1>3, HeapTreeAssumption
<1>5. \A b : RebalanceInserted(Lost, b) = Lost
  BY DEF RebalanceInserted
<1>6. ASSUME a < u.address PROVE Made(K, Inserted(u, a, x, y), Tracked(u) \cup {a}, NodesOf(u) \cup {n})
  <2>1. PICK j : j = Join(u, x, r)
    OBVIOUS
  <2>2. Inserted(u, a, x, y) = RebalanceInserted(j, a)
    BY <1>2, <1>6, <2>1 DEF Inserted
  <2>3. CASE x = Lost
    BY <1>5, <2>1, <2>2, <2>3 DEF Join, Made
  <2>4. CASE x # Lost
    <3>1. x \in Sound(K) /\ Tracked(x) = Tracked(l) \cup {a} /\ NodesOf(x) = NodesOf(l) \cup {n}
      BY <1>2, <2>4 DEF Made
    <3>2. Apart(u.address, u.node, Tracked(x), Tracked(r), NodesOf(x), NodesOf(r))
      BY <1>3, <1>6, <3>1 DEF Apart
    <3>3. x \in Sound(K)
      BY <3>1
    <3>4. /\ j \in Sound(K) \ {Null}
          /\ Tracked(j) = {u.address} \cup Tracked(x) \cup Tracked(r)
          /\ NodesOf(j) = {u.node} \cup NodesOf(x) \cup NodesOf(r)
      BY <1>1, <2>1, <3>2, <3>3, JoinMade
    <3>5. Tracked(j) = Tracked(u) \cup {a} /\ NodesOf(j) = NodesOf(u) \cup {n}
      BY <1>3, <3>1, <3>4
    <3>6. Same(K, j, RebalanceInserted(j, a))
      BY <3>4, RebalancesInserted
    <3> QED BY <2>2, <3>5, <3>6 DEF Same
  <2> QED BY <2>3, <2>4
<1>7. ASSUME a > u.address PROVE Made(K, Inserted(u, a, x, y), Tracked(u) \cup {a}, NodesOf(u) \cup {n})
  <2>0. ~(a < u.address)
    BY <1>4, <1>7
  <2>1. PICK j : j = Join(u, l, y)
    OBVIOUS
  <2>2. Inserted(u, a, x, y) = RebalanceInserted(j, a)
    BY <1>2, <1>7, <2>0, <2>1 DEF Inserted
  <2>3. CASE y = Lost
    BY <1>5, <2>1, <2>2, <2>3 DEF Join, Made
  <2>4. CASE y # Lost
    <3>1. y \in Sound(K) /\ Tracked(y) = Tracked(r) \cup {a} /\ NodesOf(y) = NodesOf(r) \cup {n}
      BY <1>2, <2>4 DEF Made
    <3>2. Apart(u.address, u.node, Tracked(l), Tracked(y), NodesOf(l), NodesOf(y))
      BY <1>3, <1>7, <3>1 DEF Apart
    <3>3. y \in Sound(K)
      BY <3>1
    <3>4. /\ j \in Sound(K) \ {Null}
          /\ Tracked(j) = {u.address} \cup Tracked(l) \cup Tracked(y)
          /\ NodesOf(j) = {u.node} \cup NodesOf(l) \cup NodesOf(y)
      BY <1>1, <2>1, <3>2, <3>3, JoinMade
    <3>5. Tracked(j) = Tracked(u) \cup {a} /\ NodesOf(j) = NodesOf(u) \cup {n}
      BY <1>3, <3>1, <3>4
    <3>6. Same(K, j, RebalanceInserted(j, a))
      BY <3>4, RebalancesInserted
    <3> QED BY <2>2, <3>5, <3>6 DEF Same
  <2> QED BY <2>3, <2>4
<1> QED BY <1>4, <1>6, <1>7

Leaf(n, a, k) ==
  [node |-> n, address |-> a, memstack |-> k, left |-> Null, right |-> Null, height |-> 1]

\* A new node alone is a sound tree.
LEMMA LeafMade ==
  ASSUME NEW K, NEW n \in NodeIds, NEW a \in Addresses, NEW k \in K
  PROVE  Made(K, Leaf(n, a, k), {a}, {n})
<1>1. PICK t : t = Leaf(n, a, k)
  OBVIOUS
<1>2. PICK e \in Sound(K) : e = Null
  BY SoundNull
<1>3. Tracked(e) = {} /\ NodesOf(e) = {}
  BY <1>2, SoundNull
<1>4. Apart(a, n, Tracked(e), Tracked(e), NodesOf(e), NodesOf(e))
  BY <1>3 DEF Apart
<1>5. PICK h \in Nat : h = 1
  OBVIOUS
<1>6. t = [node |-> n, address |-> a, memstack |-> k, left |-> e, right |-> e, height |-> h]
  BY <1>1, <1>2, <1>5 DEF Leaf
<1>7. /\ t \in Sound(K) \ {Null}
      /\ Tracked(t) = {a} \cup Tracked(e) \cup Tracked(e)
      /\ NodesOf(t) = {n} \cup NodesOf(e) \cup NodesOf(e)
  BY <1>4, <1>6, SoundMade
<1> QED BY <1>1, <1>3, <1>7 DEF Made

\* An address that is not in a tree is put in, with a node that is not in it: the tree
\* is lost or has both.
LEMMA InsertMade ==
  ASSUME NEW K, NEW t \in Sound(K), NEW n \in NodeIds \ NodesOf(t), NEW a \in Addresses \ Tracked(t),
         NEW k \in K
  PROVE  Made(K, htInsertNodeInternal(t, a, Leaf(n, a, k)), Tracked(t) \cup {a}, NodesOf(t) \cup {n})
<1> DEFINE S == Subtrees(t) \cup {Null}
           V == Sound(K) \cup {Lost}
           new == Leaf(n, a, k)
           R == {z \in S \X V : Made(K, z[2], Tracked(z[1]) \cup {a}, NodesOf(z[1]) \cup {n})}
           G == [u \in S |-> [x \in V |-> [y \in V |-> Inserted(u, a, x, y)]]]
           Is(f) == f = [u \in S |-> IF u = Null THEN new ELSE Inserted(u, a, f[u.left], f[u.right])]
<1>1. Closed(K, S) /\ t \in S /\ S \subseteq Sound(K)
  BY SoundClosed
<1>2. \A u \in S : a \notin Tracked(u) /\ n \notin NodesOf(u)
  BY BelowTracked
<1>3. \A u \in S : \A v : <<u, v>> \in R <=> Made(K, v, Tracked(u) \cup {a}, NodesOf(u) \cup {n})
  BY DEF Made
<1>4. R \in SUBSET (S \X V)
  OBVIOUS
<1>5. \A u \in S, x \in V, y \in V : G[u][x][y] = Inserted(u, a, x, y)
  OBVIOUS
<1> HIDE DEF S, V, R, G
<1>6. Stays(S, V, R, new, G)
  <2>1. <<Null, new>> \in R
    <3>1. Made(K, new, {a}, {n})
      BY LeafMade
    <3>2. Null \in S /\ {a} = Tracked(Null) \cup {a} /\ {n} = NodesOf(Null) \cup {n}
      BY <1>1, SoundNull DEF Closed
    <3> QED BY <1>3, <3>1, <3>2
  <2>2. ASSUME NEW u \in S \ {Null}, NEW x \in V, NEW y \in V, <<u.left, x>> \in R, <<u.right, y>> \in R
        PROVE  <<u, G[u][x][y]>> \in R
    <3>1. u.left \in S /\ u.right \in S /\ u \in Sound(K) \ {Null}
      BY <1>1 DEF Closed
    <3>2. Made(K, x, Tracked(u.left) \cup {a}, NodesOf(u.left) \cup {n})
          /\ Made(K, y, Tracked(u.right) \cup {a}, NodesOf(u.right) \cup {n})
      BY <1>3, <2>2, <3>1
    <3>3. Made(K, Inserted(u, a, x, y), Tracked(u) \cup {a}, NodesOf(u) \cup {n})
      BY <1>2, <3>1, <3>2, InsertedMade
    <3> QED BY <1>3, <1>5, <3>3
  <2> HIDE DEF new
  <2> QED BY <1>4, <2>1, <2>2 DEF Stays
<1> HIDE DEF new
<1>7. \E f : Is(f)
  <2>1. PICK f \in [S -> V] : Follows(S, V, new, G, f)
    BY <1>1, <1>6, TreeRecursion
  <2>2. ASSUME NEW u \in S \ {Null} PROVE f[u] = Inserted(u, a, f[u.left], f[u.right])
    <3>1. f[u.left] \in V /\ f[u.right] \in V
      BY <1>1, <2>1 DEF Closed
    <3> QED BY <1>5, <2>1, <3>1 DEF Follows
  <2>3. f[Null] = new
    BY <2>1 DEF Follows
  <2> QED BY <2>2, <2>3
<1>8. ASSUME NEW f, Is(f) PROVE <<t, f[t]>> \in R
  <2>1. \A u \in S : f[u] = IF u = Null THEN new ELSE Inserted(u, a, f[u.left], f[u.right])
    BY <1>8
  <2>2. Null \in S
    BY <1>1 DEF Closed
  <2>3. Follows(S, V, new, G, f)
    BY <1>5, <2>1, <2>2 DEF Follows
  <2> QED BY <1>1, <1>6, <2>3, TreeValues
<1>9. <<t, htInsertNodeInternal(t, a, new)>> \in R
  BY <1>7, <1>8 DEF htInsertNodeInternal, S, Inserted
<1> QED BY <1>1, <1>3, <1>9 DEF new

\* The tree is lost, or holds what it held.
Kept(K, t, s) ==
  s = Lost \/ (s \in Sound(K) /\ Tracked(s) = Tracked(t) /\ NodesOf(s) = NodesOf(t))

\* One level of the way to an address that is there.
LEMMA InsertedKept ==
  ASSUME NEW K, NEW u \in Sound(K) \ {Null}, NEW a \in Addresses,
         NEW x, Kept(K, u.left, x), NEW y, Kept(K, u.right, y)
  PROVE  Kept(K, u, Inserted(u, a, x, y))
<1>1. /\ u = [node |-> u.node, address |-> u.address, memstack |-> u.memstack,
              left |-> u.left, right |-> u.right, height |-> u.height]
      /\ u.node \in NodeIds /\ u.address \in Addresses /\ u.memstack \in K
  BY SoundNode
<1>2. PICK l \in Sound(K), r \in Sound(K) : l = u.left /\ r = u.right
  BY SoundNode
<1>3. /\ Apart(u.address, u.node, Tracked(l), Tracked(r), NodesOf(l), NodesOf(r))
      /\ Tracked(u) = {u.address} \cup Tracked(l) \cup Tracked(r)
      /\ NodesOf(u) = {u.node} \cup NodesOf(l) \cup NodesOf(r)
  BY <1>2, SoundNode
<1>4. ASSUME NEW v \in Sound(K), Tracked(v) = Tracked(l), NodesOf(v) = NodesOf(l),
             NEW w \in Sound(K), Tracked(w) = Tracked(r), NodesOf(w) = NodesOf(r)
      PROVE  Kept(K, u, RebalanceInserted(Join(u, v, w), a))
  <2>1. Apart(u.address, u.node, Tracked(v), Tracked(w), NodesOf(v), NodesOf(w))
    BY <1>3, <1>4
  <2>2. PICK j : j = Join(u, v, w)
    OBVIOUS
  <2>3. /\ j \in Sound(K) \ {Null}
        /\ Tracked(j) = {u.address} \cup Tracked(v) \cup Tracked(w)
        /\ NodesOf(j) = {u.node} \cup NodesOf(v) \cup NodesOf(w)
    BY <1>1, <2>1, <2>2, JoinMade
  <2>4. Tracked(j) = Tracked(u) /\ NodesOf(j) = NodesOf(u)
    BY <1>3, <1>4, <2>3
  <2>5. Same(K, j, RebalanceInserted(j, a))
    BY <2>3, RebalancesInserted
  <2> QED BY <2>2, <2>4, <2>5 DEF Same, Made, Kept
<1>5. \A v, w : v = Lost \/ w = Lost => RebalanceInserted(Join(u, v, w), a) = Lost
  BY DEF Join, RebalanceInserted
<1>6. Kept(K, u, RebalanceInserted(Join(u, x, u.right), a))
  <2>1. CASE x = Lost
    BY <1>5, <2>1 DEF Kept
  <2>2. CASE x # Lost
    BY <1>2, <1>4, <2>2 DEF Kept
  <2> QED BY <2>1, <2>2
<1>7. Kept(K, u, RebalanceInserted(Join(u, u.left, y), a))
  <2>1. CASE y = Lost
    BY <1>5, <2>1 DEF Kept
  <2>2. CASE y # Lost
    BY <1>2, <1>4, <2>2 DEF Kept
  <2> QED BY <2>1, <2>2
<1>8. Kept(K, u, u)
  BY DEF Kept
<1> QED BY <1>6, <1>7, <1>8 DEF Inserted

\* Where an address is put that may be there, and no node is made: the tree is lost, or
\* is another tree with the same addresses and the same nodes.
LEMMA InsertKept ==
  ASSUME NEW K, NEW t \in Sound(K), NEW a \in Addresses
  PROVE  Kept(K, t, htInsertNodeInternal(t, a, Null))
<1> DEFINE S == Subtrees(t) \cup {Null}
           V == Sound(K) \cup {Lost}
           R == {z \in S \X V : Kept(K, z[1], z[2])}
           G == [u \in S |-> [x \in V |-> [y \in V |-> Inserted(u, a, x, y)]]]
           Is(f) == f = [u \in S |-> IF u = Null THEN Null ELSE Inserted(u, a, f[u.left], f[u.right])]
<1>1. Closed(K, S) /\ t \in S /\ S \subseteq Sound(K)
  BY SoundClosed
<1>2. \A u \in S : \A v : <<u, v>> \in R <=> Kept(K, u, v)
  BY DEF Kept
<1>3. R \in SUBSET (S \X V)
  OBVIOUS
<1>4. \A u \in S, x \in V, y \in V : G[u][x][y] = Inserted(u, a, x, y)
  OBVIOUS
<1> HIDE DEF S, V, R, G
<1>5. Stays(S, V, R, Null, G)
  <2>1. <<Null, Null>> \in R
    <3>1. Null \in S /\ Kept(K, Null, Null)
      BY <1>1, SoundNull DEF Closed, Kept
    <3> QED BY <1>2, <3>1
  <2>2. ASSUME NEW u \in S \ {Null}, NEW x \in V, NEW y \in V, <<u.left, x>> \in R, <<u.right, y>> \in R
        PROVE  <<u, G[u][x][y]>> \in R
    <3>1. u.left \in S /\ u.right \in S /\ u \in Sound(K) \ {Null}
      BY <1>1 DEF Closed
    <3>2. Kept(K, u.left, x) /\ Kept(K, u.right, y)
      BY <1>2, <2>2, <3>1
    <3>3. Kept(K, u, Inserted(u, a, x, y))
      BY <3>1, <3>2, InsertedKept
    <3> QED BY <1>2, <1>4, <3>3
  <2> QED BY <1>3, <2>1, <2>2 DEF Stays
<1>6. \E f : Is(f)
  <2>1. PICK f \in [S -> V] : Follows(S, V, Null, G, f)
    BY <1>1, <1>5, TreeRecursion
  <2>2. ASSUME NEW u \in S \ {Null} PROVE f[u] = Inserted(u, a, f[u.left], f[u.right])
    <3>1. f[u.left] \in V /\ f[u.right] \in V
      BY <1>1, <2>1 DEF Closed
    <3> QED BY <1>4, <2>1, <3>1 DEF Follows
  <2>3. f[Null] = Null
    BY <2>1 DEF Follows
  <2> QED BY <2>2, <2>3
<1>7. ASSUME NEW f, Is(f) PROVE <<t, f[t]>> \in R
  <2>1. \A u \in S : f[u] = IF u = Null THEN Null ELSE Inserted(u, a, f[u.left], f[u.right])
    BY <1>7
  <2>2. Null \in S
    BY <1>1 DEF Closed
  <2>3. Follows(S, V, Null, G, f)
    BY <1>4, <2>1, <2>2 DEF Follows
  <2> QED BY <1>1, <1>5, <2>3, TreeValues
<1>8. <<t, htInsertNodeInternal(t, a, Null)>> \in R
  BY <1>6, <1>7 DEF htInsertNodeInternal, S, Inserted
<1> QED BY <1>1, <1>2, <1>8

-----------------------------------------------------------------------------
(* Search.                                                                 *)

\* v is the tree below u with its least address.
IsMin(K, u, v) ==
  /\ v \in Sound(K) \ {Null} /\ v.address \in Tracked(u)
  /\ \A x \in Tracked(u) : v.address <= x

\* One level of the search for the least address,
LEMMA MinStep ==
  ASSUME NEW K, NEW u \in Sound(K) \ {Null}, NEW v, u.left # Null => IsMin(K, u.left, v)
  PROVE  IsMin(K, u, IF u.left = Null THEN u ELSE v)
<1>1. /\ u.left \in Sound(K) /\ u.address \in Addresses
      /\ Apart(u.address, u.node, Tracked(u.left), Tracked(u.right), NodesOf(u.left), NodesOf(u.right))
      /\ Tracked(u) = {u.address} \cup Tracked(u.left) \cup Tracked(u.right)
  BY SoundNode
<1>2. u.address \in Nat /\ Tracked(u.left) \in SUBSET Nat /\ Tracked(u.right) \in SUBSET Nat
  BY <1>1, SoundNode, NatTracked, HeapTreeAssumption
<1>3. CASE u.left = Null
  <2>1. Tracked(u.left) = {}
    BY <1>3, SoundNull
  <2>2. \A x \in Tracked(u.right) : u.address <= x
    BY <1>1, <1>2 DEF Apart
  <2> QED BY <1>1, <1>2, <1>3, <2>1, <2>2 DEF IsMin
<1>4. CASE u.left # Null
  <2>1. v \in Sound(K) \ {Null} /\ v.address \in Tracked(u.left) /\ \A x \in Tracked(u.left) : v.address <= x
    BY <1>4 DEF IsMin
  <2>2. v.address \in Nat /\ v.address < u.address
    BY <1>1, <1>2, <2>1 DEF Apart
  <2>3. \A x \in Tracked(u.right) : v.address <= x
    BY <1>1, <1>2, <2>2 DEF Apart
  <2> QED BY <1>1, <1>2, <1>4, <2>1, <2>2, <2>3 DEF IsMin
<1> QED BY <1>3, <1>4

\* and all of them: htMinValueNode finds the least.
LEMMA MinIs ==
  ASSUME NEW K, NEW t \in Sound(K) \ {Null}
  PROVE  IsMin(K, t, htMinValueNode(t))
<1> DEFINE B == Subtrees(t)
           S == B \cup {Null}
           V == Sound(K)
           R == {z \in S \X V : z[1] # Null => IsMin(K, z[1], z[2])}
           G == [u \in S |-> [x \in V |-> [y \in V |-> IF u.left = Null THEN u ELSE x]]]
           Is(f) == f = [u \in B |-> IF u.left = Null THEN u ELSE f[u.left]]
<1>1. Closed(K, S) /\ t \in S /\ S \subseteq Sound(K) /\ Null \in Sound(K)
  BY SoundClosed, SoundNull
<1>2. B \subseteq Sound(K) \ {Null} /\ t \in B /\ S = B \cup {Null}
      /\ \A u \in B : u.left \in S /\ u.right \in S
  BY SoundBelow
<1>3. \A u \in S : \A v : u # Null => (<<u, v>> \in R <=> IsMin(K, u, v))
  BY DEF IsMin
<1>4. R \in SUBSET (S \X V) /\ <<Null, Null>> \in R
  BY <1>1
<1>5. \A u \in S, x \in V, y \in V : G[u][x][y] = IF u.left = Null THEN u ELSE x
  OBVIOUS
<1>v. V = Sound(K)
  OBVIOUS
<1> HIDE DEF S, V, R, G, B
<1>6. Stays(S, V, R, Null, G)
  <2>1. ASSUME NEW u \in S \ {Null}, NEW x \in V, NEW y \in V, <<u.left, x>> \in R, <<u.right, y>> \in R
        PROVE  <<u, G[u][x][y]>> \in R
    <3>1. u.left \in S /\ u \in Sound(K) \ {Null}
      BY <1>1 DEF Closed
    <3>2. IsMin(K, u, IF u.left = Null THEN u ELSE x)
      BY <1>3, <2>1, <3>1, MinStep
    <3>3. <<u, IF u.left = Null THEN u ELSE x>> \in R
      BY <1>3, <3>2
    <3> QED BY <1>5, <3>3
  <2> QED BY <1>4, <2>1 DEF Stays
<1>7. \E f : Is(f)
  <2>1. PICK g \in [S -> V] : Follows(S, V, Null, G, g)
    BY <1>1, <1>6, TreeRecursion
  <2> DEFINE f == [u \in B |-> g[u]]
  <2>2. ASSUME NEW u \in B PROVE f[u] = IF u.left = Null THEN u ELSE f[u.left]
    <3>1. u \in S \ {Null} /\ g[u.left] \in V /\ g[u.right] \in V
      BY <1>2, <2>1
    <3>2. g[u] = IF u.left = Null THEN u ELSE g[u.left]
      BY <1>5, <2>1, <3>1 DEF Follows
    <3>3. f[u] = g[u] /\ (u.left # Null => f[u.left] = g[u.left])
      BY <1>2
    <3> HIDE DEF f
    <3> QED BY <3>2, <3>3
  <2>3. f = [u \in B |-> f[u]]
    OBVIOUS
  <2> HIDE DEF f
  <2>4. Is(f)
    BY <2>2, <2>3
  <2> QED BY <2>4
<1>8. ASSUME NEW f, Is(f) PROVE IsMin(K, t, f[t])
  <2>1. \A u \in B : f[u] = IF u.left = Null THEN u ELSE f[u.left]
    BY <1>8
  <2> DEFINE P == {u \in Sound(K) : u \in B => IsMin(K, u, f[u])}
  <2>2. Null \in P
    BY <1>1, <1>2
  <2>3. ASSUME NEW u \in Sound(K) \ {Null}, u.left \in P, u.right \in P PROVE u \in P
    <3>1. SUFFICES ASSUME u \in B PROVE IsMin(K, u, f[u])
      OBVIOUS
    <3>2. u.left # Null => IsMin(K, u.left, f[u.left])
      BY <1>2, <2>3, <3>1
    <3> QED BY <2>1, <3>1, <3>2, MinStep
  <2> HIDE DEF P
  <2>4. Sound(K) \subseteq P
    BY <2>2, <2>3, SoundInduction
  <2> QED BY <1>2, <2>4 DEF P
<1> QED BY <1>7, <1>8 DEF htMinValueNode, B

\* The search finds an address that is tracked, and no other.
Finds(a, u, v) ==
  IF a \in Tracked(u) THEN v \in Subtrees(u) /\ v.address = a ELSE v = Null

\* One level of the search for an address,
LEMMA FindStep ==
  ASSUME NEW K, NEW u \in Sound(K) \ {Null}, NEW a \in Addresses,
         NEW x, Finds(a, u.left, x), NEW y, Finds(a, u.right, y)
  PROVE  Finds(a, u, IF u = Null \/ u.address = a THEN u ELSE IF u.address > a THEN x ELSE y)
<1>1. /\ u.left \in Sound(K) /\ u.right \in Sound(K) /\ u.address \in Addresses
      /\ Apart(u.address, u.node, Tracked(u.left), Tracked(u.right), NodesOf(u.left), NodesOf(u.right))
      /\ Tracked(u) = {u.address} \cup Tracked(u.left) \cup Tracked(u.right)
      /\ Subtrees(u) = {u} \cup Subtrees(u.left) \cup Subtrees(u.right)
  BY SoundNode
<1>2. a \in Nat /\ u.address \in Nat /\ Tracked(u.left) \in SUBSET Nat /\ Tracked(u.right) \in SUBSET Nat
  BY <1>1, NatTracked, HeapTreeAssumption
<1>3. CASE u.address = a
  BY <1>1, <1>3 DEF Finds
<1>4. CASE u.address # a /\ u.address > a
  <2>1. a \notin Tracked(u.right)
    BY <1>1, <1>2, <1>4 DEF Apart
  <2>2. Finds(a, u, x)
    BY <1>1, <1>4, <2>1 DEF Finds
  <2> QED BY <1>4, <2>2
<1>5. CASE u.address # a /\ ~(u.address > a)
  <2>1. a \notin Tracked(u.left)
    BY <1>1, <1>2, <1>5 DEF Apart
  <2>2. Finds(a, u, y)
    BY <1>1, <1>5, <2>1 DEF Finds
  <2> QED BY <1>5, <2>2
<1> QED BY <1>3, <1>4, <1>5

\* and all of them: htGetNodeInternal finds the node that has it.
LEMMA SearchIs ==
  ASSUME NEW K, NEW t \in Sound(K), NEW a \in Addresses
  PROVE  Finds(a, t, htGetNodeInternal(t, a))
<1> DEFINE S == Subtrees(t) \cup {Null}
           R == {z \in S \X S : Finds(a, z[1], z[2])}
           G == [u \in S |-> [x \in S |-> [y \in S |->
                   IF u = Null \/ u.address = a THEN u ELSE IF u.address > a THEN x ELSE y]]]
           Is(f) == f = [u \in S |-> IF u = Null \/ u.address = a THEN u
                                     ELSE IF u.address > a THEN f[u.left] ELSE f[u.right]]
<1>1. Closed(K, S) /\ t \in S /\ S \subseteq Sound(K)
  BY SoundClosed
<1>2. \A u \in S, v \in S : <<u, v>> \in R <=> Finds(a, u, v)
  OBVIOUS
<1>3. R \in SUBSET (S \X S)
  OBVIOUS
<1>4. \A u \in S, x \in S, y \in S :
        G[u][x][y] = IF u = Null \/ u.address = a THEN u ELSE IF u.address > a THEN x ELSE y
  OBVIOUS
<1> HIDE DEF S, R, G
<1>5. Stays(S, S, R, Null, G)
  <2>1. <<Null, Null>> \in R
    BY <1>1, <1>2, SoundNull DEF Closed, Finds
  <2>2. ASSUME NEW u \in S \ {Null}, NEW x \in S, NEW y \in S, <<u.left, x>> \in R, <<u.right, y>> \in R
        PROVE  <<u, G[u][x][y]>> \in R
    <3>1. u.left \in S /\ u.right \in S /\ u \in Sound(K) \ {Null}
      BY <1>1 DEF Closed
    <3>2. Finds(a, u.left, x) /\ Finds(a, u.right, y)
      BY <1>2, <2>2, <3>1
    <3>3. PICK v : v = IF u = Null \/ u.address = a THEN u ELSE IF u.address > a THEN x ELSE y
      OBVIOUS
    <3>4. v \in S /\ Finds(a, u, v)
      BY <3>1, <3>2, <3>3, FindStep
    <3>5. <<u, v>> \in R
      BY <1>2, <3>4
    <3> QED BY <1>4, <3>3, <3>5
  <2> QED BY <1>3, <2>1, <2>2 DEF Stays
<1>6. \E f : Is(f)
  <2>1. PICK f \in [S -> S] : Follows(S, S, Null, G, f)
    BY <1>1, <1>5, TreeRecursion
  <2>2. ASSUME NEW u \in S \ {Null}
        PROVE  f[u] = IF u = Null \/ u.address = a THEN u ELSE IF u.address > a THEN f[u.left] ELSE f[u.right]
    <3>1. f[u.left] \in S /\ f[u.right] \in S
      BY <1>1, <2>1 DEF Closed
    <3> QED BY <1>4, <2>1, <3>1 DEF Follows
  <2>3. f[Null] = Null
    BY <2>1 DEF Follows
  <2>4. \A u \in S : f[u] = IF u = Null \/ u.address = a THEN u
                            ELSE IF u.address > a THEN f[u.left] ELSE f[u.right]
    BY <2>2, <2>3
  <2> QED BY <2>1, <2>4
<1>7. ASSUME NEW f, Is(f) PROVE <<t, f[t]>> \in R
  <2>1. \A u \in S : f[u] = IF u = Null \/ u.address = a THEN u
                            ELSE IF u.address > a THEN f[u.left] ELSE f[u.right]
    BY <1>7
  <2>2. Null \in S
    BY <1>1 DEF Closed
  <2>3. Follows(S, S, Null, G, f)
    BY <1>4, <2>1, <2>2 DEF Follows
  <2> QED BY <1>1, <1>5, <2>3, TreeValues
<1>8. <<t, htGetNodeInternal(t, a)>> \in R
  BY <1>6, <1>7 DEF htGetNodeInternal, S
<1>9. PICK v : v = htGetNodeInternal(t, a)
  OBVIOUS
<1> QED BY <1>2, <1>3, <1>8, <1>9

-----------------------------------------------------------------------------
(* Deletion.                                                               *)

\* The address deleted from the right subtree is there when it is the successor.
LEMMA Targets ==
  ASSUME NEW K, NEW u \in Sound(K) \ {Null}, NEW b \in Addresses
  PROVE  /\ RightTarget(u, b) \in Addresses
         /\ b = u.address /\ u.left # Null /\ u.right # Null =>
              /\ RightTarget(u, b) \in Tracked(u.right)
              /\ \A x \in Tracked(u.right) : RightTarget(u, b) <= x
         /\ ~(b = u.address /\ u.left # Null /\ u.right # Null) => RightTarget(u, b) = b
<1>1. CASE b = u.address /\ u.left # Null /\ u.right # Null
  <2>1. u.right \in Sound(K) \ {Null}
    BY <1>1, SoundNode
  <2>2. IsMin(K, u.right, htMinValueNode(u.right))
    BY <2>1, MinIs
  <2>3. RightTarget(u, b) = htMinValueNode(u.right).address
    BY <1>1 DEF RightTarget
  <2>4. Tracked(u.right) \subseteq Addresses
    BY <2>1, SoundTracks
  <2> QED BY <1>1, <2>2, <2>3, <2>4 DEF IsMin
<1>2. CASE ~(b = u.address /\ u.left # Null /\ u.right # Null)
  BY <1>2 DEF RightTarget
<1> QED BY <1>1, <1>2

\* The node that each deletion from a tree below frees.
FreedIs(S, f) ==
  f = [u \in S |-> [b \in Addresses |->
         IF u = Null THEN Null ELSE Freed(u, b, f[u.left][b], f[u.right][RightTarget(u, b)])]]
FreedBelow(t) == CHOOSE f : FreedIs(Subtrees(t) \cup {Null}, f)
FreedAll(u, x, y) == [b \in Addresses |-> Freed(u, b, x[b], y[RightTarget(u, b)])]
FreesOwn(u, v) ==
  /\ v \in [Addresses -> NodeIds \cup {Null}]
  /\ \A b \in Tracked(u) : v[b] \in NodesOf(u)

\* A tree's own node is one of its nodes.
LEMMA OwnNode ==
  ASSUME NEW K, NEW u \in Sound(K) \ {Null}
  PROVE  u.node \in NodesOf(u) /\ u.node \in NodeIds
<1>1. u.node \in NodeIds /\ NodesOf(u) = {u.node} \cup NodesOf(u.left) \cup NodesOf(u.right)
  BY SoundNode
<1> QED BY <1>1

\* The node that is freed at one level is one of the tree there.
LEMMA FreedOwn ==
  ASSUME NEW K, NEW u \in Sound(K) \ {Null},
         NEW b \in Addresses, NEW m \in NodeIds \cup {Null}, NEW n \in NodeIds \cup {Null},
         b \in Tracked(u.left) => m \in NodesOf(u.left),
         RightTarget(u, b) \in Tracked(u.right) => n \in NodesOf(u.right)
  PROVE  /\ Freed(u, b, m, n) \in NodeIds \cup {Null}
         /\ b \in Tracked(u) => Freed(u, b, m, n) \in NodesOf(u)
<1>1. /\ u.left \in Sound(K) /\ u.right \in Sound(K) /\ u.address \in Addresses /\ u.node \in NodeIds
      /\ Apart(u.address, u.node, Tracked(u.left), Tracked(u.right), NodesOf(u.left), NodesOf(u.right))
      /\ Tracked(u) = {u.address} \cup Tracked(u.left) \cup Tracked(u.right)
      /\ NodesOf(u) = {u.node} \cup NodesOf(u.left) \cup NodesOf(u.right)
  BY SoundNode
<1>2. b \in Nat /\ u.address \in Nat /\ Tracked(u.left) \in SUBSET Nat /\ Tracked(u.right) \in SUBSET Nat
  BY <1>1, NatTracked, HeapTreeAssumption
<1>3. u.left # Null => u.left.node \in NodesOf(u.left) /\ u.left.node \in NodeIds
  BY <1>1, OwnNode
<1>4. u.right # Null => u.right.node \in NodesOf(u.right) /\ u.right.node \in NodeIds
  BY <1>1, OwnNode
<1>5. CASE b < u.address
  <2>1. b \notin Tracked(u.right) /\ b # u.address
    BY <1>1, <1>2, <1>5 DEF Apart
  <2> QED BY <1>1, <1>5, <2>1 DEF Freed
<1>6. CASE b > u.address
  <2>1. b \notin Tracked(u.left) /\ b # u.address /\ ~(b < u.address)
    BY <1>1, <1>2, <1>6 DEF Apart
  <2>2. RightTarget(u, b) = b
    BY <2>1, Targets
  <2>3. Freed(u, b, m, n) = n
    BY <1>6, <2>1 DEF Freed
  <2> QED BY <1>1, <2>1, <2>2, <2>3
<1>7. CASE b = u.address
  <2>1. ~(b < u.address) /\ ~(b > u.address)
    BY <1>2, <1>7
  <2>2. CASE u.left # Null /\ u.right # Null
    <3>1. Freed(u, b, m, n) = n
      BY <2>1, <2>2 DEF Freed
    <3>2. n \in NodesOf(u.right)
      BY <1>7, <2>2, Targets
    <3> QED BY <1>1, <3>1, <3>2
  <2>3. CASE u.left = Null /\ u.right = Null
    <3>1. Freed(u, b, m, n) = u.node
      BY <2>1, <2>3 DEF Freed
    <3> QED BY <1>1, <3>1
  <2>4. CASE u.left = Null /\ u.right # Null
    <3>1. Freed(u, b, m, n) = u.right.node
      BY <2>1, <2>4 DEF Freed
    <3> QED BY <1>1, <1>4, <2>4, <3>1
  <2>5. CASE u.left # Null /\ u.right = Null
    <3>1. Freed(u, b, m, n) = u.left.node
      BY <2>1, <2>5 DEF Freed
    <3> QED BY <1>1, <1>3, <2>5, <3>1
  <2> QED BY <2>2, <2>3, <2>4, <2>5
<1> QED BY <1>2, <1>5, <1>6, <1>7

\* So it is at every level of a sound tree.
LEMMA FreedBelowIs ==
  ASSUME NEW K, NEW t \in Sound(K)
  PROVE  /\ FreedIs(Subtrees(t) \cup {Null}, FreedBelow(t))
         /\ \A u \in Subtrees(t) \cup {Null} : FreesOwn(u, FreedBelow(t)[u])
<1> DEFINE S == Subtrees(t) \cup {Null}
           V == [Addresses -> NodeIds \cup {Null}]
           none == [b \in Addresses |-> Null]
           R == {z \in S \X V : FreesOwn(z[1], z[2])}
           G == [u \in S |-> [x \in V |-> [y \in V |-> FreedAll(u, x, y)]]]
<1>1. Closed(K, S) /\ t \in S /\ S \subseteq Sound(K)
  BY SoundClosed
<1>2. \A u \in S : \A v : <<u, v>> \in R <=> FreesOwn(u, v)
  BY DEF FreesOwn
<1>3. R \in SUBSET (S \X V)
  OBVIOUS
<1>4. \A u \in S, x \in V, y \in V : G[u][x][y] = FreedAll(u, x, y)
  OBVIOUS
<1>v. \A x \in V, b \in Addresses : x[b] \in NodeIds \cup {Null}
  OBVIOUS
<1> HIDE DEF S, V, R, G
<1>5. FreesOwn(Null, none)
  BY SoundNull DEF FreesOwn
<1> HIDE DEF none
<1>6. Stays(S, V, R, none, G)
  <2>1. <<Null, none>> \in R
    BY <1>1, <1>2, <1>5 DEF Closed
  <2>2. ASSUME NEW u \in S \ {Null}, NEW x \in V, NEW y \in V, <<u.left, x>> \in R, <<u.right, y>> \in R
        PROVE  <<u, G[u][x][y]>> \in R
    <3>1. u.left \in S /\ u.right \in S /\ u \in Sound(K) \ {Null}
      BY <1>1 DEF Closed
    <3>2. FreesOwn(u.left, x) /\ FreesOwn(u.right, y)
      BY <1>2, <2>2, <3>1
    <3>3. ASSUME NEW b \in Addresses
          PROVE  /\ FreedAll(u, x, y)[b] \in NodeIds \cup {Null}
                 /\ b \in Tracked(u) => FreedAll(u, x, y)[b] \in NodesOf(u)
      <4>1. RightTarget(u, b) \in Addresses
        BY <3>1, Targets
      <4>2. PICK m \in NodeIds \cup {Null} : m = x[b]
        BY <1>v
      <4>3. PICK n \in NodeIds \cup {Null} : n = y[RightTarget(u, b)]
        BY <1>v, <4>1
      <4>4. b \in Tracked(u.left) => m \in NodesOf(u.left)
        BY <3>2, <4>2 DEF FreesOwn
      <4>5. RightTarget(u, b) \in Tracked(u.right) => n \in NodesOf(u.right)
        BY <3>2, <4>3 DEF FreesOwn
      <4>6. FreedAll(u, x, y)[b] = Freed(u, b, m, n)
        BY <4>2, <4>3 DEF FreedAll
      <4> QED BY <3>1, <4>4, <4>5, <4>6, FreedOwn
    <3>4. Tracked(u) \subseteq Addresses
      BY <3>1, SoundTracks
    <3>5. FreedAll(u, x, y) \in [Addresses -> NodeIds \cup {Null}]
      BY <3>3 DEF FreedAll
    <3>6. FreesOwn(u, FreedAll(u, x, y))
      BY <3>3, <3>4, <3>5 DEF FreesOwn
    <3> QED BY <1>2, <1>4, <3>6
  <2> QED BY <1>3, <2>1, <2>2 DEF Stays
<1>7. \E f : FreedIs(S, f)
  <2>1. PICK f \in [S -> V] : Follows(S, V, none, G, f)
    BY <1>1, <1>6, TreeRecursion
  <2>2. ASSUME NEW u \in S
        PROVE  f[u] = [b \in Addresses |->
                 IF u = Null THEN Null ELSE Freed(u, b, f[u.left][b], f[u.right][RightTarget(u, b)])]
    <3>1. CASE u = Null
      <4>1. f[u] = none
        BY <2>1, <3>1 DEF Follows
      <4> QED BY <3>1, <4>1 DEF none
    <3>2. CASE u # Null
      <4>1. f[u.left] \in V /\ f[u.right] \in V
        BY <1>1, <2>1, <3>2 DEF Closed
      <4>2. f[u] = FreedAll(u, f[u.left], f[u.right])
        BY <1>4, <2>1, <3>2, <4>1 DEF Follows
      <4> QED BY <3>2, <4>2 DEF FreedAll
    <3> QED BY <3>1, <3>2
  <2>3. f = [u \in S |-> f[u]]
    OBVIOUS
  <2> QED BY <2>2, <2>3 DEF FreedIs
<1>8. PICK f : f = FreedBelow(t)
  OBVIOUS
<1>9. FreedIs(S, f)
  BY <1>7, <1>8 DEF FreedBelow, S
<1>10. Follows(S, V, none, G, f)
  <2>1. \A u \in S : f[u] = [b \in Addresses |->
          IF u = Null THEN Null ELSE Freed(u, b, f[u.left][b], f[u.right][RightTarget(u, b)])]
    BY <1>9 DEF FreedIs
  <2>2. f[Null] = none
    BY <1>1, <2>1 DEF Closed, none
  <2>3. ASSUME NEW u \in S \ {Null}, f[u.left] \in V, f[u.right] \in V
        PROVE  f[u] = G[u][f[u.left]][f[u.right]]
    <3>1. f[u] = FreedAll(u, f[u.left], f[u.right])
      BY <2>1 DEF FreedAll
    <3> QED BY <1>4, <2>3, <3>1
  <2> QED BY <2>2, <2>3 DEF Follows
<1>11. \A u \in S : <<u, f[u]>> \in R
  BY <1>1, <1>6, <1>10, TreeValues
<1> QED BY <1>2, <1>8, <1>9, <1>11 DEF S

\* The model's FreedNode, by the function on the subtrees.
LEMMA FreedNodeIs ==
  ASSUME NEW K, NEW t \in Sound(K), NEW a
  PROVE  FreedNode(t, a) = FreedBelow(t)[t][a]
BY DEF FreedNode, FreedBelow, FreedIs

\* v is tree u without address b and the node m that its deletion frees, or lost.
IsDeleted(K, u, b, m, v) ==
  v = Lost \/ /\ v \in Sound(K) /\ Tracked(v) = Tracked(u) \ {b}
              /\ NodesOf(v) = IF b \in Tracked(u) THEN NodesOf(u) \ {m} ELSE NodesOf(u)

\* A tree that is lost stays lost.
LEMMA RebalancedLost == RebalanceDeleted(Lost) = Lost
BY DEF RebalanceDeleted

\* A node made anew from sound subtrees and balanced.
LEMMA RejoinMade ==
  ASSUME NEW K, NEW n \in NodeIds, NEW a \in Addresses, NEW k \in K, NEW l0, NEW r0, NEW h0,
         NEW t, t = [node |-> n, address |-> a, memstack |-> k, left |-> l0, right |-> r0, height |-> h0],
         NEW l \in Sound(K), NEW r \in Sound(K),
         Apart(a, n, Tracked(l), Tracked(r), NodesOf(l), NodesOf(r))
  PROVE  Made(K, RebalanceDeleted(Join(t, l, r)), {a} \cup Tracked(l) \cup Tracked(r),
              {n} \cup NodesOf(l) \cup NodesOf(r))
<1>1. PICK j : j = Join(t, l, r)
  OBVIOUS
<1>2. /\ j \in Sound(K) \ {Null}
      /\ Tracked(j) = {a} \cup Tracked(l) \cup Tracked(r)
      /\ NodesOf(j) = {n} \cup NodesOf(l) \cup NodesOf(r)
  BY <1>1, JoinMade
<1>3. Same(K, j, RebalanceDeleted(j))
  BY <1>2, RebalancesDeleted
<1> QED BY <1>1, <1>2, <1>3 DEF Same

\* One level of the deletion: the address and the node that is freed are gone,
\* or the tree is lost.
LEMMA DeletedMade ==
  ASSUME NEW K, NEW u \in Sound(K) \ {Null}, NEW b \in Addresses,
         NEW m, b \in Tracked(u.left) => m \in NodesOf(u.left),
         NEW n, RightTarget(u, b) \in Tracked(u.right) => n \in NodesOf(u.right),
         NEW x, IsDeleted(K, u.left, b, m, x),
         NEW y, IsDeleted(K, u.right, RightTarget(u, b), n, y)
  PROVE  IsDeleted(K, u, b, Freed(u, b, m, n), Deleted(u, b, x, y))
<1>0. /\ u = [node |-> u.node, address |-> u.address, memstack |-> u.memstack,
              left |-> u.left, right |-> u.right, height |-> u.height]
      /\ u.node \in NodeIds /\ u.address \in Addresses /\ u.memstack \in K
  BY SoundNode
<1>1. PICK l \in Sound(K), r \in Sound(K) : l = u.left /\ r = u.right
  BY SoundNode
<1>2. /\ Apart(u.address, u.node, Tracked(l), Tracked(r), NodesOf(l), NodesOf(r))
      /\ Tracked(u) = {u.address} \cup Tracked(l) \cup Tracked(r)
      /\ NodesOf(u) = {u.node} \cup NodesOf(l) \cup NodesOf(r)
  BY <1>1, SoundNode
<1>3. b \in Nat /\ u.address \in Nat /\ Tracked(l) \in SUBSET Nat /\ Tracked(r) \in SUBSET Nat
  BY <1>0, NatTracked, HeapTreeAssumption
<1>4. ASSUME b < u.address
      PROVE  IsDeleted(K, u, b, Freed(u, b, m, n), Deleted(u, b, x, y))
  <2>1. b \notin Tracked(r) /\ b # u.address
    BY <1>2, <1>3, <1>4 DEF Apart
  <2>2. Freed(u, b, m, n) = m /\ Deleted(u, b, x, y) = WithLeft(u, x)
    BY <1>4 DEF Freed, Deleted
  <2>3. CASE x = Lost
    BY <2>2, <2>3 DEF WithLeft, IsDeleted
  <2>4. CASE x # Lost
    <3>1. x \in Sound(K)
      BY <2>4 DEF IsDeleted
    <3>2. Tracked(x) = Tracked(l) \ {b}
          /\ NodesOf(x) = IF b \in Tracked(l) THEN NodesOf(l) \ {m} ELSE NodesOf(l)
      BY <1>1, <2>4 DEF IsDeleted
    <3>3. Apart(u.address, u.node, Tracked(x), Tracked(r), NodesOf(x), NodesOf(r))
      BY <1>2, <3>2 DEF Apart
    <3>4. PICK s : s = [u EXCEPT !.left = x]
      OBVIOUS
    <3>5. /\ s \in Sound(K)
          /\ Tracked(s) = {u.address} \cup Tracked(x) \cup Tracked(r)
          /\ NodesOf(s) = {u.node} \cup NodesOf(x) \cup NodesOf(r)
      BY <1>1, <3>1, <3>3, <3>4, ReplaceLeft
    <3>6. Tracked(s) = Tracked(u) \ {b}
      BY <1>2, <2>1, <3>2, <3>5
    <3>7. b \in Tracked(u) <=> b \in Tracked(l)
      BY <1>2, <2>1
    <3>8. b \in Tracked(l) => m \notin NodesOf(r) /\ m # u.node
      BY <1>1, <1>2 DEF Apart
    <3>9. NodesOf(s) = IF b \in Tracked(u) THEN NodesOf(u) \ {m} ELSE NodesOf(u)
      BY <1>2, <3>2, <3>5, <3>7, <3>8
    <3>10. Deleted(u, b, x, y) = s
      BY <2>2, <2>4, <3>4 DEF WithLeft
    <3> QED BY <2>2, <3>5, <3>6, <3>9, <3>10 DEF IsDeleted
  <2> QED BY <2>3, <2>4
<1>5. ASSUME b > u.address
      PROVE  IsDeleted(K, u, b, Freed(u, b, m, n), Deleted(u, b, x, y))
  <2>1. b \notin Tracked(l) /\ b # u.address /\ ~(b < u.address)
    BY <1>2, <1>3, <1>5 DEF Apart
  <2>2. RightTarget(u, b) = b
    BY <2>1, Targets
  <2>3. Freed(u, b, m, n) = n /\ Deleted(u, b, x, y) = RebalanceDeleted(Join(u, l, y))
    BY <1>1, <1>5, <2>1 DEF Freed, Deleted
  <2>4. CASE y = Lost
    BY <2>3, <2>4, RebalancedLost DEF Join, IsDeleted
  <2>5. CASE y # Lost
    <3>1. y \in Sound(K)
      BY <2>5 DEF IsDeleted
    <3>2. Tracked(y) = Tracked(r) \ {b}
          /\ NodesOf(y) = IF b \in Tracked(r) THEN NodesOf(r) \ {n} ELSE NodesOf(r)
      BY <1>1, <2>2, <2>5 DEF IsDeleted
    <3>3. Apart(u.address, u.node, Tracked(l), Tracked(y), NodesOf(l), NodesOf(y))
      BY <1>2, <3>2 DEF Apart
    <3>4. PICK s : s = RebalanceDeleted(Join(u, l, y))
      OBVIOUS
    <3>5. Made(K, s, {u.address} \cup Tracked(l) \cup Tracked(y), {u.node} \cup NodesOf(l) \cup NodesOf(y))
      BY <1>0, <3>1, <3>3, <3>4, RejoinMade
    <3>6. {u.address} \cup Tracked(l) \cup Tracked(y) = Tracked(u) \ {b}
      BY <1>2, <2>1, <3>2
    <3>7. b \in Tracked(u) <=> b \in Tracked(r)
      BY <1>2, <2>1
    <3>8. b \in Tracked(r) => n \notin NodesOf(l) /\ n # u.node
      BY <1>1, <1>2, <2>2 DEF Apart
    <3>9. {u.node} \cup NodesOf(l) \cup NodesOf(y)
            = IF b \in Tracked(u) THEN NodesOf(u) \ {n} ELSE NodesOf(u)
      BY <1>2, <3>2, <3>7, <3>8
    <3> QED BY <2>3, <3>4, <3>5, <3>6, <3>9 DEF IsDeleted, Made
  <2> QED BY <2>4, <2>5
<1>6. ASSUME b = u.address
      PROVE  IsDeleted(K, u, b, Freed(u, b, m, n), Deleted(u, b, x, y))
  <2>1. ~(b < u.address) /\ ~(b > u.address) /\ b \in Tracked(u) /\ b \notin Tracked(l) /\ b \notin Tracked(r)
    BY <1>2, <1>3, <1>6 DEF Apart
  <2>2. CASE l = Null /\ r = Null
    <3>1. Freed(u, b, m, n) = u.node /\ Deleted(u, b, x, y) = Null
      BY <1>1, <2>1, <2>2 DEF Freed, Deleted
    <3>2. Tracked(u) = {b} /\ NodesOf(u) = {u.node}
      BY <1>2, <1>6, <2>2, SoundNull
    <3> QED BY <2>1, <3>1, <3>2, SoundNull DEF IsDeleted
  <2>3. CASE l = Null /\ r # Null
    <3>1. PICK rl \in Sound(K), rr \in Sound(K) : rl = r.left /\ rr = r.right
      BY <2>3, SoundNode
    <3>2. /\ r = [node |-> r.node, address |-> r.address, memstack |-> r.memstack,
                  left |-> r.left, right |-> r.right, height |-> r.height]
          /\ r.address \in Addresses /\ r.memstack \in K
      BY <2>3, SoundNode
    <3>3. /\ Apart(r.address, r.node, Tracked(rl), Tracked(rr), NodesOf(rl), NodesOf(rr))
          /\ Tracked(r) = {r.address} \cup Tracked(rl) \cup Tracked(rr)
          /\ NodesOf(r) = {r.node} \cup NodesOf(rl) \cup NodesOf(rr)
      BY <2>3, <3>1, SoundNode
    <3>4. u.node \notin NodesOf(r) /\ Tracked(l) = {} /\ NodesOf(l) = {}
      BY <1>2, <2>3, SoundNull DEF Apart
    <3>5. Apart(r.address, u.node, Tracked(rl), Tracked(rr), NodesOf(rl), NodesOf(rr))
      BY <3>3, <3>4 DEF Apart
    <3>6. PICK s : s = [r EXCEPT !.node = u.node]
      OBVIOUS
    <3>7. s = [node |-> u.node, address |-> r.address, memstack |-> r.memstack,
               left |-> r.left, right |-> r.right, height |-> r.height]
      BY <3>2, <3>6
    <3>8. Made(K, RebalanceDeleted(Join(s, rl, rr)), {r.address} \cup Tracked(rl) \cup Tracked(rr),
               {u.node} \cup NodesOf(rl) \cup NodesOf(rr))
      BY <1>0, <3>2, <3>5, <3>7, RejoinMade
    <3>9. Freed(u, b, m, n) = r.node
          /\ Deleted(u, b, x, y) = RebalanceDeleted(Join(s, rl, rr))
      BY <1>1, <2>1, <2>3, <3>1, <3>6 DEF Freed, Deleted
    <3>10. {r.address} \cup Tracked(rl) \cup Tracked(rr) = Tracked(u) \ {b}
      BY <1>2, <1>6, <2>1, <3>3, <3>4
    <3>11. {u.node} \cup NodesOf(rl) \cup NodesOf(rr) = NodesOf(u) \ {r.node}
      BY <1>2, <3>3, <3>4 DEF Apart
    <3> QED BY <2>1, <3>8, <3>9, <3>10, <3>11 DEF IsDeleted, Made
  <2>4. CASE l # Null /\ r = Null
    <3>1. PICK ll \in Sound(K), lr \in Sound(K) : ll = l.left /\ lr = l.right
      BY <2>4, SoundNode
    <3>2. /\ l = [node |-> l.node, address |-> l.address, memstack |-> l.memstack,
                  left |-> l.left, right |-> l.right, height |-> l.height]
          /\ l.address \in Addresses /\ l.memstack \in K
      BY <2>4, SoundNode
    <3>3. /\ Apart(l.address, l.node, Tracked(ll), Tracked(lr), NodesOf(ll), NodesOf(lr))
          /\ Tracked(l) = {l.address} \cup Tracked(ll) \cup Tracked(lr)
          /\ NodesOf(l) = {l.node} \cup NodesOf(ll) \cup NodesOf(lr)
      BY <2>4, <3>1, SoundNode
    <3>4. u.node \notin NodesOf(l) /\ Tracked(r) = {} /\ NodesOf(r) = {}
      BY <1>2, <2>4, SoundNull DEF Apart
    <3>5. Apart(l.address, u.node, Tracked(ll), Tracked(lr), NodesOf(ll), NodesOf(lr))
      BY <3>3, <3>4 DEF Apart
    <3>6. PICK s : s = [l EXCEPT !.node = u.node]
      OBVIOUS
    <3>7. s = [node |-> u.node, address |-> l.address, memstack |-> l.memstack,
               left |-> l.left, right |-> l.right, height |-> l.height]
      BY <3>2, <3>6
    <3>8. Made(K, RebalanceDeleted(Join(s, ll, lr)), {l.address} \cup Tracked(ll) \cup Tracked(lr),
               {u.node} \cup NodesOf(ll) \cup NodesOf(lr))
      BY <1>0, <3>2, <3>5, <3>7, RejoinMade
    <3>9. Freed(u, b, m, n) = l.node
          /\ Deleted(u, b, x, y) = RebalanceDeleted(Join(s, ll, lr))
      BY <1>1, <2>1, <2>4, <3>1, <3>6 DEF Freed, Deleted
    <3>10. {l.address} \cup Tracked(ll) \cup Tracked(lr) = Tracked(u) \ {b}
      BY <1>2, <1>6, <2>1, <3>3, <3>4
    <3>11. {u.node} \cup NodesOf(ll) \cup NodesOf(lr) = NodesOf(u) \ {l.node}
      BY <1>2, <3>3, <3>4 DEF Apart
    <3> QED BY <2>1, <3>8, <3>9, <3>10, <3>11 DEF IsDeleted, Made
  <2>5. CASE l # Null /\ r # Null
    <3>1. PICK c : c = RightTarget(u, b)
      OBVIOUS
    <3>2. c \in Tracked(r) /\ c \in Addresses /\ (\A z \in Tracked(r) : c <= z)
      BY <1>1, <1>6, <2>5, <3>1, Targets
    <3>3. n \in NodesOf(r)
      BY <1>1, <3>1, <3>2
    <3>4. PICK s : s = WithAddress(u, c)
      OBVIOUS
    <3>5. s = [node |-> u.node, address |-> c, memstack |-> u.memstack,
               left |-> u.left, right |-> u.right, height |-> u.height]
      BY <1>0, <3>4 DEF WithAddress
    <3>6. Freed(u, b, m, n) = n /\ Deleted(u, b, x, y) = RebalanceDeleted(Join(s, l, y))
      BY <1>1, <2>1, <2>5, <3>1, <3>4 DEF Freed, Deleted
    <3>7. CASE y = Lost
      BY <3>6, <3>7, RebalancedLost DEF Join, IsDeleted
    <3>8. CASE y # Lost
      <4>1. y \in Sound(K)
        BY <3>8 DEF IsDeleted
      <4>2. Tracked(y) = Tracked(r) \ {c} /\ NodesOf(y) = NodesOf(r) \ {n}
        BY <1>1, <3>1, <3>2, <3>8 DEF IsDeleted
      <4>3. c > u.address
        BY <1>2, <3>2 DEF Apart
      <4>4. c \in Nat
        BY <1>3, <3>2
      <4>5. Apart(c, u.node, Tracked(l), Tracked(y), NodesOf(l), NodesOf(y))
        <5>1. \A z \in Tracked(l) : z < c
          BY <1>2, <1>3, <4>3, <4>4 DEF Apart
        <5>2. \A z \in Tracked(y) : z > c
          BY <1>3, <3>2, <4>2, <4>4
        <5> QED BY <1>2, <4>2, <5>1, <5>2 DEF Apart
      <4>6. Made(K, RebalanceDeleted(Join(s, l, y)), {c} \cup Tracked(l) \cup Tracked(y),
                 {u.node} \cup NodesOf(l) \cup NodesOf(y))
        BY <1>0, <3>2, <3>5, <4>1, <4>5, RejoinMade
      <4>7. {c} \cup Tracked(l) \cup Tracked(y) = Tracked(u) \ {b}
        BY <1>2, <1>6, <2>1, <3>2, <4>2
      <4>8. {u.node} \cup NodesOf(l) \cup NodesOf(y) = NodesOf(u) \ {n}
        BY <1>2, <3>3, <4>2 DEF Apart
      <4> QED BY <2>1, <3>6, <4>6, <4>7, <4>8 DEF IsDeleted, Made
    <3> QED BY <3>7, <3>8
  <2> QED BY <2>2, <2>3, <2>4, <2>5
<1> QED BY <1>3, <1>4, <1>5, <1>6

DeletedIs(S, f) ==
  f = [u \in S |-> [b \in Addresses |->
         IF u = Null THEN Null ELSE Deleted(u, b, f[u.left][b], f[u.right][RightTarget(u, b)])]]
DeletedAll(u, x, y) == [b \in Addresses |-> Deleted(u, b, x[b], y[RightTarget(u, b)])]
\* What the deletions of each address make of tree u, if F are the nodes they free.
Deletes(K, u, F, v) ==
  /\ v \in [Addresses -> Sound(K) \cup {Lost}]
  /\ \A b \in Addresses : IsDeleted(K, u, b, F[b], v[b])

\* htDeleteNodeInternal takes out the address and the freed node, nothing else,
\* or loses the tree.
LEMMA DeleteMade ==
  ASSUME NEW K, NEW t \in Sound(K), NEW a \in Tracked(t)
  PROVE  /\ FreedNode(t, a) \in NodesOf(t)
         /\ htDeleteNodeInternal(t, a) = Lost \/
              /\ htDeleteNodeInternal(t, a) \in Sound(K)
              /\ Tracked(htDeleteNodeInternal(t, a)) = Tracked(t) \ {a}
              /\ NodesOf(htDeleteNodeInternal(t, a)) = NodesOf(t) \ {FreedNode(t, a)}
<1> DEFINE S == Subtrees(t) \cup {Null}
           V == [Addresses -> Sound(K) \cup {Lost}]
           none == [b \in Addresses |-> Null]
           F == FreedBelow(t)
           R == {z \in S \X V : Deletes(K, z[1], F[z[1]], z[2])}
           G == [u \in S |-> [x \in V |-> [y \in V |-> DeletedAll(u, x, y)]]]
<1>1. Closed(K, S) /\ t \in S /\ S \subseteq Sound(K)
  BY SoundClosed
<1>2. \A u \in S : \A v : <<u, v>> \in R <=> Deletes(K, u, F[u], v)
  BY DEF Deletes
<1>3. R \in SUBSET (S \X V)
  OBVIOUS
<1>4. \A u \in S, x \in V, y \in V : G[u][x][y] = DeletedAll(u, x, y)
  OBVIOUS
<1>f. FreedIs(S, F) /\ \A u \in S : FreesOwn(u, F[u])
  BY FreedBelowIs
<1>n. FreedNode(t, a) = F[t][a]
  BY FreedNodeIs
<1> HIDE DEF S, V, R, G, F
<1>5. Deletes(K, Null, F[Null], none)
  <2>1. \A b \in Addresses : IsDeleted(K, Null, b, F[Null][b], Null)
    BY SoundNull DEF IsDeleted
  <2>2. Null \in Sound(K)
    BY SoundNull
  <2> QED BY <2>1, <2>2 DEF Deletes
<1> HIDE DEF none
<1>6. Stays(S, V, R, none, G)
  <2>1. <<Null, none>> \in R
    BY <1>1, <1>2, <1>5 DEF Closed
  <2>2. ASSUME NEW u \in S \ {Null}, NEW x \in V, NEW y \in V, <<u.left, x>> \in R, <<u.right, y>> \in R
        PROVE  <<u, G[u][x][y]>> \in R
    <3>1. u.left \in S /\ u.right \in S /\ u \in Sound(K) \ {Null}
      BY <1>1 DEF Closed
    <3>2. Deletes(K, u.left, F[u.left], x) /\ Deletes(K, u.right, F[u.right], y)
      BY <1>2, <2>2, <3>1
    <3>3. ASSUME NEW b \in Addresses
          PROVE  /\ DeletedAll(u, x, y)[b] \in Sound(K) \cup {Lost}
                 /\ IsDeleted(K, u, b, F[u][b], DeletedAll(u, x, y)[b])
      <4>1. PICK c \in Addresses : c = RightTarget(u, b)
        BY <3>1, Targets
      <4>2. PICK m : m = F[u.left][b]
        OBVIOUS
      <4>3. PICK n : n = F[u.right][c]
        OBVIOUS
      <4>4. F[u][b] = Freed(u, b, m, n)
        BY <1>f, <2>2, <4>1, <4>2, <4>3 DEF FreedIs
      <4>5. b \in Tracked(u.left) => m \in NodesOf(u.left)
        BY <1>f, <3>1, <4>2 DEF FreesOwn
      <4>6. c \in Tracked(u.right) => n \in NodesOf(u.right)
        BY <1>f, <3>1, <4>3 DEF FreesOwn
      <4>7. PICK xb : xb = x[b]
        OBVIOUS
      <4>8. PICK yc : yc = y[c]
        OBVIOUS
      <4>9. IsDeleted(K, u.left, b, m, xb) /\ IsDeleted(K, u.right, c, n, yc)
        BY <3>2, <4>1, <4>2, <4>3, <4>7, <4>8 DEF Deletes
      <4>10. IsDeleted(K, u, b, Freed(u, b, m, n), Deleted(u, b, xb, yc))
        BY <3>1, <4>1, <4>5, <4>6, <4>9, DeletedMade
      <4>11. DeletedAll(u, x, y)[b] = Deleted(u, b, xb, yc)
        BY <4>1, <4>7, <4>8 DEF DeletedAll
      <4> QED BY <4>4, <4>10, <4>11 DEF IsDeleted
    <3>4. DeletedAll(u, x, y) \in [Addresses -> Sound(K) \cup {Lost}]
      BY <3>3 DEF DeletedAll
    <3>5. Deletes(K, u, F[u], DeletedAll(u, x, y))
      BY <3>3, <3>4 DEF Deletes
    <3> QED BY <1>2, <1>4, <3>5
  <2> QED BY <1>3, <2>1, <2>2 DEF Stays
<1>7. \E f : DeletedIs(S, f)
  <2>1. PICK f \in [S -> V] : Follows(S, V, none, G, f)
    BY <1>1, <1>6, TreeRecursion
  <2>2. ASSUME NEW u \in S
        PROVE  f[u] = [b \in Addresses |->
                 IF u = Null THEN Null ELSE Deleted(u, b, f[u.left][b], f[u.right][RightTarget(u, b)])]
    <3>1. CASE u = Null
      <4>1. f[u] = none
        BY <2>1, <3>1 DEF Follows
      <4> QED BY <3>1, <4>1 DEF none
    <3>2. CASE u # Null
      <4>1. f[u.left] \in V /\ f[u.right] \in V
        BY <1>1, <2>1, <3>2 DEF Closed
      <4>2. f[u] = DeletedAll(u, f[u.left], f[u.right])
        BY <1>4, <2>1, <3>2, <4>1 DEF Follows
      <4> QED BY <3>2, <4>2 DEF DeletedAll
    <3> QED BY <3>1, <3>2
  <2>3. f = [u \in S |-> f[u]]
    OBVIOUS
  <2>4. PICK g : g = [u \in S |-> [b \in Addresses |->
          IF u = Null THEN Null ELSE Deleted(u, b, f[u.left][b], f[u.right][RightTarget(u, b)])]]
    OBVIOUS
  <2>5. f = g
    BY <2>2, <2>3, <2>4
  <2> QED BY <2>4, <2>5 DEF DeletedIs
<1>8. PICK f : f = CHOOSE g : DeletedIs(S, g)
  OBVIOUS
<1>9. DeletedIs(S, f)
  BY <1>7, <1>8
<1>10. Follows(S, V, none, G, f)
  <2>1. \A u \in S : f[u] = [b \in Addresses |->
          IF u = Null THEN Null ELSE Deleted(u, b, f[u.left][b], f[u.right][RightTarget(u, b)])]
    BY <1>9 DEF DeletedIs
  <2>2. f[Null] = none
    BY <1>1, <2>1 DEF Closed, none
  <2>3. ASSUME NEW u \in S \ {Null}, f[u.left] \in V, f[u.right] \in V
        PROVE  f[u] = G[u][f[u.left]][f[u.right]]
    <3>1. f[u] = DeletedAll(u, f[u.left], f[u.right])
      BY <2>1 DEF DeletedAll
    <3> QED BY <1>4, <2>3, <3>1
  <2> QED BY <2>2, <2>3 DEF Follows
<1>11. <<t, f[t]>> \in R
  BY <1>1, <1>6, <1>10, TreeValues
<1>12. htDeleteNodeInternal(t, a) = f[t][a]
  BY <1>8 DEF htDeleteNodeInternal, DeletedIs, S
<1>13. a \in Addresses
  BY SoundTracks
<1>14. IsDeleted(K, t, a, F[t][a], f[t][a])
  BY <1>1, <1>2, <1>11, <1>13 DEF Deletes
<1>15. F[t][a] \in NodesOf(t)
  BY <1>1, <1>f DEF FreesOwn
<1>16. PICK d : d = htDeleteNodeInternal(t, a)
  OBVIOUS
<1> QED BY <1>n, <1>12, <1>14, <1>15, <1>16 DEF IsDeleted

-----------------------------------------------------------------------------
(* The free list.                                                          *)

HTRecord(K) ==
  [root : Sound(K), list : Seq(NodeIds), listEnd : {"null", "wild"}, count : Int, size : Int]
Once(l) == l \in Seq(NodeIds) /\ \A i, j \in DOMAIN l : l[i] = l[j] => i = j
Spare(l, M, s) == \A i \in DOMAIN l : l[i] \notin M /\ l[i][1] \notin s

\* Tree and list share no node, hold none of a page that is left, and are counted.
Books(K, h, s) ==
  /\ h \in HTRecord(K) /\ s \in SUBSET Pages
  /\ Once(h.list) /\ Spare(h.list, NodesOf(h.root), s)
  /\ \A n \in NodesOf(h.root) : n[1] \notin s
  /\ h.size = Cardinality(NodesOf(h.root))

\* An outcome with addresses A tracked and no node on pages s, unless the kernel stops.
Leaves(K, o, s, A) == o.status = "up" => Books(K, o.ht, s) /\ Tracked(o.ht.root) = A

\* A new page of nodes is a chain without repetition, of that page.
LEMMA ChainOnce ==
  ASSUME NEW p \in Pages
  PROVE  Once(Chain(p)) /\ Chain(p) # <<>> /\ \A i \in DOMAIN Chain(p) : Chain(p)[i][1] = p
<1>1. NodesPerPage \in Nat \ {0}
  BY HeapTreeAssumption
<1>2. Chain(p) \in Seq(NodeIds) /\ DOMAIN Chain(p) = 1 .. NodesPerPage
      /\ \A i \in 1 .. NodesPerPage : Chain(p)[i] = <<p, i>>
  BY <1>1 DEF Chain, NodeIds
<1>3. 1 \in DOMAIN Chain(p) /\ DOMAIN <<>> = {}
  BY <1>1, <1>2
<1>4. Chain(p) # <<>>
  BY <1>3
<1>5. Once(Chain(p))
  BY <1>2 DEF Once
<1> QED BY <1>2, <1>4, <1>5

\* The first free node is not in the tree, and is not free afterwards.
LEMMA TailOnce ==
  ASSUME NEW l, Once(l), l # <<>>, NEW M, NEW s, Spare(l, M, s)
  PROVE  /\ Head(l) \in NodeIds /\ Head(l) \notin M /\ Head(l)[1] \notin s
         /\ Once(Tail(l)) /\ Spare(Tail(l), M \cup {Head(l)}, s)
<1>1. l \in Seq(NodeIds) /\ \A i, j \in DOMAIN l : l[i] = l[j] => i = j
  BY DEF Once
<1>2. /\ Tail(l) \in Seq(NodeIds) /\ Len(Tail(l)) = Len(l) - 1
      /\ \A i \in 1 .. Len(Tail(l)) : Tail(l)[i] = l[i + 1]
      /\ Len(l) \in Nat /\ Len(l) > 0 /\ DOMAIN l = 1 .. Len(l) /\ Head(l) = l[1]
      /\ DOMAIN Tail(l) = 1 .. Len(Tail(l))
  BY <1>1, HeadTailProperties
<1>3. ASSUME NEW i \in DOMAIN Tail(l)
      PROVE  i + 1 \in DOMAIN l /\ Tail(l)[i] = l[i + 1] /\ i + 1 # 1
  BY <1>2
<1>4. 1 \in DOMAIN l
  BY <1>2
<1>5. Once(Tail(l))
  <2>1. ASSUME NEW i \in DOMAIN Tail(l), NEW j \in DOMAIN Tail(l), Tail(l)[i] = Tail(l)[j] PROVE i = j
    <3>1. i + 1 = j + 1
      BY <1>1, <1>3, <2>1
    <3> QED BY <1>2, <3>1
  <2> QED BY <1>2, <2>1 DEF Once
<1>6. Spare(Tail(l), M \cup {Head(l)}, s)
  <2>1. ASSUME NEW i \in DOMAIN Tail(l)
        PROVE  Tail(l)[i] \notin M \cup {Head(l)} /\ Tail(l)[i][1] \notin s
    <3>1. Tail(l)[i] # Head(l)
      BY <1>1, <1>2, <1>3, <1>4
    <3>2. l[i + 1] \notin M /\ l[i + 1][1] \notin s
      BY <1>3 DEF Spare
    <3> QED BY <1>3, <3>1, <3>2
  <2> QED BY <2>1 DEF Spare
<1> QED BY <1>1, <1>2, <1>4, <1>5, <1>6 DEF Spare

\* A node that is given holds the new address in the tree.
LEMMA GiveMade ==
  ASSUME NEW K, NEW h, NEW s, Books(K, h, s), NEW l, Once(l), l # <<>>, NEW s2 \in SUBSET s,
         Spare(l, NodesOf(h.root), s2), NEW count \in Int,
         NEW a \in Addresses \ Tracked(h.root), NEW k \in K, NEW left
  PROVE  /\ Leaves(K, Give(h, l, count, left, a, k), s2, Tracked(h.root) \cup {a})
         /\ Give(h, l, count, left, a, k).supply = left
<1>1. h \in HTRecord(K) /\ h.root \in Sound(K) /\ h.size = Cardinality(NodesOf(h.root))
      /\ (\A n \in NodesOf(h.root) : n[1] \notin s) /\ s \in SUBSET Pages
  BY DEF Books, HTRecord
<1>2. PICK n : n = Head(l)
  OBVIOUS
<1>3. /\ n \in NodeIds /\ n \notin NodesOf(h.root) /\ n[1] \notin s2
      /\ Once(Tail(l)) /\ Spare(Tail(l), NodesOf(h.root) \cup {n}, s2)
  BY <1>2, TailOnce
<1>4. PICK t : t = htInsertNodeInternal(h.root, a, Leaf(n, a, k))
  OBVIOUS
<1>5. Made(K, t, Tracked(h.root) \cup {a}, NodesOf(h.root) \cup {n})
  BY <1>1, <1>3, <1>4, InsertMade
<1>6. PICK g : g = [h EXCEPT !.root = t, !.list = Tail(l), !.count = count - 1, !.size = @ + 1]
  OBVIOUS
<1>7. PICK o : o = Give(h, l, count, left, a, k)
  OBVIOUS
<1>8. o = HTOutcome(g, left, IF t = Lost THEN "faulted" ELSE "up")
  BY <1>2, <1>4, <1>6, <1>7 DEF Give, Leaf
<1>9. o.ht = g /\ o.supply = left /\ o.status = IF t = Lost THEN "faulted" ELSE "up"
  BY <1>8 DEF HTOutcome
<1>10. CASE t = Lost
  BY <1>7, <1>9, <1>10 DEF Leaves
<1>11. CASE t # Lost
  <2>1. t \in Sound(K) /\ Tracked(t) = Tracked(h.root) \cup {a} /\ NodesOf(t) = NodesOf(h.root) \cup {n}
    BY <1>5, <1>11 DEF Made
  <2>2. Tail(l) \in Seq(NodeIds)
    BY <1>3 DEF Once
  <2>3. count - 1 \in Int /\ h.size + 1 \in Int
    BY <1>1 DEF HTRecord
  <2>4. g \in HTRecord(K) /\ g.root = t /\ g.list = Tail(l) /\ g.size = h.size + 1
    BY <1>1, <1>6, <2>1, <2>2, <2>3 DEF HTRecord
  <2>5. Cardinality(NodesOf(t)) = Cardinality(NodesOf(h.root)) + 1
    <3>1. IsFiniteSet(NodesOf(h.root))
      BY <1>1, SoundTracks
    <3> QED BY <1>3, <2>1, <3>1, FS_AddElement
  <2>6. \A m \in NodesOf(t) : m[1] \notin s2
    BY <1>1, <1>3, <2>1
  <2>7. Books(K, g, s2)
    BY <1>1, <1>3, <2>1, <2>4, <2>5, <2>6 DEF Books
  <2> QED BY <1>7, <1>9, <1>11, <2>1, <2>4, <2>7 DEF Leaves
<1> QED BY <1>10, <1>11

\* With no node on pages s, of which those left may be taken.
LEMMA InsertLeaves ==
  ASSUME NEW K, NEW h, NEW s, Books(K, h, s), NEW left \in SUBSET s,
         NEW a \in Addresses \ Tracked(h.root), NEW k \in K, NEW o \in InsertOutcomes(h, left, a, k)
  PROVE  /\ o.supply \subseteq left
         /\ Leaves(K, o, s \ (left \ o.supply), Tracked(h.root) \cup {a})
<1>1. h \in HTRecord(K) /\ Once(h.list) /\ Spare(h.list, NodesOf(h.root), s)
      /\ (\A n \in NodesOf(h.root) : n[1] \notin s) /\ s \in SUBSET Pages
  BY DEF Books
<1>2. CASE h.list # <<>>
  <2>1. o = Give(h, h.list, h.count, left, a, k)
    BY <1>2 DEF InsertOutcomes
  <2>2. h.count \in Int
    BY <1>1 DEF HTRecord
  <2>3. PICK l : l = h.list
    OBVIOUS
  <2>4. PICK c \in Int : c = h.count
    BY <2>2
  <2>5. s \in SUBSET s
    OBVIOUS
  <2>6. Leaves(K, Give(h, l, c, left, a, k), s, Tracked(h.root) \cup {a})
        /\ Give(h, l, c, left, a, k).supply = left
    BY <1>1, <1>2, <2>3, <2>5, GiveMade
  <2>7. s \ (left \ left) = s
    OBVIOUS
  <2> QED BY <2>1, <2>3, <2>4, <2>6, <2>7
<1>3. ASSUME NEW st \in {"nomemory", "faulted"}, o = HTOutcome(h, left, st)
      PROVE  o.supply \subseteq left /\ Leaves(K, o, s \ (left \ o.supply), Tracked(h.root) \cup {a})
  BY <1>3 DEF HTOutcome, Leaves
<1>4. ASSUME h.list = <<>>, NEW p \in left, o = Give(h, Chain(p), NodesPerPage, left \ {p}, a, k)
      PROVE  o.supply \subseteq left /\ Leaves(K, o, s \ (left \ o.supply), Tracked(h.root) \cup {a})
  <2>1. p \in Pages /\ NodesPerPage \in Int
    BY <1>1, HeapTreeAssumption
  <2>2. PICK l : l = Chain(p)
    OBVIOUS
  <2>3. Once(l) /\ l # <<>> /\ \A i \in DOMAIN l : l[i][1] = p
    BY <2>1, <2>2, ChainOnce
  <2>4. PICK s2 \in SUBSET s : s2 = s \ {p}
    OBVIOUS
  <2>5. Spare(l, NodesOf(h.root), s2)
    BY <1>1, <2>3, <2>4 DEF Spare
  <2>6. PICK z : z = left \ {p}
    OBVIOUS
  <2>7. Leaves(K, Give(h, l, NodesPerPage, z, a, k), s2, Tracked(h.root) \cup {a})
        /\ Give(h, l, NodesPerPage, z, a, k).supply = z
    BY <2>1, <2>3, <2>5, GiveMade
  <2>8. s2 = s \ (left \ z)
    BY <2>4, <2>6
  <2> QED BY <1>4, <2>2, <2>6, <2>7, <2>8
<1> QED BY <1>2, <1>3, <1>4 DEF InsertOutcomes

\* A freed node n put into list l: it takes the second place.
LEMMA PutOnce ==
  ASSUME NEW l, Once(l), NEW n \in NodeIds, \A i \in DOMAIN l : l[i] # n, Len(l) >= 2
  PROVE  /\ Once(<<l[1], n>> \o SubSeq(l, 3, Len(l)))
         /\ \A M, s : Spare(l, M, s) /\ n \notin M /\ n[1] \notin s
                        => Spare(<<l[1], n>> \o SubSeq(l, 3, Len(l)), M, s)
<1>1. l \in Seq(NodeIds) /\ \A i, j \in DOMAIN l : l[i] = l[j] => i = j
  BY DEF Once
<1>2. PICK e \in Nat : e = Len(l)
  BY <1>1
<1>3. e >= 2 /\ DOMAIN l = 1 .. e
  BY <1>1, <1>2
<1>4. PICK rest : rest = SubSeq(l, 3, e)
  OBVIOUS
<1>5. /\ rest \in Seq(NodeIds) /\ Len(rest) = e - 2
      /\ \A i \in 1 .. e - 2 : rest[i] = l[i + 2]
  <2>1. \A i \in 3 .. e : l[i] \in NodeIds
    BY <1>1, <1>3
  <2>2. /\ SubSeq(l, 3, e) \in Seq(NodeIds) /\ Len(SubSeq(l, 3, e)) = IF 3 <= e THEN e - 3 + 1 ELSE 0
        /\ \A i \in 1 .. e - 3 + 1 : SubSeq(l, 3, e)[i] = l[3 + i - 1]
    BY <2>1, SubSeqProperties
  <2> QED BY <1>3, <1>4, <2>2
<1>6. l[1] \in NodeIds
  BY <1>1, <1>3
<1>7. PICK two : two = <<l[1], n>>
  OBVIOUS
<1>8. two \in Seq(NodeIds) /\ Len(two) = 2 /\ two[1] = l[1] /\ two[2] = n
  BY <1>6, <1>7
<1>9. PICK q : q = two \o rest
  OBVIOUS
<1>c. /\ q \in Seq(NodeIds) /\ Len(q) = 2 + (e - 2)
      /\ \A i \in 1 .. 2 + (e - 2) : q[i] = IF i <= 2 THEN two[i] ELSE rest[i - 2]
  <2>1. /\ two \o rest \in Seq(NodeIds) /\ Len(two \o rest) = Len(two) + Len(rest)
        /\ \A i \in 1 .. Len(two) + Len(rest) :
             (two \o rest)[i] = IF i <= Len(two) THEN two[i] ELSE rest[i - Len(two)]
    <3>1. two \in Seq(NodeIds) /\ rest \in Seq(NodeIds)
      BY <1>5, <1>8
    <3> QED BY ONLY <3>1, ConcatProperties
  <2> QED BY <1>5, <1>8, <1>9, <2>1
<1>10. q \in Seq(NodeIds) /\ Len(q) = e /\ DOMAIN q = 1 .. e
  BY <1>3, <1>c
<1>11. ASSUME NEW i \in 1 .. e PROVE q[i] = IF i = 2 THEN n ELSE l[i]
  <2>1. q[i] = IF i <= 2 THEN two[i] ELSE rest[i - 2]
    BY <1>3, <1>c
  <2>2. CASE i <= 2
    <3>1. i = 1 \/ i = 2
      BY <2>2
    <3> QED BY <1>8, <2>1, <2>2, <3>1
  <2>3. CASE ~(i <= 2)
    <3>1. i - 2 \in 1 .. e - 2 /\ (i - 2) + 2 = i /\ i # 2
      BY <1>3, <2>3
    <3> QED BY <1>5, <2>1, <2>3, <3>1
  <2> QED BY <2>2, <2>3
<1>12. Once(q)
  BY <1>1, <1>3, <1>10, <1>11 DEF Once
<1>13. ASSUME NEW M, NEW s, Spare(l, M, s), n \notin M, n[1] \notin s PROVE Spare(q, M, s)
  BY <1>3, <1>10, <1>11, <1>13 DEF Spare
<1> QED BY <1>2, <1>4, <1>7, <1>9, <1>12, <1>13

\* A node put in the list is there once, and no other comes in.
LEMMA PutMade ==
  ASSUME NEW K, NEW h \in HTRecord(K), Once(h.list), NEW n \in NodeIds,
         \A i \in DOMAIN h.list : h.list[i] # n,
         NEW g \in htPutNodeInFreeList(h, n)
  PROVE  /\ g \in HTRecord(K) /\ g.root = h.root /\ g.size = h.size - 1 /\ Once(g.list)
         /\ \A M, s : Spare(h.list, M, s) /\ n \notin M /\ n[1] \notin s => Spare(g.list, M, s)
<1>1. PICK l : l = h.list
  OBVIOUS
<1>2. Once(l) /\ l \in Seq(NodeIds) /\ Len(l) \in Nat /\ DOMAIN l = 1 .. Len(l) /\ \A i \in DOMAIN l : l[i] # n
  BY <1>1 DEF Once
<1>3. h.listEnd \in {"null", "wild"} /\ h.count \in Int /\ h.size \in Int
  BY DEF HTRecord
<1>4. ASSUME NEW q, Once(q), NEW e \in {"null", "wild"}, NEW c \in Int,
             \A M, s : Spare(l, M, s) /\ n \notin M /\ n[1] \notin s => Spare(q, M, s),
             g = [h EXCEPT !.list = q, !.listEnd = e, !.count = c, !.size = @ - 1]
      PROVE  /\ g \in HTRecord(K) /\ g.root = h.root /\ g.size = h.size - 1 /\ Once(g.list)
             /\ \A M, s : Spare(h.list, M, s) /\ n \notin M /\ n[1] \notin s => Spare(g.list, M, s)
  <2>1. q \in Seq(NodeIds) /\ h.size - 1 \in Int
    BY <1>3, <1>4 DEF Once
  <2>2. g \in HTRecord(K) /\ g.root = h.root /\ g.size = h.size - 1 /\ g.list = q
    BY <1>4, <2>1 DEF HTRecord
  <2> QED BY <1>1, <1>4, <2>2
<1>5. CASE Len(l) >= 2
  <2>1. PICK q : q = <<l[1], n>> \o SubSeq(l, 3, Len(l))
    OBVIOUS
  <2>2. Once(q) /\ \A M, s : Spare(l, M, s) /\ n \notin M /\ n[1] \notin s => Spare(q, M, s)
    BY <1>2, <1>5, <2>1, PutOnce
  <2>3. g = [h EXCEPT !.list = q, !.listEnd = h.listEnd, !.count = h.count + 1, !.size = @ - 1]
    BY <1>1, <1>5, <2>1 DEF htPutNodeInFreeList
  <2>4. h.count + 1 \in Int
    BY <1>3
  <2> QED BY <1>3, <1>4, <2>2, <2>3, <2>4
<1>6. CASE Len(l) = 1
  <2>1. ~(Len(l) >= 2)
    BY <1>6
  <2>2. h.listEnd # "wild"
    BY <1>1, <2>1 DEF htPutNodeInFreeList
  <2>3. PICK q : q = <<l[1], n>>
    OBVIOUS
  <2>4. PICK e \in {"null", "wild"} :
          g = [h EXCEPT !.list = q, !.listEnd = e, !.count = h.count + 1, !.size = @ - 1]
    BY <1>1, <1>6, <2>1, <2>2, <2>3 DEF htPutNodeInFreeList
  <2>5. l[1] \in NodeIds /\ l[1] # n /\ 1 \in DOMAIN l
    <3>1. PICK m \in Nat : m = Len(l)
      BY <1>2
    <3>2. 1 \in DOMAIN l
      BY <1>2, <1>6, <3>1
    <3>3. l[1] \in NodeIds
      BY <1>2, <3>2
    <3> QED BY <1>2, <3>2, <3>3
  <2>6. q \in Seq(NodeIds) /\ DOMAIN q = 1 .. 2 /\ q[1] = l[1] /\ q[2] = n
    BY <2>3, <2>5
  <2>7. \A i \in DOMAIN q : i = 1 \/ i = 2
    BY <2>6
  <2>8. Once(q)
    BY <2>5, <2>6, <2>7 DEF Once
  <2>9. ASSUME NEW M, NEW s, Spare(l, M, s), n \notin M, n[1] \notin s PROVE Spare(q, M, s)
    BY <2>5, <2>6, <2>7, <2>9 DEF Spare
  <2>10. h.count + 1 \in Int
    BY <1>3
  <2> QED BY <1>4, <2>4, <2>8, <2>9, <2>10
<1>7. CASE Len(l) = 0
  <2>1. ~(Len(l) >= 2) /\ Len(l) # 1
    BY <1>7
  <2>2. h.listEnd # "wild"
    BY <1>1, <2>1 DEF htPutNodeInFreeList
  <2>3. PICK q : q = <<n>>
    OBVIOUS
  <2>4. g = [h EXCEPT !.list = q, !.listEnd = "null", !.count = 1, !.size = @ - 1]
    BY <1>1, <2>1, <2>2, <2>3 DEF htPutNodeInFreeList
  <2>5. q \in Seq(NodeIds) /\ DOMAIN q = 1 .. 1 /\ q[1] = n
    BY <2>3
  <2>6. \A i \in DOMAIN q : i = 1
    BY <2>5
  <2>7. Once(q)
    BY <2>5, <2>6 DEF Once
  <2>8. ASSUME NEW M, NEW s, Spare(l, M, s), n \notin M, n[1] \notin s PROVE Spare(q, M, s)
    BY <2>5, <2>6, <2>8 DEF Spare
  <2>9. 1 \in Int
    OBVIOUS
  <2> QED BY <1>4, <2>4, <2>7, <2>8, <2>9
<1> QED BY <1>2, <1>5, <1>6, <1>7

\* A deletion keeps the books and takes one address out.
LEMMA DeleteLeaves ==
  ASSUME NEW K, NEW h, NEW s, Books(K, h, s), NEW left, NEW a \in Tracked(h.root),
         NEW o \in DeleteOutcomes(h, left, a)
  PROVE  o.supply = left /\ Leaves(K, o, s, Tracked(h.root) \ {a})
<1>1. /\ h \in HTRecord(K) /\ h.root \in Sound(K) /\ h.size = Cardinality(NodesOf(h.root))
      /\ Once(h.list) /\ Spare(h.list, NodesOf(h.root), s)
      /\ (\A m \in NodesOf(h.root) : m[1] \notin s) /\ s \in SUBSET Pages
  BY DEF Books, HTRecord
<1>2. PICK t : t = h.root
  OBVIOUS
<1>3. PICK d : d = htDeleteNodeInternal(t, a)
  OBVIOUS
<1>4. PICK n : n = FreedNode(t, a)
  OBVIOUS
<1>5. n \in NodesOf(t) /\ (d = Lost \/ (d \in Sound(K) /\ Tracked(d) = Tracked(t) \ {a}
                                        /\ NodesOf(d) = NodesOf(t) \ {n}))
  BY <1>1, <1>2, <1>3, <1>4, DeleteMade
<1>6. CASE o = HTOutcome(h, left, "faulted")
  BY <1>6 DEF HTOutcome, Leaves
<1>7. CASE \E g \in htPutNodeInFreeList(h, n) :
             o = HTOutcome([g EXCEPT !.root = d], left, IF d = Lost THEN "faulted" ELSE "up")
  <2>1. PICK g \in htPutNodeInFreeList(h, n) :
             o = HTOutcome([g EXCEPT !.root = d], left, IF d = Lost THEN "faulted" ELSE "up")
    BY <1>7
  <2>2. n \in NodeIds /\ IsFiniteSet(NodesOf(t))
    BY <1>1, <1>2, <1>5, SoundTracks
  <2>3. \A i \in DOMAIN h.list : h.list[i] # n
    BY <1>1, <1>2, <1>5 DEF Spare
  <2>4. /\ g \in HTRecord(K) /\ g.root = h.root /\ g.size = h.size - 1 /\ Once(g.list)
        /\ \A M, z : Spare(h.list, M, z) /\ n \notin M /\ n[1] \notin z => Spare(g.list, M, z)
    BY <1>1, <2>2, <2>3, PutMade
  <2>5. PICK f : f = [g EXCEPT !.root = d]
    OBVIOUS
  <2>6. o.ht = f /\ o.supply = left /\ o.status = IF d = Lost THEN "faulted" ELSE "up"
    BY <2>1, <2>5 DEF HTOutcome
  <2>7. CASE d = Lost
    BY <2>6, <2>7 DEF Leaves
  <2>8. CASE d # Lost
    <3>1. d \in Sound(K)
      BY <1>5, <2>8
    <3>2. f \in HTRecord(K) /\ f.root = d /\ f.size = h.size - 1 /\ f.list = g.list
      BY <2>4, <2>5, <3>1 DEF HTRecord
    <3>3. Tracked(d) = Tracked(t) \ {a} /\ NodesOf(d) = NodesOf(t) \ {n}
      BY <1>5, <2>8
    <3>4. Cardinality(NodesOf(d)) = Cardinality(NodesOf(t)) - 1
      BY <1>5, <2>2, <3>3, FS_RemoveElement
    <3>5. Spare(h.list, NodesOf(d), s)
      BY <1>1, <1>2, <3>3 DEF Spare
    <3>6. n \notin NodesOf(d) /\ n[1] \notin s
      BY <1>1, <1>2, <1>5, <3>3
    <3>7. Spare(g.list, NodesOf(d), s)
      BY <2>4, <3>5, <3>6
    <3>8. Books(K, f, s)
      BY <1>1, <1>2, <2>4, <3>2, <3>3, <3>4, <3>7 DEF Books
    <3> QED BY <1>2, <2>6, <2>8, <3>2, <3>3, <3>8 DEF Leaves
  <2> QED BY <2>7, <2>8
<1> QED BY <1>2, <1>3, <1>4, <1>6, <1>7 DEF DeleteOutcomes

\* The books of an empty tree are right.
LEMMA FreshBooks ==
  ASSUME NEW K, NEW p \in Pages, NEW s \in SUBSET (Pages \ {p})
  PROVE  Books(K, Fresh(p), s) /\ Tracked(Fresh(p).root) = {}
<1>1. PICK l : l = Chain(p)
  OBVIOUS
<1>2. Once(l) /\ \A i \in DOMAIN l : l[i][1] = p
  BY <1>1, ChainOnce
<1>3. PICK e \in Sound(K) : e = Null
  BY SoundNull
<1>4. Tracked(e) = {} /\ NodesOf(e) = {}
  BY <1>3, SoundNull
<1>5. PICK h : h = Fresh(p)
  OBVIOUS
<1>6. h = [root |-> e, list |-> l, listEnd |-> "null", count |-> NodesPerPage, size |-> 0]
  BY <1>1, <1>3, <1>5 DEF Fresh
<1>7. l \in Seq(NodeIds) /\ NodesPerPage \in Int
  BY <1>2, HeapTreeAssumption DEF Once
<1>8. h \in HTRecord(K)
  BY <1>6, <1>7 DEF HTRecord
<1>9. Spare(l, {}, s)
  BY <1>2 DEF Spare
<1>10. Cardinality(NodesOf(e)) = 0
  BY <1>4, FS_EmptySet
<1>11. s \in SUBSET Pages
  OBVIOUS
<1>12. h.root = e /\ h.list = l /\ h.size = 0
  BY <1>6
<1> QED BY <1>2, <1>4, <1>5, <1>8, <1>9, <1>10, <1>11, <1>12 DEF Books

\* The search tells whether an address is tracked.
LEMMA Known ==
  ASSUME NEW K, NEW t \in Sound(K), NEW a \in Addresses
  PROVE  /\ htGetNodeInternal(t, a) = Null <=> a \notin Tracked(t)
         /\ htGetNodeInternal(t, a) # Null =>
              htGetNodeInternal(t, a) \in Subtrees(t) /\ htGetNodeInternal(t, a).address = a
<1>1. PICK v : v = htGetNodeInternal(t, a)
  OBVIOUS
<1>2. Finds(a, t, v)
  BY <1>1, SearchIs
<1>3. Null \notin Subtrees(t)
  BY SoundBelow
<1> QED BY <1>1, <1>2, <1>3 DEF Finds

-----------------------------------------------------------------------------
(* The tree alone.                                                         *)

TreeOK(K) == supply \in SUBSET Pages /\ (status = "up" => Books(K, ht, supply))

\* What the books say.
LEMMA BooksImply ==
  ASSUME NEW K
  PROVE  TreeOK(K) => SearchTree /\ NodesOnce
<1>1. SUFFICES ASSUME TreeOK(K), status = "up" PROVE SearchTree /\ NodesOnce
  BY DEF SearchTree, NodesOnce
<1>2. /\ ht.root \in Sound(K) /\ Once(ht.list) /\ Spare(ht.list, NodesOf(ht.root), supply)
      /\ ht.size = Cardinality(NodesOf(ht.root))
  BY <1>1 DEF TreeOK, Books, HTRecord
<1>3. SearchTree
  <2>1. ASSUME NEW t \in Subtrees(ht.root)
        PROVE  /\ \A a \in Tracked(t.left) : a < t.address
               /\ \A a \in Tracked(t.right) : a > t.address
    <3>1. t \in Sound(K) \ {Null}
      BY <1>2, SoundBelow
    <3> QED BY <3>1, SoundNode DEF Apart
  <2> QED BY <2>1 DEF SearchTree
<1>4. Cardinality(InList) = Len(ht.list)
  <2>1. PICK l : l = ht.list
    OBVIOUS
  <2>2. l \in Seq(NodeIds) /\ \A i, j \in DOMAIN l : l[i] = l[j] => i = j
    BY <1>2, <2>1 DEF Once
  <2>3. PICK n \in Nat : n = Len(l)
    BY <2>2
  <2>4. DOMAIN l = 1 .. n
    BY <2>2, <2>3
  <2> DEFINE R == {l[i] : i \in DOMAIN l}
  <2>5. l \in Bijection(1 .. n, R)
    <3>1. l \in [1 .. n -> R]
      BY <2>2, <2>3, <2>4
    <3> QED BY <2>2, <2>4, <3>1 DEF Bijection, Injection, Surjection, IsInjective
  <2>6. IsFiniteSet(1 .. n) /\ Cardinality(1 .. n) = n
    <3>1. Cardinality(1 .. n) = IF 1 > n THEN 0 ELSE n - 1 + 1
      BY FS_Interval
    <3> QED BY <3>1, FS_Interval
  <2>7. Cardinality(R) = n
    <3> HIDE DEF R
    <3> QED BY <2>5, <2>6, FS_Bijection DEF ExistsBijection
  <2> QED BY <2>1, <2>3, <2>7 DEF InList
<1>5. InTree \cap InList = {}
  BY <1>2 DEF Spare, InTree, InList
<1>6. Cardinality(InTree) = Cardinality(Subtrees(ht.root))
  BY <1>2, SoundTracks DEF InTree
<1> QED BY <1>2, <1>3, <1>4, <1>5, <1>6 DEF NodesOnce, InTree

\* The invariant holds after initHeapTree,
LEMMA InitTree ==
  ASSUME NEW K
  PROVE  HTInit => TreeOK(K) /\ Registry!Init
<1>1. SUFFICES ASSUME HTInit PROVE TreeOK(K) /\ Registry!Init
  OBVIOUS
<1>2. PICK p \in Pages : ht = Fresh(p) /\ supply = Pages \ {p} /\ status = "up"
  BY <1>1 DEF HTInit
<1>3. Books(K, ht, supply) /\ Tracked(ht.root) = {}
  BY <1>2, FreshBooks
<1> QED BY <1>2, <1>3 DEF TreeOK, Registry!Init

\* What an insertion and a deletion that are applied do to the books, which may avoid
\* more pages than those left, and to the set of addresses.
LEMMA InsertApplied ==
  ASSUME NEW K, NEW z, Books(K, ht, z), NEW left \in SUBSET z, NEW a \in Addresses, NEW k \in K,
         htGetNodeInternal(ht.root, a) = Null, Apply(InsertOutcomes(ht, left, a, k))
  PROVE  /\ supply' \subseteq left /\ a \notin Tracked(ht.root)
         /\ status' = "up" => /\ Books(K, ht', z \ (left \ supply'))
                              /\ Tracked(ht'.root) = Tracked(ht.root) \cup {a}
<1>1. ht.root \in Sound(K)
  BY DEF Books, HTRecord
<1>2. PICK h : h = ht
  OBVIOUS
<1>3. PICK o \in InsertOutcomes(h, left, a, k) : ht' = o.ht /\ supply' = o.supply /\ status' = o.status
  BY <1>2 DEF Apply
<1>4. a \notin Tracked(h.root)
  BY <1>1, <1>2, Known
<1>5. o.supply \subseteq left /\ Leaves(K, o, z \ (left \ o.supply), Tracked(h.root) \cup {a})
  BY <1>2, <1>3, <1>4, InsertLeaves
<1> QED BY <1>2, <1>3, <1>4, <1>5 DEF Leaves

\* The same for a deletion.
LEMMA DeleteApplied ==
  ASSUME NEW K, NEW z, Books(K, ht, z), NEW a \in Addresses, htGetNodeInternal(ht.root, a) # Null,
         NEW left, Apply(DeleteOutcomes(ht, left, a))
  PROVE  /\ supply' = left /\ a \in Tracked(ht.root)
         /\ status' = "up" => Books(K, ht', z) /\ Tracked(ht'.root) = Tracked(ht.root) \ {a}
<1>1. ht.root \in Sound(K)
  BY DEF Books, HTRecord
<1>2. PICK h : h = ht
  OBVIOUS
<1>3. PICK o \in DeleteOutcomes(h, left, a) : ht' = o.ht /\ supply' = o.supply /\ status' = o.status
  BY <1>2 DEF Apply
<1>4. a \in Tracked(h.root)
  BY <1>1, <1>2, Known
<1>5. o.supply = left /\ Leaves(K, o, z, Tracked(h.root) \ {a})
  BY <1>2, <1>3, <1>4, DeleteLeaves
<1> QED BY <1>2, <1>3, <1>4, <1>5 DEF Leaves

\* Alone, the tree avoids the pages that are left.
LEMMA InsertKeeps ==
  ASSUME NEW K, TreeOK(K), status = "up", NEW a \in Addresses, NEW k \in K,
         htGetNodeInternal(ht.root, a) = Null, Apply(InsertOutcomes(ht, supply, a, k))
  PROVE  /\ TreeOK(K)' /\ a \notin Tracked(ht.root)
         /\ status' = "up" => Tracked(ht'.root) = Tracked(ht.root) \cup {a}
<1>1. Books(K, ht, supply) /\ supply \in SUBSET Pages /\ supply \in SUBSET supply
  BY DEF TreeOK
<1>2. /\ supply' \subseteq supply /\ a \notin Tracked(ht.root)
      /\ status' = "up" => /\ Books(K, ht', supply \ (supply \ supply'))
                           /\ Tracked(ht'.root) = Tracked(ht.root) \cup {a}
  BY <1>1, InsertApplied
<1>3. supply \ (supply \ supply') = supply'
  BY <1>2
<1> QED BY <1>1, <1>2, <1>3 DEF TreeOK

\* The same for a deletion.
LEMMA DeleteKeeps ==
  ASSUME NEW K, TreeOK(K), status = "up", NEW a \in Addresses, htGetNodeInternal(ht.root, a) # Null,
         Apply(DeleteOutcomes(ht, supply, a))
  PROVE  /\ TreeOK(K)' /\ a \in Tracked(ht.root)
         /\ status' = "up" => Tracked(ht'.root) = Tracked(ht.root) \ {a}
<1>1. Books(K, ht, supply) /\ supply \in SUBSET Pages
  BY DEF TreeOK
<1> QED BY <1>1, DeleteApplied DEF TreeOK

\* One address comes or goes, or the set is lost.
LEMMA RegistrySteps ==
  ASSUME status = "up",
         \/ status' # "up"
         \/ \E a \in Addresses : a \notin Tracked(ht.root) /\ Tracked(ht'.root) = Tracked(ht.root) \cup {a}
         \/ \E a \in Addresses : a \in Tracked(ht.root) /\ Tracked(ht'.root) = Tracked(ht.root) \ {a}
  PROVE  Registry!Next
<1>1. CASE status' # "up"
  BY <1>1 DEF Registry!Next
<1>2. CASE \E a \in Addresses : a \notin Tracked(ht.root) /\ Tracked(ht'.root) = Tracked(ht.root) \cup {a}
  <2>1. Registry!Put
    BY <1>2 DEF Registry!Put
  <2> QED BY <2>1 DEF Registry!Next
<1>3. CASE \E a \in Addresses : a \in Tracked(ht.root) /\ Tracked(ht'.root) = Tracked(ht.root) \ {a}
  <2>1. Registry!Take
    BY <1>3 DEF Registry!Take
  <2> QED BY <2>1 DEF Registry!Next
<1> QED BY <1>1, <1>2, <1>3

\* A step that leaves the tree alone.
LEMMA SameBooks ==
  ASSUME NEW K, TreeOK(K), UNCHANGED hvars
  PROVE  TreeOK(K)' /\ UNCHANGED <<Tracked(ht.root), status # "up">>
BY DEF TreeOK, hvars

\* An insertion and a deletion keep the invariant and are steps of the set of
\* addresses.
LEMMA NextTree ==
  ASSUME TreeOK(Kinds), [HTNext]_hvars
  PROVE  TreeOK(Kinds)' /\ [Registry!Next]_<<Tracked(ht.root), status # "up">>
<1>1. CASE UNCHANGED hvars
  BY <1>1, SameBooks
<1>2. ASSUME NEW a \in Addresses, NEW k \in Kinds, Insert(a, k)
      PROVE  TreeOK(Kinds)' /\ Registry!Next
  <2>1. /\ TreeOK(Kinds)' /\ a \notin Tracked(ht.root)
        /\ status' = "up" => Tracked(ht'.root) = Tracked(ht.root) \cup {a}
    BY <1>2, InsertKeeps DEF Insert
  <2> QED BY <1>2, <2>1, RegistrySteps DEF Insert
<1>3. ASSUME NEW a \in Addresses, Delete(a)
      PROVE  TreeOK(Kinds)' /\ Registry!Next
  <2>1. /\ TreeOK(Kinds)' /\ a \in Tracked(ht.root)
        /\ status' = "up" => Tracked(ht'.root) = Tracked(ht.root) \ {a}
    BY <1>3, DeleteKeeps DEF Delete
  <2> QED BY <1>3, <2>1, RegistrySteps DEF Delete
<1> QED BY <1>1, <1>2, <1>3 DEF HTNext

\* So the books are always right.
LEMMA AlwaysTree == HTSpec => []TreeOK(Kinds)
<1>1. HTInit => TreeOK(Kinds)
  BY InitTree
<1>2. TreeOK(Kinds) /\ [HTNext]_hvars => TreeOK(Kinds)'
  BY NextTree
<1> QED BY <1>1, <1>2, PTL DEF HTSpec

\* While the kernel runs the heap's tree is in search order, whatever the rotations
\* move and however wrong the stored heights are (heaptree.c:176-219, 264-280).
THEOREM TreeSearched == HTSpec => []SearchTree
<1>1. TreeOK(Kinds) => SearchTree
  BY BooksImply
<1> QED BY <1>1, AlwaysTree, PTL

\* A node is in the tree or in the free list, once, and as many are counted as are
\* in the tree, whichever node a deletion frees (heaptree.c:93, 235).
THEOREM TreeNodesOnce == HTSpec => []NodesOnce
<1>1. TreeOK(Kinds) => NodesOnce
  BY BooksImply
<1> QED BY <1>1, AlwaysTree, PTL

\* insertAllocTreeNode adds the one address it is given and deleteAllocTreeNode takes
\* that one out, until the kernel stops: no other allocation is lost or made up.
THEOREM TreeImplementsRegistry == HTSpec => ImplementsRegistry
<1>1. HTInit => Registry!Init
  BY InitTree
<1>2. TreeOK(Kinds) /\ [HTNext]_hvars => [Registry!Next]_<<Tracked(ht.root), status # "up">>
  BY NextTree
<1> QED BY <1>1, <1>2, AlwaysTree, PTL DEF HTSpec, ImplementsRegistry, Registry!Spec

-----------------------------------------------------------------------------
(* The tree of whole pages: its nodes hold numbers.                        *)

\* A caller that holds an address alone finds it; an address that two hold is shared.
HoldersOK ==
  /\ live \in [Addresses -> Nat]
  /\ \A a \in Addresses : live[a] > 1 => a \in shared
PagesOK == TreeOK(Nat) /\ LiveTracked /\ HoldersOK

\* What a call does to the tree: the kernel stops, or A are the addresses in it now.
Changes(A) ==
  /\ TreeOK(Nat)' /\ [Registry!Next]_<<Tracked(ht.root), status # "up">>
  /\ status' = "up" => Tracked(ht'.root) = A

\* The sizes that allocPage asks for.
LEMMA PageCounts ==
  ASSUME NEW n \in Nat
  PROVE  numpages(n) \in Nat
BY PageAllocAssumption DEF numpages

\* An address that is put in is in the tree, and what was there before still is.  One
\* that was there already may still turn the tree round.
LEMMA PutsPage ==
  ASSUME TreeOK(Nat), status = "up", NEW a \in Addresses, NEW n \in Nat,
         Apply(ptInsertTreeNode(a, numpages(n)))
  PROVE  Changes(Tracked(ht.root) \cup {a})
<1>1. Books(Nat, ht, supply) /\ supply \in SUBSET Pages /\ ht.root \in Sound(Nat)
  BY DEF TreeOK, Books, HTRecord
<1>2. CASE ptGetTreeNode(a) = Null
  <2>1. Apply(InsertOutcomes(ht, supply, a, numpages(n))) /\ htGetNodeInternal(ht.root, a) = Null
    BY <1>2 DEF ptInsertTreeNode, ptGetTreeNode
  <2>2. /\ TreeOK(Nat)' /\ a \notin Tracked(ht.root)
        /\ status' = "up" => Tracked(ht'.root) = Tracked(ht.root) \cup {a}
    BY <2>1, PageCounts, InsertKeeps
  <2>3. Registry!Next
    BY <2>2, RegistrySteps
  <2> QED BY <2>2, <2>3 DEF Changes
<1>3. CASE ptGetTreeNode(a) # Null
  <2>1. a \in Tracked(ht.root)
    BY <1>1, <1>3, Known DEF ptGetTreeNode
  <2>2. PICK root : root = htInsertNodeInternal(ht.root, a, Null)
    OBVIOUS
  <2>3. /\ ht' = [ht EXCEPT !.root = root] /\ supply' = supply
        /\ status' = IF root = Lost THEN "faulted" ELSE "up"
    BY <1>3, <2>2 DEF ptInsertTreeNode, Apply, HTOutcome
  <2>4. Kept(Nat, ht.root, root)
    BY <1>1, <2>2, InsertKept
  <2>5. CASE root = Lost
    <3>1. status' # "up" /\ supply' \in SUBSET Pages
      BY <1>1, <2>3, <2>5
    <3>2. Registry!Next
      BY <3>1, RegistrySteps
    <3> QED BY <3>1, <3>2 DEF Changes, TreeOK
  <2>6. CASE root # Lost
    <3>1. /\ root \in Sound(Nat) /\ Tracked(root) = Tracked(ht.root) /\ NodesOf(root) = NodesOf(ht.root)
          /\ ht \in HTRecord(Nat)
      BY <1>1, <2>4, <2>6 DEF Kept, Books
    <3>2. /\ ht' \in HTRecord(Nat) /\ ht'.root = root
          /\ ht'.list = ht.list /\ ht'.size = ht.size
      BY <2>3, <3>1 DEF HTRecord
    <3>3. Books(Nat, ht', supply')
      BY <1>1, <2>3, <3>1, <3>2 DEF Books
    <3>4. TreeOK(Nat)'
      BY <1>1, <2>3, <3>3 DEF TreeOK
    <3>5. Tracked(ht'.root) = Tracked(ht.root)
      BY <3>1, <3>2
    <3>6. UNCHANGED <<Tracked(ht.root), status # "up">>
      BY <2>3, <2>6, <3>5
    <3> QED BY <2>1, <3>4, <3>5, <3>6 DEF Changes
  <2> QED BY <2>5, <2>6
<1> QED BY <1>2, <1>3

\* A call that leaves the tree and its holders alone,
LEMMA PagesRest ==
  ASSUME PagesOK, UNCHANGED <<hvars, live, shared>>
  PROVE  PagesOK' /\ [Registry!Next]_<<Tracked(ht.root), status # "up">>
<1>1. TreeOK(Nat)' /\ UNCHANGED <<Tracked(ht.root), status # "up">>
  BY SameBooks DEF PagesOK
<1>2. LiveTracked'
  BY DEF PagesOK, LiveTracked, Allocated, hvars
<1>3. HoldersOK'
  BY DEF PagesOK, HoldersOK
<1> QED BY <1>1, <1>2, <1>3 DEF PagesOK

\* one that gives an address to a caller,
LEMMA PagesGiven ==
  ASSUME PagesOK, status = "up", NEW a \in Addresses, NEW n \in Nat,
         Hold(a), Apply(ptInsertTreeNode(a, numpages(n)))
  PROVE  PagesOK' /\ [Registry!Next]_<<Tracked(ht.root), status # "up">>
<1>1. Changes(Tracked(ht.root) \cup {a})
  BY PutsPage DEF PagesOK
<1>2. /\ live \in [Addresses -> Nat] /\ \A b \in Addresses : live[b] > 1 => b \in shared
      /\ Allocated \ shared \subseteq Tracked(ht.root)
  BY DEF PagesOK, HoldersOK, LiveTracked
<1>3. /\ live' \in [Addresses -> Nat] /\ live'[a] = live[a] + 1
      /\ \A b \in Addresses \ {a} : live'[b] = live[b]
      /\ shared \subseteq shared' /\ (live[a] > 0 => a \in shared')
  BY <1>2 DEF Hold
<1>4. HoldersOK'
  BY <1>2, <1>3 DEF HoldersOK
<1>5. Allocated' \subseteq Allocated \cup {a}
  BY <1>3 DEF Allocated
<1>6. LiveTracked'
  BY <1>1, <1>2, <1>3, <1>5 DEF LiveTracked, Changes
<1> QED BY <1>1, <1>4, <1>6 DEF PagesOK, Changes

\* and one that takes it back.
LEMMA PagesTaken ==
  ASSUME PagesOK, NEW a \in Addresses, freePage(a)
  PROVE  PagesOK' /\ [Registry!Next]_<<Tracked(ht.root), status # "up">>
<1>1. /\ live \in [Addresses -> Nat] /\ \A b \in Addresses : live[b] > 1 => b \in shared
      /\ Allocated \ shared \subseteq Tracked(ht.root) /\ TreeOK(Nat)
      /\ status = "up" /\ live[a] > 0
  BY DEF PagesOK, HoldersOK, LiveTracked, freePage
<1>2. /\ live' \in [Addresses -> Nat] /\ live'[a] = live[a] - 1
      /\ \A b \in Addresses \ {a} : live'[b] = live[b]
      /\ shared' = IF live[a] = 1 THEN shared \ {a} ELSE shared
  BY <1>1 DEF freePage, Drop
<1>3. HoldersOK'
  BY <1>1, <1>2 DEF HoldersOK
<1>4. Allocated' \ shared' \subseteq (Allocated \ shared) \ {a}
  <2>1. ASSUME NEW b \in Allocated' \ shared' PROVE b \in (Allocated \ shared) \ {a}
    <3>1. b \in Addresses /\ live'[b] > 0 /\ b \notin shared'
      BY <2>1 DEF Allocated
    <3>2. CASE b = a
      BY <1>1, <1>2, <3>1, <3>2
    <3>3. CASE b # a
      BY <1>1, <1>2, <3>1, <3>3 DEF Allocated
    <3> QED BY <3>2, <3>3
  <2> QED BY <2>1
<1>5. CASE UNCHANGED hvars
  <2>1. TreeOK(Nat)' /\ UNCHANGED <<Tracked(ht.root), status # "up">>
    BY <1>1, <1>5, SameBooks
  <2>2. LiveTracked'
    BY <1>1, <1>4, <2>1 DEF LiveTracked
  <2> QED BY <1>3, <2>1, <2>2 DEF PagesOK
<1>6. CASE Apply(DeleteOutcomes(ht, supply, a))
  <2>1. htGetNodeInternal(ht.root, a) # Null
    BY DEF freePage, ptGetTreeNode
  <2>2. /\ TreeOK(Nat)' /\ a \in Tracked(ht.root)
        /\ status' = "up" => Tracked(ht'.root) = Tracked(ht.root) \ {a}
    BY <1>1, <1>6, <2>1, DeleteKeeps
  <2>3. Registry!Next
    BY <1>1, <2>2, RegistrySteps
  <2>4. LiveTracked'
    BY <1>1, <1>4, <2>2 DEF LiveTracked
  <2> QED BY <1>3, <2>2, <2>3, <2>4 DEF PagesOK
<1> QED BY <1>5, <1>6 DEF freePage, ptDeleteTreeNode

\* allocPage and freePage keep the invariant and what is promised, and are steps
\* of the set.
LEMMA NextPages ==
  ASSUME PagesOK, [PTNext]_ptvars
  PROVE  PagesOK' /\ [Registry!Next]_<<Tracked(ht.root), status # "up">>
<1>1. CASE UNCHANGED ptvars
  BY <1>1, PagesRest DEF ptvars
<1>2. ASSUME NEW n \in Requests, allocPage(n)
      PROVE  PagesOK' /\ [Registry!Next]_<<Tracked(ht.root), status # "up">>
  <2>1. status = "up" /\ n \in Nat
    BY <1>2, PageAllocAssumption DEF allocPage
  <2>2. CASE allocOnePage
    <3>1. PICK v \in Space : IF Shifted(v) = 0 THEN UNCHANGED <<hvars, live, shared>>
                             ELSE Hold(Shifted(v)) /\ Apply(ptInsertTreeNode(Shifted(v), numpages(1)))
      BY <2>2 DEF allocOnePage
    <3>2. CASE Shifted(v) = 0
      BY <3>1, <3>2, PagesRest
    <3>3. CASE Shifted(v) # 0
      <4>1. PICK a : a = Shifted(v)
        OBVIOUS
      <4>2. a \in Addresses
        BY <3>3, <4>1, PageAllocAssumption
      <4> QED BY <2>1, <3>1, <3>3, <4>1, <4>2, PagesGiven
    <3> QED BY <3>2, <3>3
  <2>3. CASE allocPages(n)
    <3>1. PICK a \in Space : Hold(a) /\ Apply(ptInsertTreeNode(a, numpages(n)))
      BY <2>3 DEF allocPages
    <3>2. a \in Addresses
      BY PageAllocAssumption
    <3> QED BY <2>1, <3>1, <3>2, PagesGiven
  <2> QED BY <1>2, <2>2, <2>3 DEF allocPage
<1> QED BY <1>1, <1>2, PagesTaken DEF PTNext

\* The start of it.
LEMMA InitPages == PTInit => PagesOK /\ Registry!Init
<1>1. PTInit => TreeOK(Nat) /\ Registry!Init
  BY InitTree DEF PTInit
<1>2. PTInit => live = [a \in Addresses |-> 0]
  BY DEF PTInit
<1>3. PTInit => Allocated = {} /\ HoldersOK
  BY <1>2 DEF Allocated, HoldersOK
<1> QED BY <1>1, <1>3 DEF PagesOK, LiveTracked

\* So it is always.
LEMMA AlwaysPages == PTSpec => []PagesOK
<1>1. PTInit => PagesOK
  BY InitPages
<1>2. PagesOK /\ [PTNext]_ptvars => PagesOK'
  BY NextPages
<1> QED BY <1>1, <1>2, PTL DEF PTSpec

\* An address of allocPage that one caller holds is in the tree until it is given back,
\* though nodes of single pages stay there, are found by a later allocation of the same
\* address and turn the tree round (pagealloctree.c:189-232).  That two callers may get
\* one address (pagealloctree.c:353) is what it leaves out.
THEOREM PagesTracked == PTSpec => []LiveTracked
<1>1. PagesOK => LiveTracked
  BY DEF PagesOK
<1> QED BY <1>1, AlwaysPages, PTL

\* The tree of whole pages is in search order and shares no node with its free list,
\* also when an insertion finds its address in the tree and rebalances all the same.
THEOREM PagesSearched == PTSpec => [](SearchTree /\ NodesOnce)
<1>1. PagesOK => SearchTree /\ NodesOnce
  BY BooksImply DEF PagesOK
<1> QED BY <1>1, AlwaysPages, PTL

\* allocPage and freePage put in and take out one address of the tree at a time, and an
\* allocation of an address that is in the tree changes nothing that is tracked.
THEOREM PagesImplementRegistry == PTSpec => ImplementsRegistry
<1>1. PTInit => Registry!Init
  BY InitPages
<1>2. PagesOK /\ [PTNext]_ptvars => [Registry!Next]_<<Tracked(ht.root), status # "up">>
  BY NextPages
<1> QED BY <1>1, <1>2, AlwaysPages, PTL DEF PTSpec, ImplementsRegistry, Registry!Spec

-----------------------------------------------------------------------------
(* The slab allocators.                                                  *)

Slab == [address : Pages \cup {0}, avail : Nat, availmap : SUBSET Nat]

SlabGood(k, b) ==
  /\ b.availmap \subseteq Bits(k)
  /\ b.avail = Cardinality(b.availmap)
  /\ b.address = 0 => b.availmap = Bits(k)

Good(s, left) ==
  /\ s \in [Kinds -> Seq(Slab)]
  /\ left \subseteq Pages
  /\ \A k \in Kinds : \A i \in DOMAIN s[k] : SlabGood(k, s[k][i])
  /\ \A k, l \in Kinds : \A i \in DOMAIN s[k], j \in DOMAIN s[l] :
       s[k][i].address # 0 =>
         /\ s[k][i].address \notin left
         /\ s[l][j].address = s[k][i].address => k = l /\ i = j

\* A page holds some blocks, numbered from 0, and no page is at address 0.
LEMMA BlockSizes ==
  ASSUME NEW k \in Kinds
  PROVE  /\ Blocks(k) \in Nat /\ Blocks(k) > 0
         /\ IsFiniteSet(Bits(k)) /\ Cardinality(Bits(k)) = Blocks(k)
         /\ Bits(k) \subseteq Nat
         /\ \A a \in Nat : BitOf(k, a) \in Bits(k)
<1>1. Blocks(k) \in Nat /\ Blocks(k) > 0
  <2>1. PageSize \in Nat /\ Unit[k] \in Nat /\ Unit[k] > 0 /\ PageSize >= Unit[k]
    BY SlabAssumption
  <2>2. \A n, u \in Nat : u > 0 /\ n >= u => n \div u \in Nat /\ n \div u > 0
    BY Z3
  <2> QED BY <2>1, <2>2 DEF Blocks
<1>2. IsFiniteSet(Bits(k)) /\ Cardinality(Bits(k)) = Blocks(k)
  BY <1>1, FS_Interval DEF Bits
<1>3. \A a \in Nat : BitOf(k, a) \in Bits(k)
  BY <1>1 DEF BitOf, Bits
<1> QED BY <1>1, <1>2, <1>3 DEF Bits

\* No page is at address 0.
LEMMA PagesPositive == Pages \subseteq Nat /\ 0 \notin Pages
BY SlabAssumption

\* The smallest of some numbers is one of them.
LEMMA SmallestIsIn ==
  ASSUME NEW S \in SUBSET Nat, S # {}
  PROVE  Smallest(S) \in S
BY Least DEF Smallest

\* One slab changes: it keeps its page, takes one of those left, or gives its own back.
LEMMA Update ==
  ASSUME NEW s, NEW left, Good(s, left), NEW k \in Kinds, NEW i \in DOMAIN s[k],
         NEW b \in Slab, SlabGood(k, b),
         b.address \in left \cup {0, s[k][i].address},
         NEW left2 \in SUBSET Pages,
         left2 \subseteq (left \cup {s[k][i].address}) \ {b.address}
  PROVE  Good([s EXCEPT ![k][i] = b], left2)
<1> DEFINE t == [s EXCEPT ![k][i] = b]
<1>1. s \in [Kinds -> Seq(Slab)] /\ s[k] \in Seq(Slab)
  BY DEF Good
<1>2. [s[k] EXCEPT ![i] = b] \in Seq(Slab) /\ DOMAIN [s[k] EXCEPT ![i] = b] = DOMAIN s[k]
  BY <1>1
<1>3. t \in [Kinds -> Seq(Slab)] /\ \A l \in Kinds : DOMAIN t[l] = DOMAIN s[l]
  BY <1>1, <1>2
<1>4. \A l \in Kinds : \A j \in DOMAIN t[l] :
        t[l][j] = IF l = k /\ j = i THEN b ELSE s[l][j]
  BY <1>1, <1>2, <1>3
<1>5. \A l \in Kinds : \A j \in DOMAIN t[l] : SlabGood(l, t[l][j])
  BY <1>3, <1>4 DEF Good
<1>6. ASSUME NEW l \in Kinds, NEW m \in Kinds, NEW j \in DOMAIN t[l], NEW n \in DOMAIN t[m],
             t[l][j].address # 0
      PROVE  /\ t[l][j].address \notin left2
             /\ t[m][n].address = t[l][j].address => l = m /\ j = n
  <2>1. j \in DOMAIN s[l] /\ n \in DOMAIN s[m]
    BY <1>3
  <2>2. CASE l = k /\ j = i
    <3>1. t[l][j].address = b.address
      BY <2>2, <1>4
    <3>2. CASE m = k /\ n = i
      BY <3>1, <3>2, <2>2
    <3>3. CASE ~(m = k /\ n = i)
      <4>1. t[m][n] = s[m][n]
        BY <3>3, <1>4
      <4>2. s[m][n].address = b.address => FALSE
        BY <3>1, <3>3, <2>1, <1>6 DEF Good
      <4> QED BY <3>1, <4>1, <4>2
    <3> QED BY <3>2, <3>3
  <2>3. CASE ~(l = k /\ j = i)
    <3>1. t[l][j] = s[l][j] /\ s[l][j].address # 0
      BY <2>3, <1>4, <1>6
    <3>2. s[l][j].address \notin left /\ s[l][j].address # s[k][i].address
      BY <3>1, <2>1, <2>3 DEF Good
    <3>3. CASE m = k /\ n = i
      BY <3>1, <3>2, <3>3, <1>4
    <3>4. CASE ~(m = k /\ n = i)
      BY <3>1, <3>2, <3>4, <1>4, <2>1 DEF Good
    <3> QED BY <3>3, <3>4
  <2> QED BY <2>2, <2>3
<1> QED BY <1>3, <1>5, <1>6 DEF Good

\* A page of new slabs is chained at the end.
LEMMA Chains ==
  ASSUME NEW s, NEW left, Good(s, left), NEW k \in Kinds, NEW left2 \in SUBSET left
  PROVE  /\ Good([s EXCEPT ![k] = @ \o NewSlabs(k)], left2)
         /\ Len(s[k]) + 1 \in DOMAIN [s EXCEPT ![k] = @ \o NewSlabs(k)][k]
         /\ [s EXCEPT ![k] = @ \o NewSlabs(k)][k][Len(s[k]) + 1].availmap # {}
<1> DEFINE more == [s EXCEPT ![k] = @ \o NewSlabs(k)]
           new == [address |-> 0, avail |-> Blocks(k), availmap |-> Bits(k)]
<1>1. s \in [Kinds -> Seq(Slab)] /\ s[k] \in Seq(Slab)
  BY DEF Good
<1>2. new \in Slab /\ SlabGood(k, new) /\ new.availmap # {}
  BY BlockSizes DEF Slab, SlabGood, Bits
<1>3. NewSlabs(k) \in Seq(Slab) /\ Len(NewSlabs(k)) = SlabsPerPage[k] /\ SlabsPerPage[k] \in Nat
      /\ SlabsPerPage[k] > 0 /\ \A i \in 1 .. SlabsPerPage[k] : NewSlabs(k)[i] = new
  BY <1>2, SlabAssumption DEF NewSlabs
<1> HIDE DEF new
<1>4. more \in [Kinds -> Seq(Slab)] /\ \A l \in Kinds \ {k} : more[l] = s[l]
  BY <1>1, <1>3
<1>5. /\ DOMAIN more[k] = 1 .. Len(s[k]) + SlabsPerPage[k]
      /\ \A i \in DOMAIN more[k] : more[k][i] = IF i \in DOMAIN s[k] THEN s[k][i] ELSE new
  <2>1. more[k] = s[k] \o NewSlabs(k)
    BY <1>1
  <2>2. Len(s[k]) \in Nat /\ DOMAIN s[k] = 1 .. Len(s[k])
    BY <1>1
  <2> HIDE DEF more
  <2>3. DOMAIN more[k] = 1 .. Len(s[k]) + SlabsPerPage[k]
    BY <1>1, <1>3, <2>1
  <2>4. ASSUME NEW i \in DOMAIN more[k]
        PROVE  more[k][i] = IF i \in DOMAIN s[k] THEN s[k][i] ELSE new
    <3>1. CASE i \in DOMAIN s[k]
      BY <1>1, <1>3, <2>1, <2>2, <3>1
    <3>2. CASE i \notin DOMAIN s[k]
      <4>1. i - Len(s[k]) \in 1 .. SlabsPerPage[k]
        BY <1>3, <2>2, <2>3, <3>2
      <4>2. more[k][i] = NewSlabs(k)[i - Len(s[k])]
        BY <1>1, <1>3, <2>1, <2>2, <2>3, <3>2, <4>1
      <4> QED BY <1>3, <3>2, <4>1, <4>2
    <3> QED BY <3>1, <3>2
  <2> QED BY <2>3, <2>4
<1>6. \A l \in Kinds : \A i \in DOMAIN more[l] :
        \/ i \in DOMAIN s[l] /\ more[l][i] = s[l][i]
        \/ l = k /\ more[l][i] = new
  BY <1>4, <1>5
<1>7. new.address = 0
  BY DEF new
<1>8. \A l \in Kinds : \A i \in DOMAIN more[l] : SlabGood(l, more[l][i])
  BY <1>2, <1>6 DEF Good
<1>9. ASSUME NEW l \in Kinds, NEW m \in Kinds, NEW i \in DOMAIN more[l], NEW j \in DOMAIN more[m],
             more[l][i].address # 0
      PROVE  /\ more[l][i].address \notin left2
             /\ more[m][j].address = more[l][i].address => l = m /\ i = j
  BY <1>6, <1>7, <1>9 DEF Good
<1>10. Good(more, left2)
  BY <1>4, <1>8, <1>9 DEF Good
<1>11. Len(s[k]) + 1 \in DOMAIN more[k] /\ more[k][Len(s[k]) + 1].availmap # {}
  BY <1>1, <1>2, <1>3, <1>5
<1> QED BY <1>10, <1>11

\* A slab with an available block serves it.
LEMMA Serves ==
  ASSUME NEW s, NEW left, Good(s, left), NEW k \in Kinds, NEW i \in DOMAIN s[k],
         s[k][i].availmap # {}, NEW o \in ServeFrom(s, left, k, i)
  PROVE  Good(o.slabs, o.supply)
<1> DEFINE old == s[k][i]
           bit == Smallest(old.availmap)
           served(p) == [address |-> p, avail |-> old.avail - 1, availmap |-> old.availmap \ {bit}]
<1>1. old \in Slab /\ SlabGood(k, old)
  BY DEF Good
<1>2. old.availmap \in SUBSET Nat /\ IsFiniteSet(old.availmap) /\ bit \in old.availmap
  BY <1>1, BlockSizes, FS_Subset, SmallestIsIn DEF SlabGood
<1>3. ASSUME NEW p \in Pages
      PROVE  served(p) \in Slab /\ SlabGood(k, served(p))
  <2>1. Cardinality(old.availmap \ {bit}) = Cardinality(old.availmap) - 1
        /\ Cardinality(old.availmap \ {bit}) \in Nat
    BY <1>2, FS_RemoveElement, FS_CardinalityType
  <2>2. p # 0
    BY PagesPositive
  <2> QED BY <1>1, <2>1, <2>2 DEF Slab, SlabGood
<1>4. CASE old.address # 0
  <2>1. o = Serve(s, left, k, i, old.address)
    BY <1>4 DEF ServeFrom
  <2>2. o.slabs = [s EXCEPT ![k][i] = served(old.address)] /\ o.supply = left
    BY <2>1 DEF Serve, Outcome
  <2>3. old.address \in Pages /\ left \in SUBSET Pages /\ old.address \notin left
    BY <1>1, <1>4 DEF Slab, Good
  <2> HIDE DEF old
  <2>4. served(old.address).address = old.address
    OBVIOUS
  <2> HIDE DEF served
  <2> QED BY <1>3, <2>2, <2>3, <2>4, Update DEF old
<1>5. CASE old.address = 0 /\ left = {}
  BY <1>5 DEF ServeFrom, Outcome
<1>6. CASE old.address = 0 /\ left # {}
  <2>1. PICK p \in left : o = Serve(s, left \ {p}, k, i, p)
    BY <1>6 DEF ServeFrom
  <2>2. o.slabs = [s EXCEPT ![k][i] = served(p)] /\ o.supply = left \ {p}
    BY <2>1 DEF Serve, Outcome
  <2>3. p \in Pages /\ left \ {p} \in SUBSET Pages
    BY DEF Good
  <2>4. served(p).address = p
    OBVIOUS
  <2> HIDE DEF served
  <2> QED BY <1>3, <2>2, <2>3, <2>4, Update
<1> QED BY <1>4, <1>5, <1>6

\* An allocation keeps the books, whether or not it needs a new page of slabs.
LEMMA Allocates ==
  ASSUME NEW s, NEW left, Good(s, left), NEW k \in Kinds, NEW o \in AllocOutcomes(s, left, k)
  PROVE  Good(o.slabs, o.supply)
<1> DEFINE some == {i \in DOMAIN s[k] : s[k][i].avail > 0 /\ s[k][i].availmap # {}}
           more == [s EXCEPT ![k] = @ \o NewSlabs(k)]
<1>1. s[k] \in Seq(Slab) /\ some \in SUBSET Nat
  BY DEF Good
<1>2. CASE some # {}
  <2>1. Smallest(some) \in some
    BY <1>1, <1>2, SmallestIsIn
  <2>2. o \in ServeFrom(s, left, k, Smallest(some))
    BY <1>2 DEF AllocOutcomes
  <2> QED BY <2>1, <2>2, Serves
<1>3. CASE some = {} /\ left = {}
  BY <1>3 DEF AllocOutcomes, Outcome
<1>4. CASE some = {} /\ left # {}
  <2>1. PICK p \in left : o \in ServeFrom(more, left \ {p}, k, Len(s[k]) + 1)
    BY <1>4 DEF AllocOutcomes
  <2>2. /\ Good(more, left \ {p})
        /\ Len(s[k]) + 1 \in DOMAIN more[k]
        /\ more[k][Len(s[k]) + 1].availmap # {}
    BY Chains
  <2> HIDE DEF more
  <2> QED BY <2>1, <2>2, Serves
<1> QED BY <1>2, <1>3, <1>4

\* A slab that gets a block back keeps its books, with its page and, once all its
\* blocks are back, without.
LEMMA Returns ==
  ASSUME NEW k \in Kinds, NEW slab \in Slab, SlabGood(k, slab), slab.address # 0,
         NEW bit \in Bits(k), bit \notin slab.availmap
  PROVE  LET set == Returned(slab, bit) IN
         /\ set \in Slab /\ SlabGood(k, set) /\ set.address = slab.address
         /\ AllBack(k, set) => /\ WithoutPage(set) \in Slab
                               /\ SlabGood(k, WithoutPage(set))
                               /\ WithoutPage(set).address = 0
<1> DEFINE map == slab.availmap \cup {bit}
           set == [address |-> slab.address, avail |-> slab.avail + 1, availmap |-> map]
           bare == [address |-> 0, avail |-> slab.avail + 1, availmap |-> map]
<1>1. slab.address \in Pages /\ slab.avail \in Nat
  BY DEF Slab
<1>2. Returned(slab, bit) = set
  BY DEF Returned
<1>3. WithoutPage(set) = bare
  BY DEF WithoutPage
<1>4. map \subseteq Bits(k) /\ map \in SUBSET Nat
  BY BlockSizes DEF SlabGood
<1>5. Cardinality(map) = slab.avail + 1 /\ slab.avail + 1 \in Nat
  <2>1. IsFiniteSet(slab.availmap)
    BY BlockSizes, FS_Subset DEF SlabGood
  <2> QED BY <2>1, <1>1, FS_AddElement, FS_CardinalityType DEF SlabGood
<1>6. set \in Slab /\ SlabGood(k, set)
  BY <1>1, <1>4, <1>5 DEF Slab, SlabGood
<1>7. ASSUME AllBack(k, set)
      PROVE  bare \in Slab /\ SlabGood(k, bare)
  <2>1. Cardinality(map) = Cardinality(Bits(k))
    BY <1>5, <1>7, BlockSizes DEF AllBack
  <2>2. map = Bits(k)
    BY <2>1, <1>4, BlockSizes, FS_Subset
  <2> QED BY <2>2, <1>4, <1>5 DEF Slab, SlabGood
<1>8. set.address = slab.address /\ bare.address = 0
  OBVIOUS
<1> HIDE DEF set, bare
<1> QED BY <1>2, <1>3, <1>6, <1>7, <1>8

\* So does a free of any address.
LEMMA Frees ==
  ASSUME NEW s, NEW left, Good(s, left), NEW k \in Kinds, NEW a \in Nat,
         NEW o \in FreeOutcomes(s, left, k, a)
  PROVE  Good(o.slabs, o.supply)
<1> DEFINE on == OnPage(s, k, a)
           i == Smallest(on)
           bit == BitOf(k, a)
           set == Returned(s[k][i], bit)
<1>1. CASE on = {} \/ bit \in s[k][i].availmap
  <2>1. o = FreeOutcome(s, left, FALSE)
    BY <1>1 DEF FreeOutcomes
  <2> QED BY <2>1 DEF FreeOutcome
<1>2. CASE on # {} /\ bit \notin s[k][i].availmap
  <2>1. o \in FreeFrom(s, left, k, i, bit)
    BY <1>2 DEF FreeOutcomes
  <2>2. i \in on
    <3>1. on \in SUBSET Nat
      BY DEF Good, OnPage
    <3> QED BY <3>1, <1>2, SmallestIsIn
  <2>3. i \in DOMAIN s[k] /\ s[k][i].address # 0
    BY <2>2 DEF OnPage
  <2> HIDE DEF on, i
  <2>4. s[k][i] \in Slab /\ SlabGood(k, s[k][i])
    BY <2>3 DEF Good
  <2>5. s[k][i].address \in Pages /\ s[k][i].address \notin left /\ left \subseteq Pages
    BY <2>3, <2>4 DEF Good, Slab
  <2>6. bit \in Bits(k)
    BY BlockSizes
  <2>7. /\ set \in Slab /\ SlabGood(k, set) /\ set.address = s[k][i].address
        /\ AllBack(k, set) => /\ WithoutPage(set) \in Slab
                              /\ SlabGood(k, WithoutPage(set))
                              /\ WithoutPage(set).address = 0
    BY <1>2, <2>3, <2>4, <2>6, Returns
  <2>8. \/ o = FreeOutcome([s EXCEPT ![k][i] = set], left, TRUE)
        \/ /\ AllBack(k, set)
           /\ o = FreeOutcome([s EXCEPT ![k][i] = WithoutPage(set)],
                              left \cup {s[k][i].address}, TRUE)
    BY <2>1 DEF FreeFrom
  <2> HIDE DEF set, bit
  <2>9. CASE o = FreeOutcome([s EXCEPT ![k][i] = set], left, TRUE)
    <3>1. o.slabs = [s EXCEPT ![k][i] = set] /\ o.supply = left
      BY <2>9 DEF FreeOutcome
    <3>2. Good([s EXCEPT ![k][i] = set], left)
      BY <2>3, <2>5, <2>7, Update
    <3> QED BY <3>1, <3>2
  <2>10. CASE /\ AllBack(k, set)
              /\ o = FreeOutcome([s EXCEPT ![k][i] = WithoutPage(set)],
                                 left \cup {s[k][i].address}, TRUE)
    <3> DEFINE bare == WithoutPage(set)
    <3>1. o.slabs = [s EXCEPT ![k][i] = bare] /\ o.supply = left \cup {s[k][i].address}
      BY <2>10 DEF FreeOutcome
    <3>2. bare \in Slab /\ SlabGood(k, bare) /\ bare.address = 0
      BY <2>7, <2>10
    <3>3. left \cup {s[k][i].address} \in SUBSET Pages /\ 0 \notin left \cup {s[k][i].address}
      BY <2>5, PagesPositive
    <3> HIDE DEF bare
    <3>4. Good([s EXCEPT ![k][i] = bare], left \cup {s[k][i].address})
      BY <2>3, <3>2, <3>3, Update
    <3> QED BY <3>1, <3>4
  <2> QED BY <2>8, <2>9, <2>10
<1> QED BY <1>1, <1>2

\* And so does anybody else who takes pages.
LEMMA FewerLeft ==
  ASSUME NEW s, NEW left, Good(s, left), NEW left2 \in SUBSET left
  PROVE  Good(s, left2)
BY DEF Good

-----------------------------------------------------------------------------
\* The books are right after initSlabAlloc,
LEMMA InitGood == SInit => Good(slabs, supply)
<1> SUFFICES ASSUME SInit PROVE Good(slabs, supply)
  OBVIOUS
<1>1. ASSUME NEW k \in Kinds
      PROVE  /\ NewSlabs(k) \in Seq(Slab)
             /\ \A i \in DOMAIN NewSlabs(k) :
                  NewSlabs(k)[i].address = 0 /\ SlabGood(k, NewSlabs(k)[i])
  <2> DEFINE new == [address |-> 0, avail |-> Blocks(k), availmap |-> Bits(k)]
  <2>1. new \in Slab /\ SlabGood(k, new) /\ new.address = 0
    BY BlockSizes DEF Slab, SlabGood
  <2>2. NewSlabs(k) = [i \in 1 .. SlabsPerPage[k] |-> new] /\ SlabsPerPage[k] \in Nat
    BY SlabAssumption DEF NewSlabs
  <2> HIDE DEF new
  <2> QED BY <2>1, <2>2
<1>2. slabs = [k \in Kinds |-> NewSlabs(k)] /\ supply \subseteq Pages
  BY DEF SInit
<1> QED BY <1>1, <1>2 DEF Good

\* stay right,
LEMMA NextGood == Good(slabs, supply) /\ [SNext]_<<slabs, supply>> => Good(slabs, supply)'
<1> SUFFICES ASSUME Good(slabs, supply), [SNext]_<<slabs, supply>>
             PROVE  Good(slabs', supply')
  BY DEF Good
<1>1. ASSUME NEW k \in Kinds, SAlloc(k)
      PROVE  Good(slabs', supply')
  <2>1. PICK o \in AllocOutcomes(slabs, supply, k) : slabs' = o.slabs /\ supply' \subseteq o.supply
    BY <1>1 DEF SAlloc
  <2> QED BY <2>1, Allocates, FewerLeft
<1>2. ASSUME NEW k \in Kinds, NEW a \in BlockAddresses, SFree(k, a)
      PROVE  Good(slabs', supply')
  <2>1. a \in Nat
    BY PagesPositive, SlabAssumption DEF BlockAddresses
  <2>2. PICK o \in FreeOutcomes(slabs, supply, k, a) :
          slabs' = o.slabs /\ supply' \subseteq o.supply
    BY <1>2 DEF SFree
  <2> QED BY <2>1, <2>2, Frees, FewerLeft
<1>3. CASE UNCHANGED <<slabs, supply>>
  BY <1>3
<1> QED BY <1>1, <1>2, <1>3 DEF SNext

\* say what is promised,
LEMMA GoodImplies == Good(slabs, supply) => SlabsOK /\ PagesOnce
<1> SUFFICES ASSUME Good(slabs, supply) PROVE SlabsOK /\ PagesOnce
  OBVIOUS
<1>1. \A x \in Places : x[1] \in Kinds /\ x[2] \in DOMAIN slabs[x[1]] /\ x = <<x[1], x[2]>>
  BY DEF Places
<1>2. SlabsOK
  BY <1>1 DEF Good, SlabsOK, SlabGood, SlabAt, Slab
<1>3. PagesOnce
  BY <1>1 DEF Good, PagesOnce, SlabAt
<1> QED BY <1>2, <1>3

\* and so it is always.
LEMMA AlwaysGood == SSpec => []Good(slabs, supply)
BY InitGood, NextGood, PTL DEF SSpec

\* The bits of a slab and their number agree, and a slab that gave its page back has
\* all its blocks to give when it gets another, whatever kfree is asked to free.
THEOREM SlabsAlwaysOK == SSpec => []SlabsOK
BY AlwaysGood, GoodImplies, PTL

\* No page is cut into blocks twice, or is left to be given while blocks of it
\* may be held.
THEOREM PagesAlwaysOnce == SSpec => []PagesOnce
BY AlwaysGood, GoodImplies, PTL

-----------------------------------------------------------------------------
(* Blocks and their pages.                                                 *)

\* A number without rest.
LEMMA Divides ==
  ASSUME NEW n \in Nat, NEW u \in Nat, u > 0, n % u = 0
  PROVE  n \div u \in Nat /\ n = u * (n \div u)
OBVIOUS

\* A block ends in its page.
LEMMA SmallerProduct ==
  ASSUME NEW u \in Nat, NEW m \in Nat, NEW b \in Nat, b + 1 <= m, u > 0
  PROVE  u * b \in Nat /\ u * b < u * m
BY Z3

\* An address in a page has the page's address without its last bits.
LEMMA BlockPage ==
  ASSUME NEW n \in Nat, n > 0, NEW p \in Nat, p % n = 0, NEW x \in Nat, x < n
  PROVE  ((p + x) \div n) * n = p
<1>1. PICK q \in Nat : p = n * q
  BY Divides
<1>2. (p + x) \div n = q
  BY <1>1, Z3
<1> QED BY <1>1, <1>2, Z3

\* An address is its page and a place in it.
LEMMA PageParts ==
  ASSUME NEW n \in Nat, n > 0, NEW a \in Nat
  PROVE  \E i \in 0 .. n - 1 : a = (a \div n) * n + i
<1>1. a \div n \in Nat /\ a % n \in 0 .. n - 1 /\ a = n * (a \div n) + (a % n)
  OBVIOUS
<1>2. PICK q \in Nat, i \in 0 .. n - 1 : q = a \div n /\ a = n * q + i
  BY <1>1
<1>3. a = q * n + i
  BY <1>2
<1> QED BY <1>2, <1>3

\* A block of a page is an address of that page that the heap may give out.
LEMMA BlockAt ==
  ASSUME NEW k \in Kinds, NEW p \in Pages, NEW b \in Bits(k)
  PROVE  /\ p + Unit[k] * b \in Addresses /\ p + Unit[k] * b # 0
         /\ PageOf(p + Unit[k] * b) = p
<1>1. PICK n \in Nat : n = PageSize
  BY SlabAssumption
<1>2. PICK u \in Nat : u = Unit[k]
  BY SlabAssumption
<1>3. u > 0 /\ u <= n /\ n % u = 0
  BY <1>1, <1>2, SlabAssumption
<1>4. PICK m \in Nat : m = Blocks(k)
  BY BlockSizes
<1>5. n = u * m
  BY <1>1, <1>2, <1>3, <1>4, Divides DEF Blocks
<1>6. b \in Nat /\ b + 1 <= m
  BY <1>4 DEF Bits
<1>7. PICK x \in Nat : x = u * b /\ x < n
  BY <1>3, <1>5, <1>6, SmallerProduct
<1>8. p \in Nat /\ p > 0 /\ p % n = 0 /\ n > 0
  BY <1>1, <1>3, SlabAssumption
<1>9. ((p + x) \div n) * n = p
  BY <1>7, <1>8, BlockPage
<1>10. PICK a : a = p + Unit[k] * b
  OBVIOUS
<1>11. a = p + x
  BY <1>2, <1>7, <1>10
<1>12. a \in Addresses
  BY <1>10, HeapAssumption
<1>13. PageOf(a) = p
  BY <1>1, <1>9, <1>11 DEF PageOf
<1>14. a # 0
  BY <1>7, <1>8, <1>11
<1> QED BY <1>10, <1>12, <1>13, <1>14

\* An address of a page is one the allocators may be asked to free.
LEMMA OfPage ==
  ASSUME NEW a \in Nat, PageOf(a) \in Pages, NEW k \in Kinds
  PROVE  a \in BlockAddresses
<1>1. PICK n \in Nat : n = PageSize
  BY SlabAssumption
<1>2. n > 0
  BY <1>1, SlabAssumption
<1>3. PICK i \in 0 .. n - 1 : a = (a \div n) * n + i
  BY <1>2, PageParts
<1>4. a = PageOf(a) + i
  BY <1>1, <1>3 DEF PageOf
<1> QED BY <1>1, <1>4 DEF BlockAddresses

-----------------------------------------------------------------------------
(* The accounts: each address that is tracked is of a slab's page, and as *)
(* many are of a page as its slab has blocks that are not available.       *)

OnThe(T, p) == {a \in T : PageOf(a) = p}
Accounts(s, T) ==
  /\ \A k \in Kinds : \A i \in DOMAIN s[k] : s[k][i].address # 0 =>
       Cardinality(OnThe(T, s[k][i].address)) = Blocks(k) - s[k][i].avail
  /\ \A a \in T : \E k \in Kinds : \E i \in DOMAIN s[k] :
       s[k][i].address # 0 /\ s[k][i].address = PageOf(a)
SlabPages(s) == {p \in Pages : \E k \in Kinds : \E i \in DOMAIN s[k] : s[k][i].address = p}

\* One slab changes, and the addresses of its page.
Moves(s, k, i, b, T, U, p) ==
  /\ p # 0 /\ b.address \in {0, p} /\ s[k][i].address \in {0, p}
  /\ \A l \in Kinds : \A j \in DOMAIN s[l] : s[l][j].address = p => l = k /\ j = i
  /\ \A x \in U \ T : PageOf(x) = p
  /\ \A x \in T \ U : PageOf(x) = p
  /\ Cardinality(OnThe(U, p)) = Blocks(k) - b.avail
  /\ b.address = 0 => OnThe(U, p) = {}

\* The accounts after it.
LEMMA AccountsMove ==
  ASSUME NEW s \in [Kinds -> Seq(Slab)], NEW k \in Kinds, NEW i \in DOMAIN s[k], NEW b,
         NEW T, NEW U, Accounts(s, T), NEW p, Moves(s, k, i, b, T, U, p)
  PROVE  Accounts([s EXCEPT ![k][i] = b], U)
<1>0. /\ p # 0 /\ b.address \in {0, p} /\ s[k][i].address \in {0, p}
      /\ \A l \in Kinds : \A j \in DOMAIN s[l] : s[l][j].address = p => l = k /\ j = i
      /\ \A x \in U \ T : PageOf(x) = p
      /\ \A x \in T \ U : PageOf(x) = p
      /\ Cardinality(OnThe(U, p)) = Blocks(k) - b.avail
      /\ b.address = 0 => OnThe(U, p) = {}
  BY DEF Moves
<1> DEFINE t == [s EXCEPT ![k][i] = b]
<1>1. \A l \in Kinds : DOMAIN t[l] = DOMAIN s[l]
  OBVIOUS
<1>2. \A l \in Kinds : \A j \in DOMAIN s[l] : t[l][j] = IF l = k /\ j = i THEN b ELSE s[l][j]
  OBVIOUS
<1> HIDE DEF t
<1>3. ASSUME NEW l \in Kinds, NEW j \in DOMAIN t[l], t[l][j].address # 0
      PROVE  Cardinality(OnThe(U, t[l][j].address)) = Blocks(l) - t[l][j].avail
  <2>1. j \in DOMAIN s[l]
    BY <1>1
  <2>2. CASE l = k /\ j = i
    <3>1. t[l][j] = b
      BY <1>2, <2>1, <2>2
    <3>2. b.address = p
      BY <1>0, <1>3, <3>1
    <3> QED BY <1>0, <2>2, <3>1, <3>2
  <2>3. CASE ~(l = k /\ j = i)
    <3>1. t[l][j] = s[l][j] /\ s[l][j].address # p /\ s[l][j].address # 0
      BY <1>0, <1>2, <1>3, <2>1, <2>3
    <3>2. OnThe(U, s[l][j].address) = OnThe(T, s[l][j].address)
      BY <1>0, <3>1 DEF OnThe
    <3>3. Cardinality(OnThe(T, s[l][j].address)) = Blocks(l) - s[l][j].avail
      BY <2>1, <3>1 DEF Accounts
    <3> QED BY <3>1, <3>2, <3>3
  <2> QED BY <2>2, <2>3
<1>4. ASSUME NEW a \in U
      PROVE  \E l \in Kinds : \E j \in DOMAIN t[l] : t[l][j].address # 0 /\ t[l][j].address = PageOf(a)
  <2>1. CASE PageOf(a) = p
    <3>1. b.address = p
      BY <1>0, <2>1 DEF OnThe
    <3>2. i \in DOMAIN t[k] /\ t[k][i] = b
      BY <1>1, <1>2
    <3> QED BY <1>0, <2>1, <3>1, <3>2
  <2>2. CASE PageOf(a) # p
    <3>1. a \in T
      BY <1>0, <2>2
    <3>2. PICK l \in Kinds : \E j \in DOMAIN s[l] : s[l][j].address # 0 /\ s[l][j].address = PageOf(a)
      BY <3>1 DEF Accounts
    <3>j. PICK j \in DOMAIN s[l] : s[l][j].address # 0 /\ s[l][j].address = PageOf(a)
      BY <3>2
    <3>3. ~(l = k /\ j = i)
      BY <1>0, <2>2, <3>j
    <3>4. j \in DOMAIN t[l] /\ t[l][j] = s[l][j]
      BY <1>1, <1>2, <3>3
    <3> QED BY <3>j, <3>4
  <2> QED BY <2>1, <2>2
<1> QED BY <1>3, <1>4 DEF Accounts, t

\* No page but that of the slab that changes is new.
LEMMA SlabPagesOne ==
  ASSUME NEW s \in [Kinds -> Seq(Slab)], NEW k \in Kinds, NEW i \in DOMAIN s[k], NEW b
  PROVE  SlabPages([s EXCEPT ![k][i] = b]) \subseteq SlabPages(s) \cup {b.address}
<1> DEFINE t == [s EXCEPT ![k][i] = b]
<1>1. \A l \in Kinds : DOMAIN t[l] = DOMAIN s[l]
  OBVIOUS
<1>2. \A l \in Kinds : \A j \in DOMAIN s[l] : t[l][j] = IF l = k /\ j = i THEN b ELSE s[l][j]
  OBVIOUS
<1> HIDE DEF t
<1>3. SlabPages(t) \subseteq SlabPages(s) \cup {b.address}
  BY <1>1, <1>2 DEF SlabPages
<1> QED BY <1>3 DEF t

\* The pages of slabs are not left to be given.
LEMMA PagesApart ==
  ASSUME NEW s, NEW left, Good(s, left)
  PROVE  /\ s \in [Kinds -> Seq(Slab)] /\ left \in SUBSET Pages
         /\ SlabPages(s) \in SUBSET Pages /\ SlabPages(s) \cap left = {}
<1>1. SlabPages(s) \cap left = {}
  BY PagesPositive DEF Good, SlabPages
<1> QED BY <1>1 DEF Good, SlabPages

\* What an allocation does to the accounts of the addresses T.
Served(s, left, T, o) ==
  /\ o.supply \subseteq left /\ SlabPages(o.slabs) \subseteq SlabPages(s) \cup (left \ o.supply)
  /\ \/ o.ptr = 0 /\ Accounts(o.slabs, T)
     \/ o.ptr \in Addresses /\ o.ptr # 0 /\ (o.ptr \notin T => Accounts(o.slabs, T \cup {o.ptr}))

\* A slab that serves keeps the accounts, if the block is then tracked.
LEMMA ServeAccounts ==
  ASSUME NEW s, NEW left, Good(s, left), NEW k \in Kinds, NEW i \in DOMAIN s[k],
         s[k][i].availmap # {}, NEW T, IsFiniteSet(T), Accounts(s, T),
         NEW o \in ServeFrom(s, left, k, i)
  PROVE  Served(s, left, T, o)
<1>0. PICK old : old = s[k][i]
  OBVIOUS
<1>1. old \in Slab /\ SlabGood(k, old) /\ s \in [Kinds -> Seq(Slab)]
  BY <1>0 DEF Good
<1>2. PICK bit : bit = Smallest(old.availmap)
  OBVIOUS
<1>3. bit \in old.availmap /\ bit \in Bits(k)
  BY <1>0, <1>1, <1>2, SmallestIsIn, BlockSizes DEF SlabGood
<1>4. ASSUME NEW p \in Pages, NEW z \in SUBSET left, o = Serve(s, z, k, i, p),
             old.address \in {0, p}, p \in SlabPages(s) \cup (left \ z),
             \A l \in Kinds : \A j \in DOMAIN s[l] : s[l][j].address = p => l = k /\ j = i,
             old.address = 0 => OnThe(T, p) = {} /\ old.avail = Blocks(k)
      PROVE  Served(s, left, T, o)
  <2>1. PICK b : b = [address |-> p, avail |-> old.avail - 1, availmap |-> old.availmap \ {bit}]
    OBVIOUS
  <2>2. PICK a : a = p + Unit[k] * bit
    OBVIOUS
  <2>3. o.slabs = [s EXCEPT ![k][i] = b] /\ o.supply = z /\ o.ptr = a
    BY <1>0, <1>2, <1>4, <2>1, <2>2 DEF Serve, Outcome
  <2>4. a \in Addresses /\ a # 0 /\ PageOf(a) = p
    BY <1>3, <2>2, BlockAt
  <2>5. p # 0 /\ b.address = p /\ b.avail = old.avail - 1
    BY <2>1, PagesPositive
  <2>6. SlabPages(o.slabs) \subseteq SlabPages(s) \cup (left \ z)
    <3>1. s \in [Kinds -> Seq(Slab)]
      BY <1>1
    <3>2. SlabPages([s EXCEPT ![k][i] = b]) \subseteq SlabPages(s) \cup {b.address}
      BY ONLY <3>1, k \in Kinds, i \in DOMAIN s[k], SlabPagesOne
    <3> QED BY <1>4, <2>3, <2>5, <3>2
  <2>7. ASSUME a \notin T PROVE Accounts(o.slabs, T \cup {a})
    <3>1. PICK U : U = T \cup {a}
      OBVIOUS
    <3>2. OnThe(U, p) = OnThe(T, p) \cup {a} /\ a \notin OnThe(T, p) /\ OnThe(T, p) \in SUBSET T
      BY <2>4, <2>7, <3>1 DEF OnThe
    <3>3. Cardinality(OnThe(U, p)) = Cardinality(OnThe(T, p)) + 1
      BY <3>2, FS_Subset, FS_AddElement
    <3>4. Cardinality(OnThe(T, p)) = Blocks(k) - old.avail
      <4>1. CASE old.address = 0
        <5>1. Cardinality(OnThe(T, p)) = 0
          BY <1>4, <4>1, FS_EmptySet
        <5> QED BY <1>4, <4>1, <5>1, BlockSizes
      <4>2. CASE old.address = p
        BY <1>0, <2>5, <4>2 DEF Accounts
      <4> QED BY <1>4, <4>1, <4>2
    <3>5. Blocks(k) \in Nat /\ old.avail \in Nat
      BY <1>1, BlockSizes DEF Slab
    <3>6. Cardinality(OnThe(U, p)) = Blocks(k) - b.avail
      BY <2>5, <3>3, <3>4, <3>5
    <3>7. (\A x \in U \ T : PageOf(x) = p) /\ (\A x \in T \ U : PageOf(x) = p)
      BY <2>4, <3>1
    <3>8. b.address \in {0, p} /\ (b.address = 0 => OnThe(U, p) = {})
      BY <2>5
    <3>9. Accounts([s EXCEPT ![k][i] = b], U)
      <4>1. s \in [Kinds -> Seq(Slab)] /\ s[k][i].address \in {0, p} /\ p # 0
        BY <1>0, <1>1, <1>4, <2>5
      <4>2. \A l \in Kinds : \A j \in DOMAIN s[l] : s[l][j].address = p => l = k /\ j = i
        BY <1>4
      <4>3. Moves(s, k, i, b, T, U, p)
        BY <3>6, <3>7, <3>8, <4>1, <4>2 DEF Moves
      <4>4. s \in [Kinds -> Seq(Slab)]
        BY <1>1
      <4> QED
        BY ONLY <4>3, <4>4, k \in Kinds, i \in DOMAIN s[k], Accounts(s, T), AccountsMove
    <3> QED BY <2>3, <3>1, <3>9
  <2> QED BY <2>3, <2>4, <2>6, <2>7 DEF Served
<1>5. CASE old.address # 0
  <2>1. PICK p \in Pages : p = old.address
    BY <1>1, <1>5 DEF Slab
  <2>2. o = Serve(s, left, k, i, p) /\ left \in SUBSET left
    BY <1>0, <1>5, <2>1 DEF ServeFrom
  <2>3. p \in SlabPages(s)
    BY <1>0, <2>1 DEF SlabPages
  <2>4. \A l \in Kinds : \A j \in DOMAIN s[l] : s[l][j].address = p => l = k /\ j = i
    BY <1>0, <1>5, <2>1 DEF Good
  <2> QED BY <1>4, <1>5, <2>1, <2>2, <2>3, <2>4
<1>6. CASE old.address = 0 /\ left = {}
  <2>1. o = Outcome(s, left, 0)
    BY <1>0, <1>6 DEF ServeFrom
  <2> QED BY <2>1 DEF Outcome, Served
<1>7. CASE old.address = 0 /\ left # {}
  <2>1. PICK p \in left : o = Serve(s, left \ {p}, k, i, p)
    BY <1>0, <1>7 DEF ServeFrom
  <2>2. p \in Pages /\ p # 0
    BY PagesPositive DEF Good
  <2>3. \A l \in Kinds : \A j \in DOMAIN s[l] : s[l][j].address # p
    BY <2>2 DEF Good
  <2>4. OnThe(T, p) = {}
    BY <2>3 DEF OnThe, Accounts
  <2>5. old.avail = Blocks(k)
    BY <1>1, <1>7, BlockSizes DEF SlabGood
  <2>6. PICK z \in SUBSET left : z = left \ {p}
    OBVIOUS
  <2>7. p \in left \ z
    BY <2>6
  <2> QED BY <1>4, <1>7, <2>1, <2>2, <2>3, <2>4, <2>5, <2>6, <2>7
<1> QED BY <1>5, <1>6, <1>7

\* A page of new slabs has no page of blocks.
LEMMA ChainsAccounts ==
  ASSUME NEW s, NEW left, Good(s, left), NEW k \in Kinds, NEW T, Accounts(s, T)
  PROVE  /\ Accounts([s EXCEPT ![k] = @ \o NewSlabs(k)], T)
         /\ SlabPages([s EXCEPT ![k] = @ \o NewSlabs(k)]) \subseteq SlabPages(s)
<1> DEFINE t == [s EXCEPT ![k] = @ \o NewSlabs(k)]
<1>1. s \in [Kinds -> Seq(Slab)] /\ s[k] \in Seq(Slab)
  BY DEF Good
<1>2. PICK new : new = [address |-> 0, avail |-> Blocks(k), availmap |-> Bits(k)]
  OBVIOUS
<1>3. PICK m \in Nat : m = SlabsPerPage[k]
  BY SlabAssumption
<1>4. PICK q : q = NewSlabs(k)
  OBVIOUS
<1>5. new \in Slab /\ new.address = 0
  BY <1>2, BlockSizes DEF Slab
<1>6. q \in Seq(Slab) /\ Len(q) = m /\ \A i \in 1 .. m : q[i] = new
  BY <1>2, <1>3, <1>4, <1>5 DEF NewSlabs
<1>7. \A l \in Kinds : t[l] = IF l = k THEN s[k] \o q ELSE s[l]
  BY <1>1, <1>4
<1> HIDE DEF t
<1>8. PICK e \in Nat : e = Len(s[k]) /\ DOMAIN s[k] = 1 .. e
  BY <1>1
<1>9. /\ DOMAIN t[k] = 1 .. e + m
      /\ \A i \in 1 .. e + m : t[k][i] = IF i <= e THEN s[k][i] ELSE q[i - e]
  <2>1. PICK u \in Seq(Slab) : u = s[k]
    BY <1>1
  <2>2. /\ u \o q \in Seq(Slab) /\ Len(u \o q) = Len(u) + Len(q)
        /\ \A i \in 1 .. Len(u) + Len(q) : (u \o q)[i] = IF i <= Len(u) THEN u[i] ELSE q[i - Len(u)]
    <3>1. q \in Seq(Slab)
      BY <1>6
    <3> QED BY ONLY <3>1, u \in Seq(Slab), ConcatProperties
  <2>3. t[k] = u \o q
    BY <1>7, <2>1
  <2> QED BY <1>6, <1>8, <2>1, <2>2, <2>3
<1>10. \A l \in Kinds : \A i \in DOMAIN s[l] : i \in DOMAIN t[l] /\ t[l][i] = s[l][i]
  <2>1. \A i \in 1 .. e : i \in 1 .. e + m /\ i <= e
    BY <1>3
  <2> QED BY <1>7, <1>8, <1>9, <2>1
<1>11. \A l \in Kinds : \A i \in DOMAIN t[l] : t[l][i].address # 0 => i \in DOMAIN s[l] /\ t[l][i] = s[l][i]
  <2>1. ASSUME NEW i \in 1 .. e + m, ~(i <= e) PROVE t[k][i].address = 0
    <3>1. i - e \in 1 .. m
      BY <2>1
    <3> QED BY <1>5, <1>6, <1>9, <2>1, <3>1
  <2>2. \A i \in 1 .. e + m : i <= e => i \in 1 .. e
    OBVIOUS
  <2> QED BY <1>7, <1>8, <1>9, <2>1, <2>2
<1>12. Accounts(t, T)
  BY <1>10, <1>11 DEF Accounts
<1>13. SlabPages(t) \subseteq SlabPages(s)
  BY <1>11, PagesPositive DEF SlabPages
<1> QED BY <1>12, <1>13 DEF t

\* So does an allocation.
LEMMA AllocAccounts ==
  ASSUME NEW s, NEW left, Good(s, left), NEW k \in Kinds, NEW T, IsFiniteSet(T), Accounts(s, T),
         NEW o \in AllocOutcomes(s, left, k)
  PROVE  Served(s, left, T, o)
<1> DEFINE some == {i \in DOMAIN s[k] : s[k][i].avail > 0 /\ s[k][i].availmap # {}}
           more == [s EXCEPT ![k] = @ \o NewSlabs(k)]
<1>1. s[k] \in Seq(Slab) /\ some \in SUBSET Nat
  BY DEF Good
<1>2. CASE some # {}
  <2>1. Smallest(some) \in some
    BY <1>1, <1>2, SmallestIsIn
  <2>2. o \in ServeFrom(s, left, k, Smallest(some))
    BY <1>2 DEF AllocOutcomes
  <2> QED BY <2>1, <2>2, ServeAccounts
<1>3. CASE some = {} /\ left = {}
  <2>1. o = Outcome(s, left, 0)
    BY <1>3 DEF AllocOutcomes
  <2> QED BY <2>1 DEF Outcome, Served
<1>4. CASE some = {} /\ left # {}
  <2>1. PICK p \in left : o \in ServeFrom(more, left \ {p}, k, Len(s[k]) + 1)
    BY <1>4 DEF AllocOutcomes
  <2>2. /\ Good(more, left \ {p})
        /\ Len(s[k]) + 1 \in DOMAIN more[k]
        /\ more[k][Len(s[k]) + 1].availmap # {}
    BY Chains
  <2>3. Accounts(more, T) /\ SlabPages(more) \subseteq SlabPages(s)
    BY ChainsAccounts
  <2> HIDE DEF more
  <2>4. Served(more, left \ {p}, T, o)
    BY <2>1, <2>2, <2>3, ServeAccounts
  <2> QED BY <2>3, <2>4 DEF Served
<1> QED BY <1>2, <1>3, <1>4

\* What freeing address a does to the accounts: nothing, or a is gone.
Released(s, left, T, a, o) ==
  \/ ~ o.ok /\ o.slabs = s /\ o.supply = left
  \/ /\ o.ok /\ Accounts(o.slabs, T \ {a})
     /\ SlabPages(o.slabs) \cup o.supply \subseteq SlabPages(s) \cup left

\* A block goes back to slab i, which is now b, whose page may be given back.
LEMMA BackAccounts ==
  ASSUME NEW s, NEW left, Good(s, left), NEW k \in Kinds, NEW i \in DOMAIN s[k],
         NEW T, IsFiniteSet(T), Accounts(s, T), NEW a \in T,
         s[k][i].address # 0, s[k][i].address = PageOf(a),
         NEW b, b.avail = s[k][i].avail + 1,
         \/ b.address = s[k][i].address
         \/ b.address = 0 /\ b.avail = Blocks(k)
  PROVE  Accounts([s EXCEPT ![k][i] = b], T \ {a})
<1>0. PICK old : old = s[k][i]
  OBVIOUS
<1>1. old \in Slab /\ s \in [Kinds -> Seq(Slab)]
  BY <1>0 DEF Good
<1>2. PICK p \in Pages : p = old.address /\ p # 0 /\ p = PageOf(a)
  BY <1>0, <1>1 DEF Slab
<1>3. PICK U : U = T \ {a}
  OBVIOUS
<1>4. a \in OnThe(T, p) /\ OnThe(U, p) = OnThe(T, p) \ {a} /\ OnThe(T, p) \in SUBSET T
  BY <1>2, <1>3 DEF OnThe
<1>5. /\ IsFiniteSet(OnThe(T, p)) /\ IsFiniteSet(OnThe(U, p))
      /\ Cardinality(OnThe(U, p)) = Cardinality(OnThe(T, p)) - 1
      /\ Cardinality(OnThe(T, p)) \in Nat
  BY <1>4, FS_Subset, FS_RemoveElement, FS_CardinalityType
<1>6. Cardinality(OnThe(T, p)) = Blocks(k) - old.avail
  BY <1>0, <1>2 DEF Accounts
<1>7. Blocks(k) \in Nat /\ old.avail \in Nat
  BY <1>1, BlockSizes DEF Slab
<1>8. Cardinality(OnThe(U, p)) = Blocks(k) - b.avail
  BY <1>0, <1>5, <1>6, <1>7
<1>9. b.address = 0 => OnThe(U, p) = {}
  <2>1. SUFFICES ASSUME b.address = 0 PROVE OnThe(U, p) = {}
    OBVIOUS
  <2>2. Cardinality(OnThe(U, p)) = 0
    BY <1>0, <1>2, <1>7, <1>8, <2>1
  <2> QED BY <1>5, <2>2, FS_EmptySet
<1>10. \A l \in Kinds : \A j \in DOMAIN s[l] : s[l][j].address = p => l = k /\ j = i
  BY <1>0, <1>2 DEF Good
<1>11. (\A x \in U \ T : PageOf(x) = p) /\ (\A x \in T \ U : PageOf(x) = p)
  BY <1>2, <1>3
<1>12. b.address \in {0, p} /\ s[k][i].address \in {0, p}
  BY <1>0, <1>2
<1>13. Moves(s, k, i, b, T, U, p)
  BY <1>2, <1>8, <1>9, <1>10, <1>11, <1>12 DEF Moves
<1>14. s \in [Kinds -> Seq(Slab)]
  BY <1>1
<1>15. Accounts([s EXCEPT ![k][i] = b], U)
  BY ONLY <1>13, <1>14, k \in Kinds, i \in DOMAIN s[k], Accounts(s, T), AccountsMove
<1> QED BY <1>3, <1>15

\* So does a free, if the address is then no longer tracked.
LEMMA FreeAccounts ==
  ASSUME NEW s, NEW left, Good(s, left), NEW k \in Kinds,
         NEW T, IsFiniteSet(T), Accounts(s, T), NEW a \in T,
         NEW o \in FreeOutcomes(s, left, k, a)
  PROVE  Released(s, left, T, a, o)
<1> DEFINE on == OnPage(s, k, a)
           bit == BitOf(k, a)
<1>1. PICK i : i = Smallest(on)
  OBVIOUS
<1>2. CASE on = {} \/ bit \in s[k][i].availmap
  <2>1. o = FreeOutcome(s, left, FALSE)
    BY <1>1, <1>2 DEF FreeOutcomes
  <2> QED BY <2>1 DEF FreeOutcome, Released
<1>3. CASE on # {} /\ bit \notin s[k][i].availmap
  <2>1. o \in FreeFrom(s, left, k, i, bit)
    BY <1>1, <1>3 DEF FreeOutcomes
  <2>2. i \in on
    <3>1. on \in SUBSET Nat
      BY DEF Good, OnPage
    <3> QED BY <3>1, <1>1, <1>3, SmallestIsIn
  <2>3. i \in DOMAIN s[k] /\ s[k][i].address # 0 /\ s[k][i].address = PageOf(a)
    BY <2>2 DEF OnPage
  <2>4. PICK set : set = Returned(s[k][i], bit)
    OBVIOUS
  <2>5. set.address = s[k][i].address /\ set.avail = s[k][i].avail + 1
    BY <2>4 DEF Returned
  <2>6. PICK bare : bare = WithoutPage(set)
    OBVIOUS
  <2>7. bare.address = 0 /\ bare.avail = set.avail
    <3>1. set = [address |-> s[k][i].address, avail |-> s[k][i].avail + 1,
                 availmap |-> s[k][i].availmap \cup {bit}]
      BY <2>4 DEF Returned
    <3> QED BY <2>6, <3>1 DEF WithoutPage
  <2>8. \/ o = FreeOutcome([s EXCEPT ![k][i] = set], left, TRUE)
        \/ /\ set.avail = Blocks(k)
           /\ o = FreeOutcome([s EXCEPT ![k][i] = bare], left \cup {s[k][i].address}, TRUE)
    BY <2>1, <2>4, <2>6 DEF FreeFrom, AllBack
  <2>9. s \in [Kinds -> Seq(Slab)]
    BY DEF Good
  <2>10. s[k][i].address \in SlabPages(s)
    <3>1. s[k][i] \in Slab
      BY <2>3, <2>9
    <3>2. s[k][i].address \in Pages
      BY <2>3, <3>1 DEF Slab
    <3> QED BY <2>3, <3>2 DEF SlabPages
  <2>11. CASE o = FreeOutcome([s EXCEPT ![k][i] = set], left, TRUE)
    <3>1. o.slabs = [s EXCEPT ![k][i] = set] /\ o.supply = left /\ o.ok
      BY <2>11 DEF FreeOutcome
    <3>2. Accounts([s EXCEPT ![k][i] = set], T \ {a})
      <4>1. i \in DOMAIN s[k] /\ s[k][i].address # 0 /\ s[k][i].address = PageOf(a)
        BY <2>3
      <4>2. set.avail = s[k][i].avail + 1
        BY <2>5
      <4>3. \/ set.address = s[k][i].address
            \/ set.address = 0 /\ set.avail = Blocks(k)
        BY <2>5
      <4> QED
        BY ONLY <4>1, <4>2, <4>3, Good(s, left), k \in Kinds, IsFiniteSet(T), Accounts(s, T),
           a \in T, BackAccounts
    <3>3. SlabPages([s EXCEPT ![k][i] = set]) \subseteq SlabPages(s) \cup {set.address}
      BY ONLY <2>3, <2>9, k \in Kinds, SlabPagesOne
    <3> QED BY <2>5, <2>10, <3>1, <3>2, <3>3 DEF Released
  <2>12. CASE /\ set.avail = Blocks(k)
              /\ o = FreeOutcome([s EXCEPT ![k][i] = bare], left \cup {s[k][i].address}, TRUE)
    <3>1. o.slabs = [s EXCEPT ![k][i] = bare] /\ o.supply = left \cup {s[k][i].address} /\ o.ok
      BY <2>12 DEF FreeOutcome
    <3>2. Accounts([s EXCEPT ![k][i] = bare], T \ {a})
      BY <2>3, <2>5, <2>7, <2>12, BackAccounts
    <3>3. SlabPages([s EXCEPT ![k][i] = bare]) \subseteq SlabPages(s) \cup {bare.address}
      BY ONLY <2>3, <2>9, k \in Kinds, SlabPagesOne
    <3>4. 0 \notin SlabPages([s EXCEPT ![k][i] = bare])
      BY PagesPositive DEF SlabPages
    <3> QED BY <2>7, <2>10, <3>1, <3>2, <3>3, <3>4 DEF Released
  <2> QED BY <2>8, <2>11, <2>12
<1> QED BY <1>2, <1>3

\* The books avoid any fewer pages.
LEMMA FewerBooks ==
  ASSUME NEW K, NEW h, NEW z, Books(K, h, z), NEW less \in SUBSET z
  PROVE  Books(K, h, less)
<1>1. /\ h \in HTRecord(K) /\ z \in SUBSET Pages
      /\ Once(h.list) /\ Spare(h.list, NodesOf(h.root), z)
      /\ \A n \in NodesOf(h.root) : n[1] \notin z
      /\ h.size = Cardinality(NodesOf(h.root))
  BY DEF Books
<1>2. Spare(h.list, NodesOf(h.root), less)
  BY <1>1 DEF Spare
<1>3. less \in SUBSET Pages /\ \A n \in NodesOf(h.root) : n[1] \notin less
  BY <1>1
<1> QED BY <1>1, <1>2, <1>3 DEF Books

\* New slabs have no page, and no address is tracked yet.
LEMMA NoAccounts ==
  ASSUME NEW s, s = [k \in Kinds |-> NewSlabs(k)]
  PROVE  Accounts(s, {}) /\ SlabPages(s) = {}
<1>1. \A k \in Kinds : \A i \in DOMAIN s[k] : s[k][i].address = 0
  BY DEF NewSlabs
<1> QED BY <1>1, PagesPositive DEF Accounts, SlabPages

-----------------------------------------------------------------------------
(* The heap.                                                               *)

\* Tree and slabs agree: each address in the tree is a block of a slab's page that
\* is not available, no node lies on a page of blocks or a page that is left, and
\* what the callers hold, each his own, is in the tree.
Agree ==
  /\ Books(Kinds, ht, supply \cup SlabPages(slabs))
  /\ Accounts(slabs, Tracked(ht.root))
  /\ Held \subseteq Tracked(ht.root)
HeapOK ==
  /\ Good(slabs, supply) /\ held \in [Callers -> SUBSET Addresses]
  /\ \A c, d \in Callers : held[c] \cap held[d] # {} => c = d
  /\ status = "up" => Agree

\* A step of the heap is one of the allocators, and one of the callers with an owner.
Owned == [Ownership!Next]_held
Slabbed == [SNext]_<<slabs, supply>>

\* While the kernel runs, tracked addresses are finitely many, and of pages.
LEMMA AgreeFacts ==
  ASSUME HeapOK, status = "up"
  PROVE  /\ ht.root \in Sound(Kinds) /\ IsFiniteSet(Tracked(ht.root))
         /\ Tracked(ht.root) \subseteq Addresses
         /\ \A a \in Tracked(ht.root) : a \in Nat /\ PageOf(a) \in Pages
<1>1. ht.root \in Sound(Kinds)
  BY DEF HeapOK, Agree, Books, HTRecord
<1>2. IsFiniteSet(Tracked(ht.root)) /\ Tracked(ht.root) \subseteq Addresses
  BY <1>1, SoundTracks
<1>3. ASSUME NEW a \in Tracked(ht.root) PROVE a \in Nat /\ PageOf(a) \in Pages
  <2>1. Accounts(slabs, Tracked(ht.root)) /\ slabs \in [Kinds -> Seq(Slab)]
    BY DEF HeapOK, Agree, Good
  <2>2. PICK k \in Kinds : \E i \in DOMAIN slabs[k] :
          slabs[k][i].address # 0 /\ slabs[k][i].address = PageOf(a)
    BY <2>1 DEF Accounts
  <2>3. PICK i \in DOMAIN slabs[k] : slabs[k][i].address # 0 /\ slabs[k][i].address = PageOf(a)
    BY <2>2
  <2>4. slabs[k][i] \in Slab
    BY <2>1
  <2>5. a \in Nat
    BY <1>2, HeapTreeAssumption
  <2> QED BY <2>3, <2>4, <2>5 DEF Slab
<1> QED BY <1>1, <1>2, <1>3

\* What the slabs and the tree promise of a block that is held.
LEMMA AgreeKeeps == HeapOK => HeldKept
<1> SUFFICES ASSUME HeapOK, status = "up" PROVE HeldKept
  BY DEF HeldKept, HeldTracked, HeldPagesKept
<1>1. Held \subseteq Tracked(ht.root) /\ Accounts(slabs, Tracked(ht.root)) /\ Good(slabs, supply)
  BY DEF HeapOK, Agree
<1>2. ASSUME NEW a \in Held
      PROVE  (\E x \in Places : SlabAt(x).address = PageOf(a)) /\ PageOf(a) \notin supply
  <2>1. PICK k \in Kinds : \E i \in DOMAIN slabs[k] :
          slabs[k][i].address # 0 /\ slabs[k][i].address = PageOf(a)
    BY <1>1 DEF Accounts
  <2>2. PICK i \in DOMAIN slabs[k] : slabs[k][i].address # 0 /\ slabs[k][i].address = PageOf(a)
    BY <2>1
  <2>3. <<k, i>> \in Places /\ SlabAt(<<k, i>>) = slabs[k][i]
    BY <2>2 DEF Places, SlabAt
  <2>4. PageOf(a) \notin supply
    BY <1>1, <2>2 DEF Good
  <2> QED BY <2>2, <2>3, <2>4
<1> QED BY <1>1, <1>2 DEF HeldKept, HeldTracked, HeldPagesKept

\* After initHeap the invariant holds,
LEMMA InitHeap == HeapInit => HeapOK /\ SInit /\ Ownership!Init
<1> SUFFICES ASSUME HeapInit PROVE HeapOK /\ SInit /\ Ownership!Init
  OBVIOUS
<1>1. PICK S \in SUBSET Pages, p \in Pages : p \in S /\ supply = Pages \ S /\ ht = Fresh(p)
  BY DEF HeapInit
<1>2. slabs = [k \in Kinds |-> NewSlabs(k)] /\ held = [c \in Callers |-> {}]
  BY DEF HeapInit
<1>3. SInit
  BY <1>1, <1>2 DEF SInit
<1>4. Good(slabs, supply)
  BY <1>3, InitGood
<1>5. Accounts(slabs, {}) /\ SlabPages(slabs) = {}
  BY <1>2, NoAccounts
<1>6. Books(Kinds, Fresh(p), supply) /\ Tracked(Fresh(p).root) = {}
  <2>1. supply \in SUBSET (Pages \ {p})
    BY <1>1
  <2> QED BY <2>1, FreshBooks
<1>7. Held = {} /\ held \in [Callers -> SUBSET Addresses]
      /\ \A c, d \in Callers : held[c] \cap held[d] # {} => c = d
  BY <1>2 DEF Held
<1>8. supply \cup SlabPages(slabs) = supply
  BY <1>5
<1>9. Agree
  BY <1>1, <1>5, <1>6, <1>7, <1>8 DEF Agree
<1>10. Ownership!Init
  BY <1>2 DEF Ownership!Init
<1> QED BY <1>3, <1>4, <1>7, <1>9, <1>10 DEF HeapOK

\* The callers: one gets an address that nobody has, or gives it up if he has it.
LEMMA CallerTakes ==
  ASSUME HeapOK, NEW c \in Callers, NEW a \in Addresses, a \notin Held,
         held' = [held EXCEPT ![c] = @ \cup {a}]
  PROVE  /\ held' \in [Callers -> SUBSET Addresses] /\ Held' = Held \cup {a}
         /\ \A b, d \in Callers : held'[b] \cap held'[d] # {} => b = d
         /\ Owned
<1>1. /\ held \in [Callers -> SUBSET Addresses]
      /\ \A b, d \in Callers : held[b] \cap held[d] # {} => b = d
      /\ \A d \in Callers : a \notin held[d]
  BY DEF HeapOK, Held
<1>2. held' \in [Callers -> SUBSET Addresses]
      /\ \A d \in Callers : held'[d] = IF d = c THEN held[d] \cup {a} ELSE held[d]
  BY <1>1
<1>3. Held' = Held \cup {a}
  BY <1>2 DEF Held
<1>4. \A b, d \in Callers : held'[b] \cap held'[d] # {} => b = d
  BY <1>1, <1>2
<1>5. Ownership!Take(c, {a})
  BY DEF Ownership!Take, Ownership!Held, Held
<1>6. Owned
  BY <1>5 DEF Owned, Ownership!Next
<1> QED BY <1>2, <1>3, <1>4, <1>6

\* The same when one gives his address back, or frees what nobody has.
LEMMA CallerGives ==
  ASSUME HeapOK, NEW c \in Callers, NEW a \in Addresses,
         a \in held[c] \/ \A d \in Callers : a \notin held[d],
         held' = [held EXCEPT ![c] = @ \ {a}]
  PROVE  /\ held' \in [Callers -> SUBSET Addresses] /\ Held' = Held \ {a}
         /\ \A b, d \in Callers : held'[b] \cap held'[d] # {} => b = d
         /\ Owned
<1>1. /\ held \in [Callers -> SUBSET Addresses]
      /\ \A b, d \in Callers : held[b] \cap held[d] # {} => b = d
  BY DEF HeapOK
<1>2. held' \in [Callers -> SUBSET Addresses]
      /\ \A d \in Callers : held'[d] = IF d = c THEN held[d] \ {a} ELSE held[d]
  BY <1>1
<1>3. \A d \in Callers : a \in held[d] => d = c
  BY <1>1
<1>4. Held' = Held \ {a}
  BY <1>2, <1>3 DEF Held
<1>5. \A b, d \in Callers : held'[b] \cap held'[d] # {} => b = d
  BY <1>1, <1>2
<1>6. PICK S \in SUBSET Addresses : S = {a} \cap held[c]
  OBVIOUS
<1>7. Ownership!Give(c, S)
  <2>1. held[c] \ S = held[c] \ {a}
    BY <1>6
  <2>2. [held EXCEPT ![c] = @ \ S] = [held EXCEPT ![c] = @ \ {a}]
    BY <2>1
  <2> QED BY <1>6, <2>2 DEF Ownership!Give
<1>8. Owned
  BY <1>7 DEF Owned, Ownership!Next
<1> QED BY <1>2, <1>4, <1>5, <1>8

\* The callers' part of the invariant, as it is after a step.
Shared ==
  /\ held \in [Callers -> SUBSET Addresses]
  /\ \A c, d \in Callers : held[c] \cap held[d] # {} => c = d

\* kmalloc keeps the invariant, and is a step of the allocators and of the
\* callers.
LEMMA KmallocKeeps ==
  ASSUME HeapOK, NEW c \in Callers, NEW size \in Sizes, Kmalloc(c, size)
  PROVE  HeapOK' /\ Slabbed /\ Owned
<1>1. PICK k \in KindsFor(size) : \E o \in AllocOutcomes(slabs, supply, k) :
       /\ slabs' = o.slabs
       /\ IF o.ptr = 0 THEN supply' = o.supply /\ UNCHANGED <<ht, status, held>>
          ELSE IF Duplicate(o.ptr)
          THEN supply' = o.supply /\ status' = "duplicate" /\ UNCHANGED <<ht, held>>
          ELSE /\ Apply(InsertOutcomes(ht, o.supply, o.ptr, k))
               /\ held' = IF status' = "up" THEN [held EXCEPT ![c] = @ \cup {o.ptr}] ELSE held
  BY DEF Kmalloc
<1>2. PICK o \in AllocOutcomes(slabs, supply, k) :
       /\ slabs' = o.slabs
       /\ IF o.ptr = 0 THEN supply' = o.supply /\ UNCHANGED <<ht, status, held>>
          ELSE IF Duplicate(o.ptr)
          THEN supply' = o.supply /\ status' = "duplicate" /\ UNCHANGED <<ht, held>>
          ELSE /\ Apply(InsertOutcomes(ht, o.supply, o.ptr, k))
               /\ held' = IF status' = "up" THEN [held EXCEPT ![c] = @ \cup {o.ptr}] ELSE held
  BY <1>1
<1>3. k \in Kinds /\ status = "up"
  BY DEF KindsFor, Kmalloc
<1>4. /\ Good(slabs, supply) /\ Shared /\ Books(Kinds, ht, supply \cup SlabPages(slabs))
      /\ Accounts(slabs, Tracked(ht.root)) /\ Held \subseteq Tracked(ht.root)
  BY <1>3 DEF HeapOK, Agree, Shared
<1>5. PICK T : T = Tracked(ht.root)
  OBVIOUS
<1>6. IsFiniteSet(T) /\ ht.root \in Sound(Kinds)
  BY <1>3, <1>5, AgreeFacts
<1>7. Good(o.slabs, o.supply)
  BY <1>3, <1>4, Allocates
<1>8. Served(slabs, supply, T, o)
  <2>1. Accounts(slabs, T)
    BY <1>4, <1>5
  <2> QED BY <1>3, <1>4, <1>6, <2>1, AllocAccounts
<1>9. PICK z : z = o.supply \cup SlabPages(o.slabs)
  OBVIOUS
<1>10. Books(Kinds, ht, z)
  <2>1. z \subseteq supply \cup SlabPages(slabs)
    BY <1>8, <1>9 DEF Served
  <2> QED BY <1>4, <2>1, FewerBooks
<1>11. CASE o.ptr = 0
  <2>1. supply' = o.supply /\ slabs' = o.slabs /\ UNCHANGED <<ht, status, held>>
    BY <1>2, <1>11
  <2>2. Accounts(o.slabs, T)
    BY <1>8, <1>11 DEF Served
  <2>3. Good(slabs', supply') /\ Shared' /\ Held' = Held
    BY <1>4, <1>7, <2>1 DEF Shared, Held
  <2>4. Agree'
    BY <1>4, <1>5, <1>9, <1>10, <2>1, <2>2, <2>3 DEF Agree
  <2>5. HeapOK'
    BY <2>3, <2>4 DEF HeapOK, Shared
  <2>6. Slabbed
    <3>1. SAlloc(k)
      BY <2>1 DEF SAlloc
    <3> QED BY <1>3, <3>1 DEF Slabbed, SNext
  <2> QED BY <2>1, <2>5, <2>6 DEF Owned
<1>12. CASE o.ptr # 0 /\ Duplicate(o.ptr)
  <2>1. supply' = o.supply /\ slabs' = o.slabs /\ status' = "duplicate" /\ UNCHANGED <<ht, held>>
    BY <1>2, <1>12
  <2>2. Good(slabs', supply') /\ Shared' /\ status' # "up"
    BY <1>4, <1>7, <2>1 DEF Shared
  <2>3. HeapOK'
    BY <2>2 DEF HeapOK, Shared
  <2>4. Slabbed
    <3>1. SAlloc(k)
      BY <2>1 DEF SAlloc
    <3> QED BY <1>3, <3>1 DEF Slabbed, SNext
  <2> QED BY <2>1, <2>3, <2>4 DEF Owned
<1>13. CASE o.ptr # 0 /\ ~Duplicate(o.ptr)
  <2>1. /\ slabs' = o.slabs /\ Apply(InsertOutcomes(ht, o.supply, o.ptr, k))
        /\ held' = IF status' = "up" THEN [held EXCEPT ![c] = @ \cup {o.ptr}] ELSE held
    BY <1>2, <1>13
  <2>2. PICK a \in Addresses : a = o.ptr
    BY <1>8, <1>13 DEF Served
  <2>3. htGetNodeInternal(ht.root, a) = Null
    BY <1>13, <2>2 DEF Duplicate
  <2>4. PICK left \in SUBSET z : left = o.supply
    BY <1>9
  <2>5. /\ supply' \subseteq left /\ a \notin T
        /\ status' = "up" => /\ Books(Kinds, ht', z \ (left \ supply'))
                             /\ Tracked(ht'.root) = T \cup {a}
    <3>1. Apply(InsertOutcomes(ht, left, a, k))
      BY <2>1, <2>2, <2>4
    <3> QED BY <1>3, <1>5, <1>10, <2>3, <3>1, InsertApplied
  <2>6. Good(slabs', supply')
    <3>1. supply' \in SUBSET o.supply
      BY <2>4, <2>5
    <3>2. Good(o.slabs, supply')
      BY <1>7, <3>1, FewerLeft
    <3> QED BY <2>1, <3>2
  <2>7. Slabbed
    <3>1. SAlloc(k)
      BY <2>1, <2>4, <2>5 DEF SAlloc
    <3> QED BY <1>3, <3>1 DEF Slabbed, SNext
  <2>8. CASE status' # "up"
    <3>1. held' = held
      BY <2>1, <2>8
    <3>2. HeapOK'
      BY <1>4, <2>6, <2>8, <3>1 DEF HeapOK, Shared
    <3> QED BY <2>7, <3>1, <3>2 DEF Owned
  <2>9. CASE status' = "up"
    <3>1. held' = [held EXCEPT ![c] = @ \cup {a}]
      BY <2>1, <2>2, <2>9
    <3>2. a \notin Held
      BY <1>4, <1>5, <2>5
    <3>3. Shared' /\ Held' = Held \cup {a} /\ Owned
      BY <3>1, <3>2, CallerTakes DEF Shared
    <3>4. Accounts(slabs', Tracked(ht'.root))
      <4>1. Accounts(o.slabs, T \cup {o.ptr})
        BY <1>8, <1>13, <2>2, <2>5 DEF Served
      <4> QED BY <2>1, <2>2, <2>5, <2>9, <4>1
    <3>5. Books(Kinds, ht', supply' \cup SlabPages(slabs'))
      <4>1. SlabPages(o.slabs) \cap o.supply = {}
        BY <1>7, PagesApart
      <4>2. supply' \cup SlabPages(slabs') \subseteq z \ (left \ supply')
        BY <1>9, <2>1, <2>4, <2>5, <4>1
      <4> QED BY <2>5, <2>9, <4>2, FewerBooks
    <3>6. Agree'
      BY <1>4, <1>5, <2>5, <2>9, <3>3, <3>4, <3>5 DEF Agree
    <3>7. HeapOK'
      BY <2>6, <3>3, <3>6 DEF HeapOK, Shared
    <3> QED BY <2>7, <3>3, <3>7
  <2> QED BY <2>8, <2>9
<1> QED BY <1>11, <1>12, <1>13

\* So is kfree, whose node names the allocator and whose address is of its
\* pages.
LEMMA KfreeKeeps ==
  ASSUME HeapOK, NEW c \in Callers, NEW a \in Addresses, Kfree(c, a)
  PROVE  HeapOK' /\ Slabbed /\ Owned
<1>1. PICK node : node = htGetNodeInternal(ht.root, a)
  OBVIOUS
<1>2. /\ status = "up" /\ node # Null
      /\ a \in held[c] \/ \A d \in Callers : a \notin held[d]
      /\ held' = [held EXCEPT ![c] = @ \ {a}]
  BY <1>1 DEF Kfree
<1>3. PICK o \in FreeOutcomes(slabs, supply, node.memstack, a) :
       /\ slabs' = o.slabs
       /\ IF o.ok THEN Apply(DeleteOutcomes(ht, o.supply, a))
          ELSE supply' = o.supply /\ UNCHANGED <<ht, status>>
  BY <1>1 DEF Kfree
<1>4. /\ Good(slabs, supply) /\ Shared /\ Books(Kinds, ht, supply \cup SlabPages(slabs))
      /\ Accounts(slabs, Tracked(ht.root)) /\ Held \subseteq Tracked(ht.root)
  BY <1>2 DEF HeapOK, Agree, Shared
<1>5. PICK T : T = Tracked(ht.root)
  OBVIOUS
<1>6. /\ IsFiniteSet(T) /\ ht.root \in Sound(Kinds)
      /\ \A b \in T : b \in Nat /\ PageOf(b) \in Pages
  BY <1>2, <1>5, AgreeFacts
<1>7. node \in Subtrees(ht.root) /\ a \in T
  BY <1>1, <1>2, <1>5, <1>6, Known
<1>8. PICK k \in Kinds : k = node.memstack
  <2>1. node \in Sound(Kinds) \ {Null}
    BY <1>6, <1>7, SoundBelow
  <2> QED BY <2>1, SoundNode
<1>9. Good(o.slabs, o.supply)
  BY <1>3, <1>4, <1>6, <1>7, <1>8, Frees
<1>10. Released(slabs, supply, T, a, o)
  <2>1. Accounts(slabs, T) /\ o \in FreeOutcomes(slabs, supply, k, a)
    BY <1>3, <1>4, <1>5, <1>8
  <2> QED BY <1>4, <1>6, <1>7, <2>1, FreeAccounts
<1>11. Shared' /\ Held' = Held \ {a} /\ Owned
  BY <1>2, CallerGives DEF Shared
<1>12. ASSUME supply' = o.supply PROVE Slabbed
  <2>1. a \in BlockAddresses
    BY <1>6, <1>7, OfPage
  <2>2. SFree(k, a)
    BY <1>3, <1>8, <1>12 DEF SFree
  <2> QED BY <2>1, <2>2 DEF Slabbed, SNext
<1>13. CASE ~o.ok
  <2>1. slabs' = slabs /\ supply' = supply /\ supply' = o.supply /\ ht' = ht /\ status' = status
    BY <1>3, <1>10, <1>13 DEF Released
  <2>2. Agree'
    BY <1>4, <1>11, <2>1 DEF Agree
  <2>3. HeapOK'
    BY <1>4, <1>11, <2>1, <2>2 DEF HeapOK, Shared
  <2> QED BY <1>11, <1>12, <2>1, <2>3
<1>14. CASE o.ok
  <2>1. slabs' = o.slabs /\ Apply(DeleteOutcomes(ht, o.supply, a))
    BY <1>3, <1>14
  <2>2. Accounts(o.slabs, T \ {a}) /\ o.supply \cup SlabPages(o.slabs) \subseteq supply \cup SlabPages(slabs)
    <3>1. Good(slabs, supply) /\ (o.slabs = slabs => o.supply = supply \/ o.ok)
      BY <1>4, <1>14
    <3> QED BY <1>10, <1>14 DEF Released
  <2>3. PICK z : z = o.supply \cup SlabPages(o.slabs)
    OBVIOUS
  <2>4. Books(Kinds, ht, z)
    BY <1>4, <2>2, <2>3, FewerBooks
  <2>5. supply' = o.supply /\ (status' = "up" => Books(Kinds, ht', z) /\ Tracked(ht'.root) = T \ {a})
    BY <1>1, <1>2, <1>5, <2>1, <2>4, DeleteApplied
  <2>6. Good(slabs', supply')
    BY <1>9, <2>1, <2>5
  <2>7. status' = "up" => Agree'
    BY <1>4, <1>5, <1>11, <2>1, <2>2, <2>3, <2>5 DEF Agree
  <2>8. HeapOK'
    BY <1>11, <2>6, <2>7 DEF HeapOK, Shared
  <2> QED BY <1>11, <1>12, <2>5, <2>8
<1> QED BY <1>13, <1>14

\* So every step does.
LEMMA NextHeap == HeapOK /\ [HeapNext]_heapvars => HeapOK' /\ Slabbed /\ Owned
<1> SUFFICES ASSUME HeapOK, [HeapNext]_heapvars PROVE HeapOK' /\ Slabbed /\ Owned
  OBVIOUS
<1>1. CASE UNCHANGED heapvars
  <2>1. UNCHANGED <<slabs, supply, ht, status, held>>
    BY <1>1 DEF heapvars
  <2>2. Held' = Held /\ UNCHANGED SlabPages(slabs) /\ UNCHANGED Tracked(ht.root)
    BY <2>1 DEF Held
  <2>3. Agree' <=> Agree
    BY <2>1, <2>2 DEF Agree
  <2>4. HeapOK'
    BY <2>1, <2>3 DEF HeapOK
  <2> QED BY <2>1, <2>4 DEF Slabbed, Owned
<1>2. ASSUME NEW c \in Callers, NEW size \in Sizes, Kmalloc(c, size)
      PROVE  HeapOK' /\ Slabbed /\ Owned
  BY <1>2, KmallocKeeps
<1>3. ASSUME NEW c \in Callers, NEW a \in Addresses, Kfree(c, a)
      PROVE  HeapOK' /\ Slabbed /\ Owned
  BY <1>3, KfreeKeeps
<1>4. ASSUME NEW size \in Sizes, KmallocRefused(size) PROVE UNCHANGED heapvars
  BY <1>4 DEF KmallocRefused
<1>5. ASSUME NEW a \in Addresses, KfreeUnknown(a) PROVE UNCHANGED heapvars
  BY <1>5 DEF KfreeUnknown
<1> QED BY <1>1, <1>2, <1>3, <1>4, <1>5 DEF HeapNext

\* So it is always.
LEMMA AlwaysHeap == HeapSpec => []HeapOK
<1>1. HeapInit => HeapOK
  BY InitHeap
<1>2. HeapOK /\ [HeapNext]_heapvars => HeapOK'
  BY NextHeap
<1> QED BY <1>1, <1>2, PTL DEF HeapSpec

\* Whatever is freed twice, what kmalloc gave a caller who did not free it is in the
\* tree, which kmalloc asks before it gives a block (heap.c:89), and its page is a
\* slab's and not left to be given (slaballoc.c:463-473).
THEOREM HeapKeepsHeld == HeapSpec => []HeldKept
BY AlwaysHeap, AgreeKeeps, PTL

\* A block belongs to one caller at a time, from the kmalloc that gives it to the
\* kfree of that caller.
THEOREM HeapImplementsOwnership == HeapSpec => ImplementsOwnership
<1>1. HeapInit => Ownership!Init
  BY InitHeap
<1>2. HeapOK /\ [HeapNext]_heapvars => [Ownership!Next]_held
  BY NextHeap DEF Owned
<1> QED BY <1>1, <1>2, AlwaysHeap, PTL DEF HeapSpec, ImplementsOwnership, Ownership!Spec

\* As kmalloc and kfree use them, the allocators do only what the allocators alone do:
\* kfree passes them only addresses of their pages (heap.c:113-150), and the tree
\* takes its pages from what they leave.
THEOREM HeapImplementsSlabs == HeapSpec => SSpec
<1>1. HeapInit => SInit
  BY InitHeap
<1>2. HeapOK /\ [HeapNext]_heapvars => [SNext]_<<slabs, supply>>
  BY NextHeap DEF Slabbed
<1> QED BY <1>1, <1>2, AlwaysHeap, PTL DEF HeapSpec, SSpec

\* So what is proved of the allocators is true of the heap: their books are right, and
\* a page is cut into blocks once.
THEOREM HeapSlabsOK == HeapSpec => [](SlabsOK /\ PagesOnce)
BY HeapImplementsSlabs, SlabsAlwaysOK, PagesAlwaysOnce, PTL
=============================================================================
