----------------------------- MODULE SlabAlloc ------------------------------
(***************************************************************************)
(* slaballoc.c: for each block size a chain of slabs.  A slab is a page cut *)
(* into blocks, a bit for each block that is available, and their number;  *)
(* its page is taken when its first block is.  The file has one copy of    *)
(* each function per block size: here they have the block size as argument.*)
(***************************************************************************)
EXTENDS HeapBase, Integers, Sequences, FiniteSets

CONSTANTS
  Unit,             \* bytes of a block of each kind
  PageSize,         \* 4096
  SlabsPerPage      \* slab structures of each kind that are chained in a page

ASSUME SlabAssumption ==
  /\ PageSize \in Nat
  /\ Unit \in [Kinds -> 1 .. PageSize]
  /\ \A k \in Kinds : PageSize % Unit[k] = 0
  /\ SlabsPerPage \in [Kinds -> Nat]
  /\ \A k \in Kinds : SlabsPerPage[k] > 0
  /\ \A p \in Pages : p \in Nat /\ p > 0 /\ p % PageSize = 0

VARIABLE slabs      \* [Kinds -> Seq([address, avail, availmap])]

-----------------------------------------------------------------------------
Blocks(k) == PageSize \div Unit[k]          \* ALLOCSPERPAGE...
Bits(k) == 0 .. Blocks(k) - 1
PageOf(a) == (a \div PageSize) * PageSize

\* Fault: the address's byte in the page.
BitOf_Byte(k, a) == a % PageSize
\* addr & 0x00000FFF/4: the division binds first, so it is not the block's
\* number.  (Each kind's number of blocks is a power of two.)
BitOf(k, a) == a % Blocks(k)

\* The slabs an init...Page function chains in a page it was given.
NewSlabs(k) ==
  [i \in 1 .. SlabsPerPage[k] |-> [address |-> 0, avail |-> Blocks(k), availmap |-> Bits(k)]]

Outcome(s, left, p) == [slabs |-> s, supply |-> left, ptr |-> p]

Smallest(S) == CHOOSE x \in S : \A y \in S : x <= y

\* The first available block of slab i, whose page is or becomes p.
Serve(s, left, k, i, p) ==
  LET bit == Smallest(s[k][i].availmap)
      used == [address |-> p, avail |-> s[k][i].avail - 1,
               availmap |-> s[k][i].availmap \ {bit}]
  IN  Outcome([s EXCEPT ![k][i] = used], left, p + Unit[k] * bit)

\* alloc... once slab i is known to have a block.
ServeFrom(s, left, k, i) ==
  IF s[k][i].address # 0 THEN {Serve(s, left, k, i, s[k][i].address)}
  ELSE IF left = {} THEN {Outcome(s, left, 0)}
  ELSE {Serve(s, left \ {p}, k, i, p) : p \in left}

\* The first slab with a block; failing that, the first of a new page of slabs.
AllocOutcomes(s, left, k) ==
  LET some == {i \in DOMAIN s[k] : s[k][i].avail > 0 /\ s[k][i].availmap # {}}
      more == [s EXCEPT ![k] = @ \o NewSlabs(k)]
  IN  IF some # {} THEN ServeFrom(s, left, k, Smallest(some))
      ELSE IF left = {} THEN {Outcome(s, left, 0)}
      ELSE UNION {ServeFrom(more, left \ {p}, k, Len(s[k]) + 1) : p \in left}

\* Fault: a block too early.
AllBack_Early(k, slab) == slab.avail >= Blocks(k) - 1
AllBack(k, slab) == slab.avail = Blocks(k)

\* Fault: the slab keeps the address of its page.
WithoutPage_Kept(slab) == slab
WithoutPage(slab) == [slab EXCEPT !.address = 0]

FreeOutcome(s, left, ok) == [slabs |-> s, supply |-> left, ok |-> ok]

\* The slabs of kind k that have the address's page.
OnPage(s, k, a) == {i \in DOMAIN s[k] : s[k][i].address # 0 /\ s[k][i].address = PageOf(a)}
Returned(slab, bit) ==
  [address |-> slab.address, avail |-> slab.avail + 1, availmap |-> slab.availmap \cup {bit}]

\* Slab i has bit again; a page whose blocks are all available is given back,
\* if it is taken back.
FreeFrom(s, left, k, i, bit) ==
  LET set == Returned(s[k][i], bit)
      kept == FreeOutcome([s EXCEPT ![k][i] = set], left, TRUE)
      back == FreeOutcome([s EXCEPT ![k][i] = WithoutPage(set)],
                          left \cup {s[k][i].address}, TRUE)
  IN  IF AllBack(k, set) THEN {kept, back} ELSE {kept}

\* free...: in the first slab that has the page, unless the block is available.
FreeOutcomes(s, left, k, a) ==
  LET on == OnPage(s, k, a)
      i == Smallest(on)
  IN  IF on = {} \/ BitOf(k, a) \in s[k][i].availmap THEN {FreeOutcome(s, left, FALSE)}
      ELSE FreeFrom(s, left, k, i, BitOf(k, a))

-----------------------------------------------------------------------------
(* The allocators alone: any kind may be asked for, any address be given   *)
(* to any kind's free, as kfree does when its tree is wrong, and others    *)
(* may take pages too.                                                     *)

BlockAddresses == {p + i : p \in Pages, i \in 0 .. PageSize - 1}

\* After initSlabAlloc.
SInit ==
  /\ slabs = [k \in Kinds |-> NewSlabs(k)]
  /\ supply \subseteq Pages

SAlloc(k) ==
  \E o \in AllocOutcomes(slabs, supply, k) : slabs' = o.slabs /\ supply' \subseteq o.supply
SFree(k, a) ==
  \E o \in FreeOutcomes(slabs, supply, k, a) : slabs' = o.slabs /\ supply' \subseteq o.supply

SNext == \E k \in Kinds : SAlloc(k) \/ \E a \in BlockAddresses : SFree(k, a)

SSpec == SInit /\ [][SNext]_<<slabs, supply>>

-----------------------------------------------------------------------------
(* Properties.                                                             *)

Places == UNION {{<<k, i>> : i \in DOMAIN slabs[k]} : k \in Kinds}
SlabAt(x) == slabs[x[1]][x[2]]

\* The slabs and the supply have the types of slaballoc.h, and the number available is
\* that of the bits set: no call, whatever address it is given, counts a block
\* twice (slaballoc.c:461-467, 882-886).  A slab without a page has all its blocks
\* to give.
SlabsOK ==
  /\ slabs \in [Kinds -> Seq([address : Pages \cup {0}, avail : Nat, availmap : SUBSET Nat])]
  /\ supply \subseteq Pages
  /\ \A x \in Places :
       /\ SlabAt(x).availmap \subseteq Bits(x[1])
       /\ SlabAt(x).avail = Cardinality(SlabAt(x).availmap)
       /\ SlabAt(x).address = 0 => SlabAt(x).availmap = Bits(x[1])

\* A page belongs to one slab of one kind and is then not left to be given: a
\* page that is given back is forgotten by its slab (slaballoc.c:470-473).
PagesOnce ==
  \A x \in Places : SlabAt(x).address # 0 =>
    /\ SlabAt(x).address \notin supply
    /\ \A y \in Places : SlabAt(y).address = SlabAt(x).address => y = x
=============================================================================
