------------------------ MODULE KernelMemory_proofs ------------------------
(***************************************************************************)
(* Proofs about KernelMemory, for every memory map, page size, number of   *)
(* frames and set of clients.                                              *)
(*                                                                         *)
(* HeldInUse is not inductive: a free that follows the calls' contract     *)
(* must not take a frame from another holder, which needs Exclusive, and   *)
(* pmmFreeRsvdRange must not fall into its undo branch, which needs        *)
(* RangesValid.  MappedFramesKept also needs that frames are free of       *)
(* owners until initPMM has run (BootClean).                               *)
(***************************************************************************)
EXTENDS KernelMemory, TLAPS

\* Every range a client holds is one physIsRsvdMemRange accepts.
RangesValid == \A c \in Clients : \A r \in ranges[c] : physIsRsvdMemRange(r)

\* Before initPMM nothing is in use and nothing is held.
BootClean ==
  phase = "boot" => /\ inuse = {} /\ exists = {} /\ avail = {}
                    /\ \A c \in Clients : frames[c] = {} /\ ranges[c] = {}

\* An empty memory map leaves the manager without any frame.
NoMapNoFrames ==
  mmap = <<>> => exists = {} /\ avail = {} /\ inuse = {}

\* Frame 0, if it exists, is what slot 0 maps.
NullMapped == Initialised /\ 0 \in exists => 0 \in pt[0]

IInv ==
  /\ TypeOK /\ StatusConsistent /\ HeldInUse /\ Exclusive
  /\ MappedFramesKept /\ LeaksOnlyLastPages
  /\ RangesValid /\ BootClean /\ NoMapNoFrames /\ NullMapped

-----------------------------------------------------------------------------
(* How the operations change what is in use, and what a client holds.      *)

\* The frames a client holds through ranges, one range at a time.
LEMMA HoldsMember ==
  ASSUME NEW c, NEW p
  PROVE  p \in Holds(c) <=> \/ p \in frames[c]
                            \/ \E r \in ranges[c] : p \in RangePages(r)
BY DEF Holds, RangesPages

\* RangePages stays within the frames of the address space.
LEMMA RangePagesType ==
  ASSUME NEW r PROVE RangePages(r) \subseteq Pages
BY DEF RangePages

\* initPMM marks every frame it leaves mapped as in use.
LEMMA MarkedAll ==
  ASSUME NEW ex \in SUBSET Pages, TypeOK
  PROVE  /\ TrimmedTables(ex) \in [Pdes -> SUBSET Pages]
         /\ MarkMapped(ex) = UNION {TrimmedTables(ex)[d] : d \in Pdes}
         /\ MarkMapped(ex) \subseteq ex
         /\ TrimmedTables(ex)[0] = {0} \cap ex
<1>1. /\ TrimmedTables(ex) \in [Pdes -> SUBSET Pages]
      /\ \A d \in Pdes : TrimmedTables(ex)[d] \subseteq ex
  BY DEF TrimmedTables, TypeOK
<1>2. MarkMapped(ex) = UNION {TrimmedTables(ex)[d] : d \in Pdes}
  BY <1>1 DEF MarkMapped
<1>3. TrimmedTables(ex)[0] = {0} \cap ex
  BY PMMAssumption DEF TrimmedTables
<1> QED
  BY <1>1, <1>2, <1>3 DEF MarkMapped

\* A region's loop visits frames of the address space.
LEMMA MapFrames ==
  ASSUME NEW m
  PROVE  MapExists(m) \subseteq Pages /\ MapAvail(m) \subseteq MapExists(m)
BY DEF MapExists, MapAvail, Covered

\* Truncating an address to 32 bits leaves it in the address space.
LEMMA AddressType ==
  ASSUME NEW a \in Nat PROVE Uint32(a) \in 0 .. AddrSpace - 1
<1>1. AddrSpace \in Nat \ {0}
  BY PMMAssumption DEF AddrSpace
<1> QED
  BY <1>1 DEF Uint32

\* Before initPMM nothing is in use and no client holds a frame.
LEMMA InitIInv == KInit => IInv
<1> SUFFICES ASSUME KInit PROVE IInv
  OBVIOUS
<1> USE PMMAssumption DEF KInit, Init
<1>1. TypeOK
  BY DEF TypeOK, Pages
<1>2. \A c \in Clients : Holds(c) = {}
  BY DEF Holds, RangesPages
<1>3. StatusConsistent /\ HeldInUse
  BY <1>2 DEF StatusConsistent, HeldInUse
<1>4. Exclusive
  BY <1>2 DEF Exclusive
<1>5. RangesValid
  BY DEF RangesValid
<1>6. BootClean /\ NoMapNoFrames
  BY DEF BootClean, NoMapNoFrames
<1>7. MappedFramesKept /\ LeaksOnlyLastPages /\ NullMapped
  BY DEF MappedFramesKept, LeaksOnlyLastPages, NullMapped, Initialised
<1> QED
  BY <1>1, <1>3, <1>4, <1>5, <1>6, <1>7 DEF IInv

-----------------------------------------------------------------------------
(* The four ways a call changes ownership.  What all of them leave alone:  *)

Calm ==
  /\ phase = "running" /\ phase' \in {"running", "hung"}
  /\ UNCHANGED pool
  /\ next' \in 0 .. NumPages
  /\ ret'.frames \in SUBSET Pages /\ ret'.ok \in BOOLEAN

\* What happens to the holdings when c is given, or gives up, the frames S.
Gains(c, S) == \A d \in Clients : Holds(d)' = IF d = c THEN Holds(d) \cup S ELSE Holds(d)
Loses(c, S) == \A d \in Clients : Holds(d)' = IF d = c THEN Holds(d) \ S ELSE Holds(d)

\* A client gains frames that were not in use, one at a time.
LEMMA TakeFrames ==
  ASSUME IInv, Calm, NEW c \in Clients, NEW S \in SUBSET Pages,
         S \cap inuse = {}, S \subseteq exists,
         inuse' = inuse \cup S,
         frames' = [frames EXCEPT ![c] = @ \cup S], UNCHANGED ranges
  PROVE  IInv' /\ Gains(c, S)
<1> USE DEF IInv, Calm, pool
<1>1. TypeOK'
  BY DEF TypeOK
<1>2. /\ Holds(c)' = Holds(c) \cup S
      /\ \A d \in Clients \ {c} : Holds(d)' = Holds(d)
      /\ Held' = Held \cup S /\ Mapped' = Mapped
  <2>1. Holds(c)' = Holds(c) \cup S
    BY DEF Holds, TypeOK
  <2>2. \A d \in Clients \ {c} : Holds(d)' = Holds(d)
    BY DEF Holds, TypeOK
  <2>3. Held' = Held \cup S
    BY <2>1, <2>2 DEF Held
  <2> QED
    BY <2>1, <2>2, <2>3 DEF Mapped
<1>3. StatusConsistent' /\ HeldInUse'
  BY <1>2 DEF StatusConsistent, HeldInUse
<1>4. Exclusive'
  <2>1. \A d \in Clients : S \cap Holds(d) = {}
    BY DEF HeldInUse
  <2>2. \A d, e \in Clients : d # e => Holds(d)' \cap Holds(e)' = {}
    BY <1>2, <2>1 DEF Exclusive
  <2>3. \A d \in Clients : frames'[d] \cap RangesPages(ranges[d]) = {}
    BY <2>1 DEF Exclusive, TypeOK, Holds
  <2> QED
    BY <2>2, <2>3 DEF Exclusive, RangesPages, RangePages
<1>5. MappedFramesKept' /\ LeaksOnlyLastPages'
  BY <1>2 DEF MappedFramesKept, LeaksOnlyLastPages, Initialised,
              RsvdRanges, LastPage
<1>6. RangesValid' /\ BootClean' /\ NoMapNoFrames' /\ NullMapped'
  BY DEF RangesValid, BootClean, NoMapNoFrames, NullMapped, Initialised,
         physIsRsvdMemRange, RangeOf, Reserved, StatusConsistent
<1>7. Gains(c, S)
  BY <1>2 DEF Gains
<1> QED
  BY <1>1, <1>3, <1>4, <1>5, <1>6, <1>7

\* A client gives back frames it held one at a time.
LEMMA GiveFrames ==
  ASSUME IInv, Calm, NEW c \in Clients, NEW S \in SUBSET Pages,
         S \subseteq frames[c],
         inuse' = inuse \ S,
         frames' = [frames EXCEPT ![c] = @ \ S], UNCHANGED ranges
  PROVE  IInv' /\ Loses(c, S)
<1> USE DEF IInv, Calm, pool
<1>1. TypeOK'
  BY DEF TypeOK
<1>2. /\ Holds(c)' = Holds(c) \ S
      /\ \A d \in Clients \ {c} : Holds(d)' = Holds(d) /\ S \cap Holds(d) = {}
      /\ Held' = Held \ S /\ Mapped' = Mapped /\ S \subseteq Held
  <2>1. Holds(c)' = Holds(c) \ S
    BY DEF Holds, TypeOK, Exclusive
  <2>2. \A d \in Clients \ {c} : Holds(d)' = Holds(d) /\ S \cap Holds(d) = {}
    BY DEF Holds, TypeOK, Exclusive
  <2>3. Held' = Held \ S /\ S \subseteq Held
    BY <2>1, <2>2 DEF Held, Holds
  <2> QED
    BY <2>1, <2>2, <2>3 DEF Mapped
<1>3. StatusConsistent' /\ HeldInUse'
  BY <1>2 DEF StatusConsistent, HeldInUse
<1>4. Exclusive'
  BY <1>2 DEF Exclusive, TypeOK, RangesPages, RangePages
<1>5. MappedFramesKept' /\ LeaksOnlyLastPages'
  BY <1>2 DEF MappedFramesKept, LeaksOnlyLastPages, Initialised,
              RsvdRanges, LastPage
<1>6. RangesValid' /\ BootClean' /\ NoMapNoFrames' /\ NullMapped'
  BY DEF RangesValid, BootClean, NoMapNoFrames, NullMapped, Initialised,
         physIsRsvdMemRange, RangeOf, Reserved
<1>7. Loses(c, S)
  BY <1>2 DEF Loses
<1> QED
  BY <1>1, <1>3, <1>4, <1>5, <1>6, <1>7

\* A client gains a reserved range of which no frame was in use.
LEMMA TakeRange ==
  ASSUME IInv, Calm, NEW c \in Clients, NEW r \in Ranges,
         physIsRsvdMemRange(r),
         RangePages(r) \cap inuse = {}, RangePages(r) \subseteq exists,
         inuse' = inuse \cup RangePages(r),
         ranges' = [ranges EXCEPT ![c] = @ \cup {r}], UNCHANGED frames
  PROVE  IInv' /\ Gains(c, RangePages(r))
<1> USE DEF IInv, Calm, pool
<1> DEFINE S == RangePages(r)
<1>1. TypeOK'
  BY DEF TypeOK, RangePages
<1>2. /\ Holds(c)' = Holds(c) \cup S
      /\ \A d \in Clients \ {c} : Holds(d)' = Holds(d)
      /\ Held' = Held \cup S /\ Mapped' = Mapped
  <2>1. RangesPages(ranges'[c]) = RangesPages(ranges[c]) \cup S
    BY DEF RangesPages, TypeOK
  <2>2. \A q : RangesPages(q)' = RangesPages(q')
    BY DEF RangesPages, RangePages
  <2>3. Holds(c)' = Holds(c) \cup S
    BY <2>1 DEF Holds, RangesPages, RangePages
  <2>4. \A d \in Clients \ {c} : Holds(d)' = Holds(d)
    BY DEF Holds, TypeOK, RangesPages, RangePages
  <2>5. Held' = Held \cup S
    BY <2>3, <2>4 DEF Held
  <2> QED
    BY <2>3, <2>4, <2>5 DEF Mapped
<1>3. StatusConsistent' /\ HeldInUse'
  BY <1>2 DEF StatusConsistent, HeldInUse
<1>4. Exclusive'
  <2>1. \A d \in Clients : S \cap Holds(d) = {}
    BY DEF HeldInUse
  <2>2. \A d, e \in Clients : d # e => Holds(d)' \cap Holds(e)' = {}
    BY <1>2, <2>1 DEF Exclusive
  <2>3. \A q \in ranges[c] : RangePages(q) \cap S = {}
    BY <2>1 DEF Holds, RangesPages
  <2>4. \A d \in Clients : frames[d] \cap RangesPages(ranges'[d]) = {}
    BY <2>1 DEF Exclusive, TypeOK, Holds, RangesPages
  <2>5. \A d \in Clients : \A q, t \in ranges'[d] :
          q # t => RangePages(q) \cap RangePages(t) = {}
    BY <2>3 DEF Exclusive, TypeOK
  <2> QED
    BY <2>2, <2>4, <2>5 DEF Exclusive, RangesPages, RangePages
<1>5. MappedFramesKept' /\ LeaksOnlyLastPages'
  BY <1>2 DEF MappedFramesKept, LeaksOnlyLastPages, Initialised,
              RsvdRanges, LastPage
<1>6. RangesValid'
  BY DEF RangesValid, TypeOK, physIsRsvdMemRange, RangeOf, Reserved
<1>7. BootClean' /\ NoMapNoFrames' /\ NullMapped'
  BY DEF BootClean, NoMapNoFrames, NullMapped, Initialised, StatusConsistent
<1>8. Gains(c, RangePages(r))
  BY <1>2 DEF Gains
<1> QED
  BY <1>1, <1>3, <1>4, <1>5, <1>6, <1>7, <1>8

\* A client gives back a reserved range; its last frame stays in use.
LEMMA GiveRange ==
  ASSUME IInv, Calm, NEW c \in Clients, NEW r \in ranges[c],
         inuse' = inuse \ FreedPages(r),
         ranges' = [ranges EXCEPT ![c] = @ \ {r}], UNCHANGED frames
  PROVE  IInv' /\ Loses(c, RangePages(r))
<1> USE DEF IInv, Calm, pool
<1> DEFINE S == RangePages(r)
<1>1. TypeOK'
  BY DEF TypeOK
<1>2. FreedPages(r) \subseteq S /\ S \ FreedPages(r) \subseteq {LastPage(r)}
  BY DEF FreedPages
<1>3. S \subseteq Holds(c) /\ r \in RsvdRanges
  BY DEF Holds, RangesPages, RangesValid, physIsRsvdMemRange, RsvdRanges
<1>4. /\ Holds(c)' = Holds(c) \ S
      /\ \A d \in Clients \ {c} : Holds(d)' = Holds(d) /\ S \cap Holds(d) = {}
      /\ Held' = Held \ S /\ Mapped' = Mapped
  <2>1. RangesPages(ranges'[c]) = RangesPages(ranges[c]) \ S
    BY DEF RangesPages, TypeOK, Exclusive
  <2>2. S \cap frames[c] = {}
    BY DEF Exclusive, RangesPages
  <2>3. Holds(c)' = Holds(c) \ S
    BY <2>1, <2>2 DEF Holds, RangesPages, RangePages
  <2>4. \A d \in Clients \ {c} : Holds(d)' = Holds(d) /\ S \cap Holds(d) = {}
    BY <1>3 DEF Holds, TypeOK, RangesPages, RangePages, Exclusive
  <2>5. Held' = Held \ S
    BY <2>3, <2>4 DEF Held
  <2> QED
    BY <2>3, <2>4, <2>5 DEF Mapped
<1>5. StatusConsistent' /\ HeldInUse'
  BY <1>2, <1>4 DEF StatusConsistent, HeldInUse
<1>6. Exclusive'
  BY <1>4 DEF Exclusive, TypeOK, RangesPages, RangePages
<1>7. S \subseteq Held
  BY <1>3 DEF Held
<1>8. MappedFramesKept'
  BY <1>2, <1>4, <1>7 DEF MappedFramesKept, Initialised
<1>9. LeaksOnlyLastPages'
  BY <1>2, <1>3, <1>4 DEF LeaksOnlyLastPages, Initialised,
              RsvdRanges, LastPage
<1>10. RangesValid' /\ BootClean' /\ NoMapNoFrames' /\ NullMapped'
  BY DEF RangesValid, BootClean, NoMapNoFrames, NullMapped, Initialised,
         physIsRsvdMemRange, RangeOf, Reserved, TypeOK
<1>11. Loses(c, RangePages(r))
  BY <1>4 DEF Loses
<1> QED
  BY <1>1, <1>5, <1>6, <1>8, <1>9, <1>10, <1>11

\* A call that is refused, or that hangs, changes no ownership.
LEMMA NoChange ==
  ASSUME IInv, Calm, UNCHANGED <<inuse, frames, ranges>>
  PROVE  IInv' /\ \A c \in Clients : Holds(c)' = Holds(c)
<1> USE DEF IInv, Calm, pool
<1>1. TypeOK'
  BY DEF TypeOK
<1>2. (\A c \in Clients : Holds(c)' = Holds(c)) /\ Held' = Held /\ Mapped' = Mapped
  BY DEF Holds, Held, Mapped, RangesPages, RangePages
<1>3. StatusConsistent' /\ HeldInUse' /\ Exclusive'
  BY <1>2 DEF StatusConsistent, HeldInUse, Exclusive, RangesPages, RangePages
<1>4. MappedFramesKept' /\ LeaksOnlyLastPages'
  BY <1>2 DEF MappedFramesKept, LeaksOnlyLastPages, Initialised,
              RsvdRanges, LastPage
<1>5. RangesValid' /\ BootClean' /\ NoMapNoFrames' /\ NullMapped'
  BY DEF RangesValid, BootClean, NoMapNoFrames, NullMapped, Initialised,
         physIsRsvdMemRange, RangeOf, Reserved
<1> QED
  BY <1>1, <1>3, <1>4, <1>5, <1>2

-----------------------------------------------------------------------------
(* Every step preserves the invariant.                                     *)

\* initPMM, and the two ways it does not get far.
LEMMA BootStep ==
  ASSUME IInv, KBoot
  PROVE  IInv' /\ \A c \in Clients : Holds(c)' = Holds(c)
<1> SUFFICES IInv'
  <2>1. \A c \in Clients : Holds(c)' = Holds(c)
    BY DEF KBoot, Holds, RangesPages, RangePages
  <2> QED
    BY <2>1
<1> USE DEF KBoot, Booting
<1>0. phase = "boot" /\ UNCHANGED <<mmap, frames, ranges>>
  BY DEF InitNoMap, InitHangs, initPMM
<1>1. \A c \in Clients : Holds(c) = {} /\ Holds(c)' = {}
  BY <1>0 DEF IInv, BootClean, Holds, RangesPages, RangePages
<1>2. Held' = {}
  BY <1>1 DEF Held
<1>3. Exclusive' /\ HeldInUse'
  BY <1>0, <1>1 DEF IInv, BootClean, Exclusive, HeldInUse, Holds
<1>4. RangesValid' /\ BootClean'
  BY <1>0 DEF IInv, BootClean, RangesValid, InitNoMap, InitHangs, initPMM
<1>5. CASE InitNoMap \/ InitHangs
  <2>1. TypeOK'
    <3>1. UNCHANGED <<mmap, exists, avail, inuse, first, last, next, pt, frames, ranges>>
      BY <1>0, <1>5 DEF InitNoMap, InitHangs
    <3>2. /\ phase' \in {"running", "hung"}
          /\ ret'.frames \in SUBSET Pages /\ ret'.ok \in BOOLEAN
      <4>1. CASE InitNoMap
        BY <4>1 DEF InitNoMap, Returns
      <4>2. CASE InitHangs
        BY <4>2 DEF InitHangs, IInv, TypeOK
      <4> QED
        BY <1>5, <4>1, <4>2
    <3> QED
      BY <3>1, <3>2 DEF IInv, TypeOK
  <2>2. StatusConsistent' /\ NoMapNoFrames'
    BY <1>5, <1>0 DEF IInv, BootClean, StatusConsistent, NoMapNoFrames, InitNoMap, InitHangs
  <2>3. MappedFramesKept' /\ LeaksOnlyLastPages' /\ NullMapped'
    BY <1>5 DEF MappedFramesKept, LeaksOnlyLastPages, NullMapped, Initialised,
                InitNoMap, InitHangs
  <2> QED
    BY <1>3, <1>4, <2>1, <2>2, <2>3 DEF IInv
<1>6. CASE initPMM
  <2>1. exists' \in SUBSET Pages /\ avail' \subseteq exists'
    BY <1>6, MapFrames, PMMAssumption DEF initPMM
  <2>2. /\ pt' \in [Pdes -> SUBSET Pages]
        /\ inuse' = Mapped' /\ inuse' \subseteq exists'
        /\ pt'[0] = {0} \cap exists'
    <3>1. pt' = TrimmedTables(exists') /\ inuse' = MarkMapped(exists')
      BY <1>6 DEF initPMM
    <3>2. TypeOK
      BY DEF IInv
    <3> QED
      BY <2>1, <3>1, <3>2, MarkedAll DEF Mapped
  <2>3. TypeOK'
    <3>1. first' \in Pages /\ last' \in Pages /\ next' \in 0 .. NumPages
      BY <1>6, PMMAssumption DEF initPMM, Pages
    <3>2. phase' = "running" /\ ret'.frames = {} /\ ret'.ok = TRUE
      BY <1>6 DEF initPMM, Returns
    <3> QED
      BY <1>0, <2>1, <2>2, <3>1, <3>2 DEF IInv, TypeOK
  <2>4. StatusConsistent' /\ NoMapNoFrames'
    BY <1>6, <2>1, <2>2 DEF StatusConsistent, NoMapNoFrames, initPMM
  <2>5. MappedFramesKept' /\ LeaksOnlyLastPages' /\ NullMapped'
    BY <1>2, <2>2 DEF MappedFramesKept, LeaksOnlyLastPages, NullMapped
  <2> QED
    BY <1>3, <1>4, <2>3, <2>4, <2>5 DEF IInv
<1> QED
  BY <1>5, <1>6

\* Frame 0 is not free once the manager runs.
LEMMA NullTaken == IInv /\ phase = "running" => 0 \notin exists \/ 0 \in inuse
BY PMMAssumption DEF IInv, NullMapped, MappedFramesKept, Mapped, Initialised, NoMapNoFrames

\* pmmAlloc gives its caller one free frame.
LEMMA AllocStep ==
  ASSUME IInv, NEW c \in Clients, KAllocAhead(c) \/ KAllocWrap(c)
  PROVE  IInv' /\ \E S \in SUBSET (Pages \ inuse) : Gains(c, S)
<1>1. PICK p \in avail \ inuse :
        /\ phase = "running" /\ UNCHANGED <<pool, phase, ranges>>
        /\ HandOut("pmmAlloc", p) /\ next' = p + 1 /\ GetsFrames(c)
  BY DEF KAllocAhead, KAllocWrap, pmmAllocAhead, pmmAllocWrap, Ahead, Free
<1>2. p \in Pages /\ p \in exists /\ p # 0
  BY <1>1, NullTaken DEF IInv, StatusConsistent, TypeOK
<1>3. ret'.frames = {p} /\ ret'.ok = TRUE /\ inuse' = inuse \cup {p}
  BY <1>1, <1>2 DEF HandOut, Returns
<1>4. Calm
  BY <1>1, <1>2, <1>3, PMMAssumption DEF Calm, Pages
<1>5. /\ frames' = [frames EXCEPT ![c] = @ \cup {p}] /\ UNCHANGED ranges
      /\ {p} \in SUBSET Pages /\ {p} \cap inuse = {} /\ {p} \subseteq exists
  BY <1>1, <1>2, <1>3 DEF GetsFrames
<1>6. IInv' /\ Gains(c, {p})
  BY <1>3, <1>4, <1>5, TakeFrames
<1> QED
  BY <1>5, <1>6

\* pmmAllocRsvd gives a free reserved frame, or nothing.
LEMMA AllocRsvdStep ==
  ASSUME IInv, NEW c \in Clients, NEW p \in Pages, KAllocRsvd(c, p)
  PROVE  IInv' /\ \E S \in SUBSET (Pages \ inuse) : Gains(c, S)
<1> USE DEF KAllocRsvd, pmmAllocRsvd
<1>1. CASE p \in Rsvd \ inuse
  <2>1. p # 0 /\ p \in exists
    BY <1>1, NullTaken DEF Rsvd
  <2>2. ret'.frames = {p} /\ ret'.ok = TRUE /\ inuse' = inuse \cup {p}
    BY <1>1, <2>1 DEF HandOut, Returns
  <2>3. Calm
    BY <2>2 DEF Calm, IInv, TypeOK
  <2>4. /\ frames' = [frames EXCEPT ![c] = @ \cup {p}] /\ UNCHANGED ranges
        /\ {p} \in SUBSET Pages /\ {p} \cap inuse = {} /\ {p} \subseteq exists
    BY <1>1, <2>1, <2>2 DEF GetsFrames
  <2>5. IInv' /\ Gains(c, {p})
    BY <2>2, <2>3, <2>4, TakeFrames
  <2> QED
    BY <2>4, <2>5
<1>2. CASE p \notin Rsvd \ inuse
  <2>1. ret'.frames = {} /\ ret'.ok = FALSE /\ inuse' = inuse
    BY <1>2 DEF Returns
  <2>2. frames' = frames
    BY <2>1 DEF GetsFrames, IInv, TypeOK
  <2>3. Calm
    BY <2>1 DEF Calm, IInv, TypeOK
  <2>4. IInv' /\ Gains(c, {})
    BY <2>1, <2>2, <2>3, NoChange DEF Gains
  <2> QED
    BY <2>4
<1> QED
  BY <1>1, <1>2

\* A client that frees what it holds, with the matching call, is not refused.
LEMMA FreeOneWorks ==
  ASSUME IInv, NEW c \in Clients, NEW p \in Pages, KFree(c, p) \/ KFreeRsvd(c, p)
  PROVE  ret'.ok = TRUE /\ ret'.frames = {p} /\ inuse' = inuse \ {p}
<1>1. p \in inuse /\ p \in exists /\ phase = "running"
  BY DEF KFree, KFreeRsvd, pmmFree, pmmFreeRsvd, FreeOne, IInv, HeldInUse, Holds,
         StatusConsistent
<1>2. p # 0
  <2>1. Initialised
    BY <1>1 DEF IInv, NoMapNoFrames, Initialised
  <2>2. 0 \in exists => 0 \in Mapped
    BY <2>1, PMMAssumption DEF IInv, NullMapped, Mapped
  <2>3. p \in Held
    BY DEF KFree, KFreeRsvd, Held, Holds
  <2> QED
    BY <1>1, <2>1, <2>2, <2>3 DEF IInv, MappedFramesKept, Initialised
<1> QED
  BY <1>1, <1>2 DEF KFree, KFreeRsvd, pmmFree, pmmFreeRsvd, FreeOne, Returns, Rsvd

\* pmmFree and pmmFreeRsvd, given a frame the caller holds.
LEMMA FreeStep ==
  ASSUME IInv, NEW c \in Clients, NEW p \in Pages, KFree(c, p) \/ KFreeRsvd(c, p)
  PROVE  IInv' /\ \E S \in SUBSET Holds(c) : Loses(c, S)
<1>1. ret'.ok = TRUE /\ ret'.frames = {p} /\ inuse' = inuse \ {p}
  BY FreeOneWorks
<1>2. Calm
  BY <1>1 DEF Calm, IInv, TypeOK, KFree, KFreeRsvd, pmmFree, pmmFreeRsvd, FreeOne
<1>3. /\ {p} \subseteq frames[c] /\ {p} \in SUBSET Pages /\ {p} \subseteq Holds(c)
      /\ frames' = [frames EXCEPT ![c] = @ \ {p}] /\ UNCHANGED ranges
  BY <1>1 DEF KFree, KFreeRsvd, LosesFrames, Holds
<1>4. IInv' /\ Loses(c, {p})
  BY <1>1, <1>2, <1>3, GiveFrames
<1> QED
  BY <1>3, <1>4

\* pmmAllocRsvdRange gives a whole free range, or nothing.
LEMMA AllocRangeStep ==
  ASSUME IInv, NEW c \in Clients, NEW r \in RsvdRanges, KAllocRange(c, r)
  PROVE  IInv' /\ \E S \in SUBSET (Pages \ inuse) : Gains(c, S)
<1> USE DEF KAllocRange, pmmAllocRsvdRange
<1>1. r \in Ranges
  <2>1. PICK i \in DOMAIN mmap : r = RangeOf(mmap[i])
    BY DEF RsvdRanges
  <2>2. mmap[i].base \in Nat /\ mmap[i].end \in Nat
    <3>1. mmap \in Seq(Region)
      BY PMMAssumption DEF IInv, TypeOK
    <3>2. mmap[i] \in Region
      BY <2>1, <3>1
    <3> QED
      BY <3>2 DEF Region
  <2> QED
    BY <2>1, <2>2, AddressType DEF RangeOf, Ranges
<1>2. CASE /\ physIsRsvdMemRange(r)
           /\ RangePages(r) \cap inuse = {}
           /\ RangePages(r) \subseteq exists
  <2>1. /\ ret'.frames = RangePages(r) /\ ret'.ok = TRUE
        /\ inuse' = inuse \cup RangePages(r)
    BY <1>2 DEF Returns
  <2>2. Calm
    BY <2>1, RangePagesType DEF Calm, IInv, TypeOK
  <2>3. ranges' = [ranges EXCEPT ![c] = @ \cup {r}] /\ UNCHANGED frames
    BY <2>1
  <2>4. IInv' /\ Gains(c, RangePages(r))
    BY <1>1, <1>2, <2>1, <2>2, <2>3, TakeRange
  <2>5. RangePages(r) \in SUBSET (Pages \ inuse)
    BY <1>2, RangePagesType
  <2> QED
    BY <2>4, <2>5
<1>3. CASE ~ /\ physIsRsvdMemRange(r)
             /\ RangePages(r) \cap inuse = {}
             /\ RangePages(r) \subseteq exists
  <2>1. ret'.frames = {} /\ ret'.ok = FALSE /\ inuse' = inuse
    BY <1>3 DEF Returns
  <2>2. Calm
    BY <2>1 DEF Calm, IInv, TypeOK
  <2>3. UNCHANGED <<frames, ranges>>
    BY <2>1
  <2>4. IInv' /\ Gains(c, {})
    BY <2>1, <2>2, <2>3, NoChange DEF Gains
  <2> QED
    BY <2>4
<1> QED
  BY <1>2, <1>3

\* pmmFreeRsvdRange of a range the client holds never gets stuck.
LEMMA FreeRangeWorks ==
  ASSUME IInv, NEW c \in Clients, NEW r, KFreeRange(c, r)
  PROVE  /\ ret'.ok = TRUE /\ ret'.frames = RangePages(r)
         /\ inuse' = inuse \ FreedPages(r)
<1>1. physIsRsvdMemRange(r)
  BY DEF KFreeRange, IInv, RangesValid
<1>2. FreedPages(r) \subseteq inuse
  BY DEF KFreeRange, FreedPages, IInv, HeldInUse, Holds, RangesPages
<1>3. FreedPages(r) \ (inuse \cup {0}) = {}
  BY <1>2
<1> QED
  BY <1>1, <1>3 DEF KFreeRange, pmmFreeRsvdRange, Returns

\* pmmFreeRsvdRange, given a range the caller holds.
LEMMA FreeRangeStep ==
  ASSUME IInv, NEW c \in Clients, NEW r, KFreeRange(c, r)
  PROVE  IInv' /\ \E S \in SUBSET Holds(c) : Loses(c, S)
<1>1. /\ ret'.ok = TRUE /\ ret'.frames = RangePages(r)
      /\ inuse' = inuse \ FreedPages(r)
  BY FreeRangeWorks
<1>2. Calm
  BY <1>1, RangePagesType DEF Calm, KFreeRange, pmmFreeRsvdRange, IInv, TypeOK
<1>3. /\ r \in ranges[c] /\ UNCHANGED frames
      /\ ranges' = [ranges EXCEPT ![c] = @ \ {r}]
  BY <1>1 DEF KFreeRange
<1>4. IInv' /\ Loses(c, RangePages(r))
  BY <1>1, <1>2, <1>3, GiveRange
<1>5. RangePages(r) \in SUBSET Holds(c)
  BY <1>3 DEF Holds, RangesPages
<1> QED
  BY <1>4, <1>5

\* pmmAlloc that finds nothing, with or without returning.
LEMMA AllocFailsStep ==
  ASSUME IInv, KAllocFails
  PROVE  IInv' /\ \A c \in Clients : Holds(c)' = Holds(c)
<1> USE DEF KAllocFails, pmmAllocHangs, pmmAllocNone
<1>1. Calm
  <2>1. next' \in 0 .. NumPages
    <3>1. next' = first
      OBVIOUS
    <3>2. first \in 0 .. NumPages - 1 /\ NumPages \in Nat
      BY PMMAssumption DEF IInv, TypeOK, Pages
    <3> HIDE DEF KAllocFails
    <3> QED
      BY <3>1, <3>2
  <2>2. ret'.frames \in SUBSET Pages /\ ret'.ok \in BOOLEAN
    <3>1. CASE pmmAllocHangs
      BY <3>1 DEF IInv, TypeOK
    <3>2. CASE pmmAllocNone
      BY <3>2 DEF Returns
    <3> QED
      BY <3>1, <3>2
  <2> QED
    BY <2>1, <2>2 DEF Calm, pool
<1> QED
  BY <1>1, NoChange

\* Every call of the manager by a client preserves the invariant.
LEMMA NextIInv == IInv /\ [KNext]_kvars => IInv'
<1> SUFFICES ASSUME IInv, [KNext]_kvars PROVE IInv'
  OBVIOUS
<1>1. CASE KBoot
  BY <1>1, BootStep
<1>2. CASE KAllocFails
  BY <1>2, AllocFailsStep
<1>3. ASSUME NEW c \in Clients, KAllocAhead(c) \/ KAllocWrap(c) PROVE IInv'
  BY <1>3, AllocStep
<1>4. ASSUME NEW c \in Clients, NEW p \in Pages, KAllocRsvd(c, p) PROVE IInv'
  BY <1>4, AllocRsvdStep
<1>5. ASSUME NEW c \in Clients, NEW p \in Pages, KFree(c, p) \/ KFreeRsvd(c, p)
      PROVE  IInv'
  BY <1>5, FreeStep
<1>6. ASSUME NEW c \in Clients, NEW r \in RsvdRanges, KAllocRange(c, r) PROVE IInv'
  BY <1>6, AllocRangeStep
<1>7. ASSUME NEW c \in Clients, NEW r \in RsvdRanges, KFreeRange(c, r) PROVE IInv'
  BY <1>7, FreeRangeStep
<1>8. CASE UNCHANGED kvars
  <2> USE <1>8 DEF kvars, vars
  <2>1. TypeOK' /\ StatusConsistent' /\ HeldInUse' /\ Exclusive'
    BY DEF IInv, TypeOK, StatusConsistent, HeldInUse, Exclusive, Holds, RangesPages,
           RangePages
  <2>2. MappedFramesKept' /\ LeaksOnlyLastPages'
    BY DEF IInv, MappedFramesKept, LeaksOnlyLastPages, Held, Holds, Mapped, Initialised,
           RangesPages, RangePages, RsvdRanges, RangeOf, Reserved, LastPage
  <2>3. RangesValid' /\ BootClean' /\ NoMapNoFrames' /\ NullMapped'
    BY DEF IInv, RangesValid, BootClean, NoMapNoFrames, NullMapped, Initialised,
           physIsRsvdMemRange, RangeOf, Reserved
  <2> QED
    BY <2>1, <2>2, <2>3 DEF IInv
<1> QED
  BY <1>1, <1>2, <1>3, <1>4, <1>5, <1>6, <1>7, <1>8 DEF KNext

-----------------------------------------------------------------------------
(* Theorems.                                                               *)

\* The inductive invariant holds in every state of the manager and its clients.
THEOREM Invariance == KSpec => []IInv
<1>1. KInit => IInv
  BY InitIInv
<1>2. IInv /\ [KNext]_kvars => IInv'
  BY NextIInv
<1> QED
  BY <1>1, <1>2, PTL DEF KSpec

\* The state of the manager and of its clients is always of the declared
\* types, and only existing frames are available or in use.
THEOREM TypeCorrect == KSpec => [](TypeOK /\ StatusConsistent)
<1>1. IInv => TypeOK /\ StatusConsistent
  BY DEF IInv
<1> QED
  BY <1>1, Invariance, PTL

\* A frame has at most one holder, and what is held is marked in use: pmmAlloc,
\* pmmAllocRsvd and pmmAllocRsvdRange never give out a frame twice.
THEOREM ExclusiveOwnership == KSpec => [](HeldInUse /\ Exclusive)
<1>1. IInv => HeldInUse /\ Exclusive
  BY DEF IInv
<1> QED
  BY <1>1, Invariance, PTL

\* No call sequence gives a client a frame that a boot page table maps.
THEOREM MappedFramesSafe == KSpec => []MappedFramesKept
<1>1. IInv => MappedFramesKept
  BY DEF IInv
<1> QED
  BY <1>1, Invariance, PTL

\* Frame 0, whose address is pmmAlloc's failure value, is never free.
THEOREM NullSafe == KSpec => []NullNeverFree
<1>1. IInv => NullNeverFree
  BY NullTaken DEF NullNeverFree, Initialised
<1> QED
  BY <1>1, Invariance, PTL

\* The off-by-one of pmmFreeRsvdRange leaks the last frames of reserved ranges
\* and nothing else.
THEOREM LeakBounded == KSpec => []LeaksOnlyLastPages
<1>1. IInv => LeaksOnlyLastPages
  BY DEF IInv
<1> QED
  BY <1>1, Invariance, PTL

\* A client that gives back what it holds is never refused.
THEOREM FreesAreAccepted == KSpec => FreeSucceeds
<1>1. IInv /\ [KNext]_kvars =>
        [\A c \in Clients :
           /\ \A p \in Pages : KFree(c, p) \/ KFreeRsvd(c, p) => ret'.ok
           /\ \A r \in RsvdRanges : KFreeRange(c, r) => ret'.ok]_kvars
  BY FreeOneWorks, FreeRangeWorks
<1> QED
  BY <1>1, Invariance, PTL DEF KSpec, FreeSucceeds

\* Every step of the manager and its clients is a step of frame ownership: one
\* client takes frames nobody holds, or gives back frames it holds, or nothing
\* changes hands.
LEMMA OwnershipStep ==
  IInv /\ [KNext]_kvars => [Ownership!Next]_([c \in Clients |-> Holds(c)])
<1> SUFFICES ASSUME IInv, [KNext]_kvars
             PROVE  [Ownership!Next]_([c \in Clients |-> Holds(c)])
  OBVIOUS
<1> DEFINE holds == [c \in Clients |-> Holds(c)]
<1>1. ASSUME NEW c \in Clients, NEW S \in SUBSET (Pages \ inuse), Gains(c, S)
      PROVE  Ownership!Next
  <2>1. S \cap Ownership!Held = {}
    BY DEF Ownership!Held, IInv, HeldInUse
  <2>2. holds' = [holds EXCEPT ![c] = @ \cup S]
    BY <1>1 DEF Gains
  <2> QED
    BY <2>1, <2>2 DEF Ownership!Next, Ownership!Take
<1>2. ASSUME NEW c \in Clients, NEW S \in SUBSET Holds(c), Loses(c, S)
      PROVE  Ownership!Next
  <2>1. S \in SUBSET Pages
    BY DEF IInv, TypeOK, Holds, RangesPages, RangePages
  <2>2. holds' = [holds EXCEPT ![c] = @ \ S] /\ S \subseteq holds[c]
    BY <1>2 DEF Loses
  <2> QED
    BY <2>1, <2>2 DEF Ownership!Next, Ownership!Give
<1>3. ASSUME \A c \in Clients : Holds(c)' = Holds(c)
      PROVE  UNCHANGED holds
  BY <1>3
<1>4. CASE KBoot \/ KAllocFails
  BY <1>3, <1>4, BootStep, AllocFailsStep
<1>5. ASSUME NEW c \in Clients, KAllocAhead(c) \/ KAllocWrap(c)
      PROVE  Ownership!Next
  BY <1>1, <1>5, AllocStep
<1>6. ASSUME NEW c \in Clients, NEW p \in Pages, KAllocRsvd(c, p)
      PROVE  Ownership!Next
  BY <1>1, <1>6, AllocRsvdStep
<1>7. ASSUME NEW c \in Clients, NEW p \in Pages, KFree(c, p) \/ KFreeRsvd(c, p)
      PROVE  Ownership!Next
  BY <1>2, <1>7, FreeStep
<1>8. ASSUME NEW c \in Clients, NEW r \in RsvdRanges, KAllocRange(c, r)
      PROVE  Ownership!Next
  BY <1>1, <1>8, AllocRangeStep
<1>9. ASSUME NEW c \in Clients, NEW r \in RsvdRanges, KFreeRange(c, r)
      PROVE  Ownership!Next
  BY <1>2, <1>9, FreeRangeStep
<1>10. CASE UNCHANGED kvars
  BY <1>10 DEF kvars, vars, Holds, RangesPages, RangePages
<1> QED
  BY <1>4, <1>5, <1>6, <1>7, <1>8, <1>9, <1>10 DEF KNext

\* The physical memory manager implements frame ownership for its clients.
THEOREM ImplementsOwnership == KSpec => RefinesOwnership
<1>1. KInit => Ownership!Init
  BY DEF KInit, Ownership!Init, Holds, RangesPages
<1>2. IInv /\ [KNext]_kvars => [Ownership!Next]_([c \in Clients |-> Holds(c)])
  BY OwnershipStep
<1> QED
  BY <1>1, <1>2, Invariance, PTL DEF KSpec, RefinesOwnership, Ownership!Spec

-----------------------------------------------------------------------------
(***************************************************************************)
(* The memory map: initPMM makes of it what it says, and no usable frame   *)
(* leaks, for every map, page size, number of frames and set of clients.   *)
(* The first is about initPMM alone: avail, first and last never change    *)
(* afterwards (BootFacts).  The second adds the invariant above: what      *)
(* leaks is the last frame of a reserved range, and that frame holds a     *)
(* reserved byte.                                                          *)
(***************************************************************************)

(* Arithmetic of addresses and frames.                                     *)

LEMMA Sizes ==
  /\ PageSize \in Nat /\ PageSize > 0 /\ NumPages \in Nat /\ NumPages > 0
  /\ AddrSpace \in Nat /\ AddrSpace > 0
BY PMMAssumption DEF AddrSpace

LEMMA Division ==
  ASSUME NEW a \in Nat
  PROVE  /\ a \div PageSize \in Nat /\ a % PageSize \in 0 .. PageSize - 1
         /\ a = PageSize * (a \div PageSize) + (a % PageSize)
BY Sizes

\* The order of addresses is that of their frames.
LEMMA FrameOrder ==
  ASSUME NEW a \in Nat, NEW p \in Nat
  PROVE  /\ a < (p + 1) * PageSize => a \div PageSize <= p
         /\ p * PageSize <= a => p <= a \div PageSize
         /\ p <= a \div PageSize => p * PageSize <= a
         /\ a \div PageSize <= p => a < (p + 1) * PageSize
<1> DEFINE q == a \div PageSize
<1>1. q \in Nat /\ PageSize * q <= a /\ a < PageSize * q + PageSize
  BY Division, Sizes
<1>2. ASSUME q <= p PROVE PageSize * q <= PageSize * p
  BY <1>1, <1>2, Sizes
<1>3. ASSUME p <= q PROVE PageSize * p <= PageSize * q
  BY <1>1, <1>3, Sizes
<1>4. ASSUME p + 1 <= q PROVE PageSize * (p + 1) <= PageSize * q
  BY <1>1, <1>4, Sizes
<1>5. ASSUME q + 1 <= p PROVE PageSize * (q + 1) <= PageSize * p
  BY <1>1, <1>5, Sizes
<1>6. /\ p * PageSize = PageSize * p /\ (p + 1) * PageSize = PageSize * (p + 1)
      /\ PageSize * (p + 1) = PageSize * p + PageSize
      /\ PageSize * (q + 1) = PageSize * q + PageSize
      /\ PageSize * p \in Nat /\ PageSize * q \in Nat
  BY <1>1, Sizes
<1> HIDE DEF q
<1>7. /\ a < (p + 1) * PageSize => q <= p
      /\ p * PageSize <= a => p <= q
      /\ p <= q => p * PageSize <= a
      /\ q <= p => a < (p + 1) * PageSize
  <2>1. ASSUME a < (p + 1) * PageSize PROVE q <= p
    BY <2>1, <1>1, <1>4, <1>6, Sizes
  <2>2. ASSUME p * PageSize <= a PROVE p <= q
    BY <2>2, <1>1, <1>5, <1>6, Sizes
  <2>3. ASSUME p <= q PROVE p * PageSize <= a
    BY <2>3, <1>1, <1>3, <1>6, Sizes
  <2>4. ASSUME q <= p PROVE a < (p + 1) * PageSize
    BY <2>4, <1>1, <1>2, <1>6, Sizes
  <2> QED BY <2>1, <2>2, <2>3, <2>4
<1> QED BY <1>7 DEF q

LEMMA Multiple ==
  ASSUME NEW q \in Nat
  PROVE  q * PageSize \in Nat /\ (q * PageSize) \div PageSize = q
<1>1. /\ q * PageSize \in Nat /\ (q + 1) * PageSize = q * PageSize + PageSize
  BY Sizes
<1>2. q * PageSize < (q + 1) * PageSize
  BY <1>1, Sizes
<1>3. (q * PageSize) \div PageSize <= q /\ q <= (q * PageSize) \div PageSize
  BY <1>1, <1>2, FrameOrder
<1>4. (q * PageSize) \div PageSize \in Nat
  BY <1>1, Division
<1> QED BY <1>1, <1>3, <1>4

\* Aligning down gives the address of the frame.
LEMMA AlignDown ==
  ASSUME NEW a \in Nat
  PROVE  /\ PageAlignDown(a) = (a \div PageSize) * PageSize
         /\ AddressToPageOff(PageAlignDown(a)) = a \div PageSize
         /\ PageAlignDown(a) \in Nat /\ PageAlignDown(a) <= a
<1> DEFINE q == a \div PageSize
<1>1. q \in Nat /\ PageAlignDown(a) = PageSize * q /\ PageAlignDown(a) <= a
  BY Division, Sizes DEF PageAlignDown
<1> HIDE DEF q
<1>2. PageSize * q = q * PageSize
  BY <1>1, Sizes
<1>3. PageAlignDown(a) = q * PageSize
  BY <1>1, <1>2
<1>4. PageAlignDown(a) \in Nat /\ AddressToPageOff(PageAlignDown(a)) = q
  BY <1>1, <1>3, Multiple DEF AddressToPageOff
<1> QED BY <1>1, <1>3, <1>4 DEF q

\* An address of the address space is not cut.
LEMMA Uncut ==
  ASSUME NEW a \in Nat, a < AddrSpace PROVE Uint32(a) = a
BY Sizes DEF Uint32

LEMMA CutSmaller ==
  ASSUME NEW a \in Nat PROVE Uint32(a) \in Nat /\ Uint32(a) <= a
<1>1. a % AddrSpace \in 0 .. AddrSpace - 1
  BY Sizes
<1>2. CASE a < AddrSpace
  BY <1>2, Uncut
<1>3. CASE ~(a < AddrSpace)
  BY <1>1, <1>3, Sizes DEF Uint32
<1> QED BY <1>2, <1>3

\* Aligning up gives a frame that begins at or after the address, except in the
\* last frame, and the first such one.
LEMMA AlignUp ==
  ASSUME NEW a \in Nat, a < AddrSpace, NEW p \in Nat
  PROVE  LET up == AddressToPageOff(PageAlignUp(a)) IN
         /\ up \in Nat
         /\ a <= AddrSpace - PageSize => a <= up * PageSize
         /\ a <= p * PageSize => up <= p
<1> DEFINE q == a \div PageSize
           b == PageAlignDown(a) + PageSize
           up == AddressToPageOff(PageAlignUp(a))
<1>1. q \in Nat /\ PageAlignDown(a) = q * PageSize /\ q * PageSize \in Nat
      /\ a = PageSize * q + (a % PageSize) /\ a % PageSize \in 0 .. PageSize - 1
  BY Division, AlignDown, Multiple
<1>2. up = IF a % PageSize = 0 THEN q ELSE Uint32(b) \div PageSize
  BY DEF PageAlignUp, AddressToPageOff
<1> HIDE DEF q
<1>3. PageSize * q = q * PageSize /\ b = q * PageSize + PageSize
      /\ b = (q + 1) * PageSize /\ b \in Nat
  BY <1>1, Sizes
<1> HIDE DEF b, up
<1>4. CASE a % PageSize = 0
  <2>1. up = q /\ a = q * PageSize
    BY <1>1, <1>2, <1>3, <1>4
  <2>2. ASSUME a <= p * PageSize PROVE q <= p
    <3>1. /\ p * PageSize < (p + 1) * PageSize
          /\ p * PageSize \in Nat /\ (p + 1) * PageSize \in Nat
      BY Sizes
    <3>2. a < (p + 1) * PageSize
      BY <3>1, <2>2
    <3> QED BY <3>2, FrameOrder DEF q
  <2> QED BY <1>1, <2>1, <2>2 DEF up
<1>5. CASE a % PageSize # 0
  <2>1. up = Uint32(b) \div PageSize /\ Uint32(b) \in Nat /\ Uint32(b) <= b
    BY <1>2, <1>3, <1>5, CutSmaller
  <2>2. q * PageSize < a /\ a < b
    BY <1>1, <1>3, <1>5, Sizes
  <2>3. up \in Nat
    BY <2>1, Division
  <2>4. ASSUME a <= AddrSpace - PageSize PROVE a <= up * PageSize
    <3>1. b < AddrSpace
      BY <2>2, <2>4, <1>1, <1>3, Sizes
    <3>2. up = q + 1
      BY <3>1, <2>1, <1>1, <1>3, Uncut, Multiple
    <3> QED BY <3>2, <2>2, <1>3
  <2>5. ASSUME a <= p * PageSize PROVE up <= p
    <3>1. q < p
      <4>1. ASSUME p <= q PROVE FALSE
        <5>1. p * PageSize <= q * PageSize /\ p * PageSize \in Nat
          BY <4>1, <1>1, Sizes
        <5> QED BY <5>1, <2>2, <2>5, <1>1
      <4> QED BY <4>1, <1>1
    <3>2. (q + 2) * PageSize = b + PageSize /\ (q + 1) + 1 = q + 2
      BY <1>1, <1>3, Sizes
    <3>3. Uint32(b) < ((q + 1) + 1) * PageSize
      BY <2>1, <1>3, <3>2, Sizes
    <3>4. up <= q + 1
      BY <3>3, <2>1, <1>1, FrameOrder
    <3> QED BY <3>1, <3>4, <2>3, <1>1
  <2> QED BY <2>3, <2>4, <2>5 DEF up
<1> QED BY <1>4, <1>5 DEF up

-----------------------------------------------------------------------------
(* What a region's loop visits.                                            *)

LEMMA RegionType ==
  ASSUME NEW m \in Maps, NEW i \in DOMAIN m
  PROVE  m[i].base \in Nat /\ m[i].end \in Nat /\ m[i].type \in Nat /\ i \in Nat
<1>1. m \in Seq(Region)
  BY PMMAssumption
<1>2. m[i] \in Region /\ i \in Nat
  BY <1>1
<1> QED BY <1>2 DEF Region

\* A usable region that does not start over at frame 0 takes only frames that begin
\* in it.
LEMMA UsableBegins ==
  ASSUME NEW r, r.base \in Nat, r.end \in Nat, r.base <= AddrSpace - PageSize,
         r.base < AddrSpace, r.end < AddrSpace, Usable(r), NEW p \in Covered(r)
  PROVE  r.base <= p * PageSize /\ p * PageSize <= r.end
<1> DEFINE up == AddressToPageOff(PageAlignUp(r.base))
<1>1. p \in Nat /\ StartPage(r) <= p /\ p <= EndPage(r)
  BY Sizes DEF Covered, Pages
<1>2. StartPage(r) = up
  BY Uncut DEF StartPage
<1>3. EndPage(r) = r.end \div PageSize
  BY Uncut, AlignDown DEF EndPage
<1>4. up \in Nat /\ r.base <= up * PageSize
  BY AlignUp
<1> HIDE DEF up
<1>5. up * PageSize <= p * PageSize /\ up * PageSize \in Nat /\ p * PageSize \in Nat
  BY <1>1, <1>2, <1>4, Sizes
<1>6. p * PageSize <= r.end
  BY <1>1, <1>3, FrameOrder
<1> QED BY <1>4, <1>5, <1>6

\* It takes all the frames that lie in it.
LEMMA UsableTakes ==
  ASSUME NEW r, r.base \in Nat, r.end \in Nat, r.base < AddrSpace, r.end < AddrSpace,
         Usable(r), NEW p \in Pages, r.base <= p * PageSize, p * PageSize <= r.end
  PROVE  p \in Covered(r)
<1>1. p \in Nat
  BY Sizes DEF Pages
<1>2. StartPage(r) <= p
  BY <1>1, Uncut, AlignUp DEF StartPage
<1>3. p <= EndPage(r)
  BY <1>1, Uncut, AlignDown, FrameOrder DEF EndPage
<1> QED BY <1>2, <1>3 DEF Covered

\* The loop of a reserved region that ends below the last frame visits each frame
\* that holds a byte of it.
LEMMA ReservedTakes ==
  ASSUME NEW r, r.base \in Nat, r.end \in Nat, r.base <= r.end, r.end < AddrSpace,
         Reserved(r), EndsBelowLastFrame(r), NEW p \in Pages,
         r.base < (p + 1) * PageSize, p * PageSize <= r.end
  PROVE  p \in Covered(r)
<1> DEFINE up == AddressToPageOff(PageAlignUp(r.end))
<1>1. p \in Nat /\ r.base < AddrSpace /\ ~Usable(r)
  BY Sizes DEF Pages, Usable, Reserved
<1>2. StartPage(r) = r.base \div PageSize /\ EndPage(r) = up
  BY <1>1, Uncut, AlignDown DEF StartPage, EndPage
<1>3. StartPage(r) <= p
  BY <1>1, <1>2, FrameOrder
<1>4. up \in Nat /\ r.end <= up * PageSize
  BY AlignUp DEF EndsBelowLastFrame
<1> HIDE DEF up
<1>5. p <= up
  <2>1. ASSUME up + 1 <= p PROVE FALSE
    <3>1. (up + 1) * PageSize <= p * PageSize
      BY <2>1, <1>1, <1>4, Sizes
    <3>2. (up + 1) * PageSize = up * PageSize + PageSize /\ up * PageSize \in Nat
          /\ p * PageSize \in Nat
      BY <1>1, <1>4, Sizes
    <3> QED BY <3>1, <3>2, <1>4, Sizes
  <2> QED BY <2>1, <1>1, <1>4
<1> QED BY <1>2, <1>3, <1>5 DEF Covered

\* It visits none before its first byte's.
LEMMA ReservedLeaves ==
  ASSUME NEW r, r.base \in Nat, r.base < AddrSpace, Reserved(r), NEW p \in Covered(r)
  PROVE  p \in Nat /\ r.base < (p + 1) * PageSize
<1>1. p \in Nat /\ StartPage(r) <= p /\ ~Usable(r)
  BY Sizes DEF Covered, Pages, Usable, Reserved
<1>2. StartPage(r) = r.base \div PageSize
  BY <1>1, Uncut, AlignDown DEF StartPage
<1> QED BY <1>1, <1>2, FrameOrder

-----------------------------------------------------------------------------
(* What initPMM makes of a map.                                            *)

LEMMA WellFormedRegion ==
  ASSUME NEW m \in Maps, WellFormedMap(m), NEW i \in DOMAIN m
  PROVE  m[i].base <= m[i].end /\ m[i].base < AddrSpace /\ m[i].end < AddrSpace
BY RegionType, Sizes DEF WellFormedMap

\* No available frame holds a reserved byte: the region that made it available came
\* after the reserved one, and begins behind it, but takes only whole frames.
LEMMA ReservedKeptOut ==
  ASSUME NEW m \in Maps, WellFormedMap(m), UsableInSpace(m), NEW p \in MapAvail(m),
         NEW k \in DOMAIN m, Reserved(m[k]), EndsBelowLastFrame(m[k])
  PROVE  Bytes(m[k]) \cap FrameBytes(p) = {}
<1>1. PICK i \in DOMAIN m :
        /\ Usable(m[i]) /\ p \in Covered(m[i])
        /\ \A j \in DOMAIN m : (j > i /\ Reserved(m[j])) => p \notin Covered(m[j])
  BY DEF MapAvail
<1>2. p \in Pages /\ p \in Nat
  BY <1>1, Sizes DEF Covered, Pages
<1>3. /\ m[i].base \in Nat /\ m[i].end \in Nat /\ i \in Nat
      /\ m[k].base \in Nat /\ m[k].end \in Nat /\ k \in Nat
      /\ m[i].base < AddrSpace /\ m[i].end < AddrSpace /\ m[i].base <= AddrSpace - PageSize
      /\ m[k].base <= m[k].end /\ m[k].end < AddrSpace
  BY <1>1, RegionType, WellFormedRegion DEF UsableInSpace
<1>4. m[i].base <= p * PageSize /\ p * PageSize \in Nat
  BY <1>1, <1>2, <1>3, UsableBegins, Multiple
<1> SUFFICES ASSUME NEW x \in Bytes(m[k]), x \in FrameBytes(p) PROVE FALSE
  OBVIOUS
<1>5. x \in Int /\ m[k].base <= x /\ x <= m[k].end
  BY <1>3 DEF Bytes
<1>6. p * PageSize <= x /\ x < (p + 1) * PageSize /\ (p + 1) * PageSize \in Nat
  BY <1>2, <1>4, <1>5, Sizes DEF FrameBytes
<1>7. m[k].base < (p + 1) * PageSize /\ p * PageSize <= m[k].end
  BY <1>3, <1>4, <1>5, <1>6
<1>8. p \in Covered(m[k])
  BY <1>2, <1>3, <1>7, ReservedTakes
<1>9. k < i
  <2>1. ~(k > i)
    BY <1>1, <1>8
  <2>2. k # i
    BY <1>1 DEF Usable, Reserved
  <2> QED BY <2>1, <2>2, <1>3
<1>10. m[k].end < m[i].base
  BY <1>1, <1>9 DEF WellFormedMap
<1> QED BY <1>3, <1>4, <1>5, <1>6, <1>10

\* Every frame that lies in a usable region is available: no later reserved region
\* reaches back to it.
LEMMA UsableKept ==
  ASSUME NEW m \in Maps, WellFormedMap(m), NEW i \in DOMAIN m, Usable(m[i]),
         NEW p \in Pages, FrameBytes(p) \subseteq Bytes(m[i])
  PROVE  p \in MapAvail(m)
<1>1. p \in Nat /\ p * PageSize \in Nat /\ (p + 1) * PageSize = p * PageSize + PageSize
  BY Sizes DEF Pages
<1>2. /\ m[i].base \in Nat /\ m[i].end \in Nat /\ i \in Nat
      /\ m[i].base < AddrSpace /\ m[i].end < AddrSpace
  BY RegionType, WellFormedRegion
<1>3. p * PageSize \in Bytes(m[i]) /\ (p + 1) * PageSize - 1 \in Bytes(m[i])
  <2>1. p * PageSize \in FrameBytes(p) /\ (p + 1) * PageSize - 1 \in FrameBytes(p)
    BY <1>1, Sizes DEF FrameBytes
  <2> QED BY <2>1
<1>4. m[i].base <= p * PageSize /\ p * PageSize <= m[i].end
      /\ (p + 1) * PageSize <= m[i].end + 1
  BY <1>1, <1>2, <1>3, Sizes DEF Bytes
<1>5. p \in Covered(m[i])
  BY <1>2, <1>4, UsableTakes
<1>6. ASSUME NEW j \in DOMAIN m, j > i, Reserved(m[j]), p \in Covered(m[j]) PROVE FALSE
  <2>1. m[j].base \in Nat /\ m[j].base < AddrSpace
    BY RegionType, WellFormedRegion
  <2>2. m[j].base < (p + 1) * PageSize
    BY <1>6, <2>1, ReservedLeaves
  <2>3. i < j
    BY <1>6, <1>2, RegionType
  <2>4. m[i].end < m[j].base
    BY <2>3 DEF WellFormedMap
  <2> QED BY <2>1, <2>2, <2>4, <1>1, <1>2, <1>4, Sizes
<1> QED BY <1>5, <1>6 DEF MapAvail, MapExists

\* initPMM's bounds of the scan enclose what is available.
LEMMA ScanEncloses ==
  ASSUME NEW m \in Maps, NEW p \in MapAvail(m), NEW f \in Pages, NEW l \in Pages,
         IsLeast(f, UsableStarts(m) \cup {NumPages - 1}),
         IsGreatest(l, UsableEnds(m) \cup {0})
  PROVE  f <= p /\ p <= l
<1>1. PICK i \in DOMAIN m : Usable(m[i]) /\ p \in Covered(m[i])
  BY DEF MapAvail
<1>2. StartPage(m[i]) <= p /\ p <= EndPage(m[i]) /\ p \in Nat
  BY <1>1, Sizes DEF Covered, Pages
<1>3. f <= StartPage(m[i]) /\ EndPage(m[i]) <= l
  BY <1>1 DEF UsableStarts, UsableEnds, IsLeast, IsGreatest
<1>4. m[i].base \in Nat /\ m[i].end \in Nat
  BY RegionType
<1>5. /\ Uint32(m[i].base) \in Nat /\ Uint32(m[i].base) < AddrSpace
      /\ Uint32(m[i].end) \in Nat
  BY <1>4, AddressType, CutSmaller, Sizes
<1>6. StartPage(m[i]) \in Nat
  BY <1>1, <1>5, AlignUp DEF StartPage
<1>7. EndPage(m[i]) \in Nat
  BY <1>1, <1>5, AlignDown, Division DEF EndPage
<1> QED BY <1>2, <1>3, <1>6, <1>7, Sizes DEF Pages

-----------------------------------------------------------------------------
(* initPMM alone decides what is available and where pmmAlloc looks.       *)

BootFacts ==
  Initialised =>
    /\ avail = MapAvail(mmap)
    /\ IsLeast(first, UsableStarts(mmap) \cup {NumPages - 1})
    /\ IsGreatest(last, UsableEnds(mmap) \cup {0})

LEMMA BootFactsStep ==
  ASSUME BootFacts, [KNext]_kvars PROVE BootFacts'
<1> USE DEF BootFacts, Initialised
<1>1. CASE KBoot
  <2>1. CASE InitNoMap
    BY <2>1 DEF InitNoMap
  <2>2. CASE InitHangs
    BY <2>2 DEF InitHangs
  <2>3. CASE initPMM
    BY <2>3 DEF initPMM, IsLeast, IsGreatest, UsableStarts, UsableEnds
  <2> QED BY <1>1, <2>1, <2>2, <2>3 DEF KBoot, Booting
<1>2. ASSUME UNCHANGED pool, phase = "running" \/ UNCHANGED phase PROVE BootFacts'
  BY <1>2 DEF pool, IsLeast, IsGreatest, UsableStarts, UsableEnds
<1>3. CASE KAllocFails
  BY <1>2, <1>3 DEF KAllocFails, pmmAllocHangs, pmmAllocNone
<1>4. ASSUME NEW c \in Clients, KAllocAhead(c) \/ KAllocWrap(c) PROVE BootFacts'
  BY <1>2, <1>4 DEF KAllocAhead, KAllocWrap, pmmAllocAhead, pmmAllocWrap
<1>5. ASSUME NEW c \in Clients, NEW p \in Pages,
             KAllocRsvd(c, p) \/ KFree(c, p) \/ KFreeRsvd(c, p) PROVE BootFacts'
  BY <1>2, <1>5 DEF KAllocRsvd, KFree, KFreeRsvd, pmmAllocRsvd, pmmFree, pmmFreeRsvd, FreeOne
<1>6. ASSUME NEW c \in Clients, NEW r \in RsvdRanges, KAllocRange(c, r) \/ KFreeRange(c, r)
      PROVE  BootFacts'
  BY <1>2, <1>6 DEF KAllocRange, KFreeRange, pmmAllocRsvdRange, pmmFreeRsvdRange
<1>7. CASE UNCHANGED kvars
  BY <1>2, <1>7 DEF kvars, vars, pool
<1> QED BY <1>1, <1>3, <1>4, <1>5, <1>6, <1>7 DEF KNext

LEMMA MapKept ==
  ASSUME IInv, BootFacts PROVE AvailableAsMapped
<1>1. mmap \in Maps /\ first \in Pages /\ last \in Pages
  BY DEF IInv, TypeOK
<1>2. ReservedNeverAvailable
  BY <1>1, ReservedKeptOut DEF ReservedNeverAvailable, BootFacts
<1>3. UsableFramesKept
  BY <1>1, UsableKept DEF UsableFramesKept, BootFacts
<1>4. ScanCoversAvailable
  BY <1>1, ScanEncloses DEF ScanCoversAvailable, BootFacts
<1> QED BY <1>2, <1>3, <1>4 DEF AvailableAsMapped

\* A leaked frame is the last of a reserved range and holds the range's last byte.
LEMMA LeakIsReserved ==
  ASSUME IInv, ReservedNeverAvailable PROVE NoAvailableLeak
<1> SUFFICES ASSUME Initialised, WellFormedMap(mmap), UsableInSpace(mmap),
                    NEW p \in (avail \cap inuse) \ (Held \cup Mapped)
             PROVE  \E i \in DOMAIN mmap :
                      /\ Reserved(mmap[i]) /\ ~EndsBelowLastFrame(mmap[i])
                      /\ p = LastPage(RangeOf(mmap[i]))
  BY DEF NoAvailableLeak
<1>1. PICK i \in DOMAIN mmap : Reserved(mmap[i]) /\ p = LastPage(RangeOf(mmap[i]))
  BY DEF IInv, LeaksOnlyLastPages, RsvdRanges
<1>2. mmap \in Maps
  BY DEF IInv, TypeOK
<1>3. /\ mmap[i].base \in Nat /\ mmap[i].end \in Nat
      /\ mmap[i].base <= mmap[i].end /\ mmap[i].end < AddrSpace
  BY <1>2, RegionType, WellFormedRegion
<1>4. p = mmap[i].end \div PageSize /\ p \in Nat
  BY <1>1, <1>3, Uncut, Division DEF LastPage, RangeOf, AddressToPageOff
<1>5. p * PageSize <= mmap[i].end /\ mmap[i].end < (p + 1) * PageSize
      /\ p * PageSize \in Nat /\ (p + 1) * PageSize \in Nat
  BY <1>3, <1>4, FrameOrder, Multiple
<1>6. mmap[i].end \in Bytes(mmap[i]) \cap FrameBytes(p)
  BY <1>3, <1>5 DEF Bytes, FrameBytes
<1>7. ~EndsBelowLastFrame(mmap[i])
  BY <1>1, <1>6 DEF ReservedNeverAvailable
<1> QED BY <1>1, <1>7

-----------------------------------------------------------------------------
(* Theorems.                                                               *)

LEMMA BootInvariance == KSpec => []BootFacts
<1>1. KInit => BootFacts
  BY DEF KInit, Init, BootFacts, Initialised
<1>2. BootFacts /\ [KNext]_kvars => BootFacts'
  BY BootFactsStep
<1> QED BY <1>1, <1>2, PTL DEF KSpec

\* After initPMM, what is available is what the memory map says, at any time.
THEOREM MapRespected == KSpec => []AvailableAsMapped
<1> QED BY MapKept, Invariance, BootInvariance, PTL

\* No sequence of calls loses usable memory, but for the last frame of the address
\* space when it is shared with a reserved region.
THEOREM UsableNeverLeaks == KSpec => []NoAvailableLeak
<1>1. AvailableAsMapped => ReservedNeverAvailable
  BY DEF AvailableAsMapped
<1> QED BY <1>1, LeakIsReserved, Invariance, MapRespected, PTL
=============================================================================
