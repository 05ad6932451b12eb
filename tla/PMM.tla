-------------------------------- MODULE PMM --------------------------------
(***************************************************************************)
(* The physical memory manager, libkrnl/source/pmm.c.                      *)
(*                                                                         *)
(* The status byte kept for each frame (EXISTS, AVAILABLE, IN_USE) is      *)
(* three sets of frames.  The boot page tables, which initPMM walks, trims *)
(* and marks in use, are the frames each page-directory slot maps.  Every  *)
(* operation is one action: nothing else touches this state, and no        *)
(* interrupt handler calls the PMM.  `ret' is what the last call returned  *)
(* to its caller.                                                          *)
(*                                                                         *)
(* pmmAlloc scans with a loop that, on one path, never advances: a call    *)
(* that enters it never returns, which is phase "hung".                    *)
(***************************************************************************)
EXTENDS Integers, Sequences, FiniteSets

CONSTANTS
  NumPages,     \* frames of the address space (0x100000)
  PageSize,     \* bytes of a frame (0x1000)
  Maps,         \* the memory maps the boot loader may pass
  VideoPages,   \* frames physProcessVideoMemory declares (0xA8..0xBF)
  Pdes,         \* page-directory slots
  LowPdes,      \* slots 2..766, which initPMM empties
  BootMap       \* [Pdes -> SUBSET frames]: what boot.S mapped

Pages     == 0 .. NumPages - 1
AddrSpace == NumPages * PageSize

\* A memory-map entry as multiboot.c stores it: 64-bit addresses, end inclusive.
\* Types: 1 available, 2 reserved, 3 ACPI reclaimable, 4 defective, else unknown.
Region == [base : Nat, end : Nat, type : Nat]

ASSUME PMMAssumption ==
  /\ NumPages \in Nat \ {0}
  /\ PageSize \in Nat \ {0}
  /\ Maps \subseteq Seq(Region)
  /\ VideoPages \subseteq Pages
  /\ {0, 1} \subseteq Pdes
  /\ LowPdes \subseteq Pdes \ {0, 1}
  /\ BootMap \in [Pdes -> SUBSET Pages]

VARIABLES
  phase,    \* "boot", "running", or "hung" in a loop that never ends
  mmap,     \* multiboot_info.mmap
  exists,   \* frames with PHYSICAL_MEMORY_EXISTS
  avail,    \* ... and PHYSICAL_MEMORY_AVAILABLE (pmmMemAvail)
  inuse,    \* ... and PHYSICAL_MEMORY_IN_USE (pmmMemInUse)
  first,    \* firstPhysPageOff
  last,     \* lastPhysPageOff
  next,     \* nextPhysPageOff
  pt,       \* frames mapped through each page-directory slot
  ret       \* [op, ok, frames]: last call, its result, frames it gave or took

pool == <<exists, avail, first, last, pt, mmap>>
vars == <<phase, mmap, exists, avail, inuse, first, last, next, pt, ret>>

Returns(op, ok, frames) == ret' = [op |-> op, ok |-> ok, frames |-> frames]

-----------------------------------------------------------------------------
(* Addresses and frames.                                                   *)

Uint32(a)          == a % AddrSpace
AddressToPageOff(a) == a \div PageSize
PageAlignDown(a)   == a - (a % PageSize)

\* The addition is made in 32 bits: the last page of the address space aligns
\* up to address 0.
PageAlignUp(a) ==
  IF a % PageSize = 0 THEN a ELSE Uint32(PageAlignDown(a) + PageSize)

Usable(r)   == r.type \in {1, 3}
Reserved(r) == r.type = 2

\* Fault: the partial first frame of a usable region is taken too.
StartPage_Down(r) == AddressToPageOff(PageAlignDown(Uint32(r.base)))
StartPage(r) ==
  AddressToPageOff(IF Usable(r) THEN PageAlignUp(Uint32(r.base))
                                ELSE PageAlignDown(Uint32(r.base)))
EndPage(r) ==
  AddressToPageOff(IF Usable(r) THEN PageAlignDown(Uint32(r.end))
                                ELSE PageAlignUp(Uint32(r.end)))

\* The frames a region's loop visits: both ends included, none for the types
\* that are skipped.
Covered(r) ==
  IF Usable(r) \/ Reserved(r)
  THEN {p \in Pages : StartPage(r) <= p /\ p <= EndPage(r)}
  ELSE {}

MapExists(m) == UNION {Covered(m[i]) : i \in DOMAIN m}

\* The last region to cover a frame decides whether it is available.
MapAvail(m) ==
  {p \in MapExists(m) :
     \E i \in DOMAIN m :
       /\ Usable(m[i]) /\ p \in Covered(m[i])
       /\ \A j \in DOMAIN m : (j > i /\ Reserved(m[j])) => p \notin Covered(m[j])}

UsableStarts(m) == {StartPage(m[i]) : i \in {k \in DOMAIN m : Usable(m[k])}}
UsableEnds(m)   == {EndPage(m[i])   : i \in {k \in DOMAIN m : Usable(m[k])}}

IsLeast(x, S)    == x \in S /\ \A y \in S : x <= y
IsGreatest(x, S) == x \in S /\ \A y \in S : y <= x

-----------------------------------------------------------------------------
(* initPMM.                                                                *)

Init ==
  /\ phase = "boot"
  /\ mmap \in Maps
  /\ exists = {} /\ avail = {} /\ inuse = {}
  /\ first = 0 /\ last = 0 /\ next = 0
  /\ pt = BootMap
  /\ ret = [op |-> "boot", ok |-> TRUE, frames |-> {}]

\* initPageTables and clearUnneededPTEs: slot 0 maps frame 0 alone, slot 1 and
\* the low slots are emptied, entries of frames that do not exist are dropped.
\* The page tables themselves lie in the kernel's image, in frames that exist.
TrimmedTables(ex) ==
  [d \in Pdes |-> IF d = 0 THEN {0} \cap ex
                  ELSE IF d \in {1} \cup LowPdes THEN {}
                  ELSE pt[d] \cap ex]

\* No memory map: initPMM returns before it touches anything, and kernel_main
\* goes on regardless (the abort is commented out).
InitNoMap ==
  /\ phase = "boot" /\ mmap = <<>>
  /\ phase' = "running"
  /\ Returns("initPMM", FALSE, {})
  /\ UNCHANGED <<mmap, exists, avail, inuse, first, last, next, pt>>

\* The search for the first available region does not advance: it ends only
\* if region 0 is available.
InitHangs ==
  /\ phase = "boot" /\ mmap # <<>> /\ mmap[1].type # 1
  /\ phase' = "hung"
  /\ UNCHANGED <<mmap, exists, avail, inuse, first, last, next, pt, ret>>

\* Fault: frames mapped at boot are not marked in use.
MarkMapped_Skip(ex) == {}
\* pmmSetInUsePhysicalMemory: every frame a page table still maps is in use.
MarkMapped(ex) == ex \cap (UNION {TrimmedTables(ex)[d] : d \in Pdes})

initPMM ==
  /\ phase = "boot" /\ mmap # <<>> /\ mmap[1].type = 1
  /\ phase' = "running"
  /\ exists' = MapExists(mmap) \cup VideoPages
  /\ avail'  = MapAvail(mmap)
  /\ pt'     = TrimmedTables(exists')
  /\ inuse'  = MarkMapped(exists')
  /\ \E p \in Pages : first' = p /\ IsLeast(p, UsableStarts(mmap) \cup {NumPages - 1})
  /\ \E p \in Pages : last' = p /\ IsGreatest(p, UsableEnds(mmap) \cup {0})
  /\ next'   = first'
  /\ Returns("initPMM", TRUE, {})
  /\ UNCHANGED mmap

-----------------------------------------------------------------------------
(* Single frames.  A frame handed out at address 0 reads as a failure.     *)

Free  == avail \ inuse
Rsvd  == exists \ avail
\* The frames physGetNextAvailPageOff's first loop can still find.
Ahead == {p \in Free : next <= p /\ p <= last}

HandOut(op, p) ==
  /\ inuse' = inuse \cup {p}
  /\ IF p = 0 THEN Returns(op, FALSE, {}) ELSE Returns(op, TRUE, {p})

\* Fault: frames already in use are handed out again.
pmmAllocAhead_Again ==
  /\ phase = "running"
  /\ \E p \in avail : /\ next <= p /\ p <= last /\ HandOut("pmmAlloc", p)
                      /\ next' = p + 1
  /\ UNCHANGED <<pool, phase>>
\* The first loop finds a frame at or after next.
pmmAllocAhead ==
  /\ phase = "running"
  /\ \E p \in Ahead : /\ IsLeast(p, Ahead) /\ HandOut("pmmAlloc", p)
                      /\ next' = p + 1
  /\ UNCHANGED <<pool, phase>>

\* The second loop starts over at first and finds it free.
pmmAllocWrap ==
  /\ phase = "running" /\ Ahead = {} /\ first <= last /\ first \in Free
  /\ HandOut("pmmAlloc", first)
  /\ next' = first + 1
  /\ UNCHANGED <<pool, phase>>

\* The second loop never increments nextPhysPageOff: if first is taken it
\* spins there for ever.
pmmAllocHangs ==
  /\ phase = "running" /\ Ahead = {} /\ first <= last /\ first \notin Free
  /\ phase' = "hung" /\ next' = first
  /\ UNCHANGED <<pool, inuse, ret>>

\* Neither loop runs: MEM_PAGE_OFFSET_ERROR, a null address.
pmmAllocNone ==
  /\ phase = "running" /\ Ahead = {} /\ first > last
  /\ next' = first
  /\ Returns("pmmAlloc", FALSE, {})
  /\ UNCHANGED <<pool, phase, inuse>>

\* Fault: the frame is reported free but its status byte is not cleared.
FreeOne_Keeps(op, p, kind) ==
  /\ phase = "running"
  /\ IF p # 0 /\ p \in inuse \cap kind
     THEN Returns(op, TRUE, {p})
     ELSE Returns(op, FALSE, {})
  /\ UNCHANGED <<pool, phase, inuse, next>>
\* Both frees refuse address 0, a frame not in use and one of the other kind.
FreeOne(op, p, kind) ==
  /\ phase = "running"
  /\ IF p # 0 /\ p \in inuse \cap kind
     THEN inuse' = inuse \ {p} /\ Returns(op, TRUE, {p})
     ELSE Returns(op, FALSE, {}) /\ UNCHANGED inuse
  /\ UNCHANGED <<pool, phase, next>>

pmmFree(p)     == FreeOne("pmmFree", p, avail)
pmmFreeRsvd(p) == FreeOne("pmmFreeRsvd", p, Rsvd)

pmmAllocRsvd(p) ==
  /\ phase = "running"
  /\ IF p \in Rsvd \ inuse
     THEN HandOut("pmmAllocRsvd", p)
     ELSE Returns("pmmAllocRsvd", FALSE, {}) /\ UNCHANGED inuse
  /\ UNCHANGED <<pool, phase, next>>

-----------------------------------------------------------------------------
(* Reserved ranges.                                                        *)

RangeOf(r)   == [startaddr |-> Uint32(r.base), endaddr |-> Uint32(r.end)]
MapRanges(m) == {RangeOf(m[i]) : i \in DOMAIN m}
Ranges       == [startaddr : 0 .. AddrSpace - 1, endaddr : 0 .. AddrSpace - 1]

\* The first map entry with the range's addresses decides.
physIsRsvdMemRange(range) ==
  \E i \in DOMAIN mmap :
    /\ RangeOf(mmap[i]) = range /\ Reserved(mmap[i])
    /\ \A j \in DOMAIN mmap : j < i => RangeOf(mmap[j]) # range

\* pmmGetRsvdMemRange(0 .. pmmNumRsvdMemRanges()-1): what callers can ask for.
RsvdRanges == {RangeOf(mmap[i]) : i \in {k \in DOMAIN mmap : Reserved(mmap[k])}}

RangePages(range) ==
  {p \in Pages : /\ AddressToPageOff(range.startaddr) <= p
                 /\ p <= AddressToPageOff(range.endaddr)}
LastPage(range) == AddressToPageOff(range.endaddr)

\* Fault: the range is taken without looking whether its frames are in use.
pmmAllocRsvdRange_Blind(range) ==
  /\ phase = "running"
  /\ IF physIsRsvdMemRange(range) /\ RangePages(range) \subseteq exists
     THEN /\ inuse' = inuse \cup RangePages(range)
          /\ Returns("pmmAllocRsvdRange", TRUE, RangePages(range))
     ELSE Returns("pmmAllocRsvdRange", FALSE, {}) /\ UNCHANGED inuse
  /\ UNCHANGED <<pool, phase, next>>
\* A frame that does not exist makes pmmSetInUse fail; the frames set before
\* it are cleared again, so a failed call leaves no trace.
pmmAllocRsvdRange(range) ==
  /\ phase = "running"
  /\ IF /\ physIsRsvdMemRange(range)
        /\ RangePages(range) \cap inuse = {}
        /\ RangePages(range) \subseteq exists
     THEN /\ inuse' = inuse \cup RangePages(range)
          /\ Returns("pmmAllocRsvdRange", TRUE, RangePages(range))
     ELSE Returns("pmmAllocRsvdRange", FALSE, {}) /\ UNCHANGED inuse
  /\ UNCHANGED <<pool, phase, next>>

\* Fault: the loop starts after the range's first frame, too.
FreedPages_SkipFirst(range) ==
  RangePages(range) \ {AddressToPageOff(range.startaddr), LastPage(range)}
\* The loop stops before the range's last frame.
FreedPages(range) == RangePages(range) \ {LastPage(range)}

\* Fault: the undo code runs although every frame was cleared.
pmmFreeRsvdRange_Undo(range) ==
  /\ phase = "running"
  /\ inuse' = inuse \ (FreedPages(range) \cup {0})
  /\ Returns("pmmFreeRsvdRange", physIsRsvdMemRange(range), RangePages(range))
  /\ UNCHANGED <<pool, phase, next>>
\* The frames are cleared in order.  At the first one that is not in use the
\* undo loop clears frame 0 and returns false; at frame 0 itself the undo loop
\* is empty and the walk goes on.
pmmFreeRsvdRange(range) ==
  /\ phase = "running"
  /\ LET stuck == FreedPages(range) \ (inuse \cup {0})
         passed == {p \in FreedPages(range) : \A q \in stuck : p < q}
     IN  IF ~physIsRsvdMemRange(range)
         THEN Returns("pmmFreeRsvdRange", FALSE, {}) /\ UNCHANGED inuse
         ELSE IF stuck = {}
         THEN /\ inuse' = inuse \ FreedPages(range)
              /\ Returns("pmmFreeRsvdRange", TRUE, RangePages(range))
         ELSE /\ inuse' = inuse \ (passed \cup {0})
              /\ Returns("pmmFreeRsvdRange", FALSE, {})
  /\ UNCHANGED <<pool, phase, next>>

-----------------------------------------------------------------------------
(* The manager called by anyone, with any frame and any range of the map.  *)

Booting  == InitNoMap \/ InitHangs \/ initPMM
pmmAlloc == pmmAllocAhead \/ pmmAllocWrap \/ pmmAllocHangs \/ pmmAllocNone

-----------------------------------------------------------------------------
(* What the memory map promises, for maps as BIOSes report them: sorted by *)
(* address, without overlap, below 4 GiB.                                  *)

WellFormedMap(m) ==
  /\ \A i \in DOMAIN m : m[i].base <= m[i].end /\ m[i].end < AddrSpace
  /\ \A i, j \in DOMAIN m : i < j => m[i].end < m[j].base

FrameBytes(p) == p * PageSize .. (p + 1) * PageSize - 1
Bytes(r)      == r.base .. r.end

Initialised == phase = "running" /\ mmap # <<>>

\* The end of the region aligns up without leaving the 32-bit address space.
EndsBelowLastFrame(r) == r.end <= AddrSpace - PageSize

\* So do the starts of the usable regions; one that begins inside the last frame
\* would start over at frame 0.
UsableInSpace(m) ==
  \A i \in DOMAIN m : Usable(m[i]) => m[i].base <= AddrSpace - PageSize

\* No frame that holds a reserved byte is available to pmmAlloc, although the
\* last frame of a usable region is taken even if the region ends inside it.
\* A reserved region that ends in the last frame is the exception: its loop
\* does not run, and pmmAllocRsvdRange refuses its range.
ReservedNeverAvailable ==
  Initialised /\ WellFormedMap(mmap) /\ UsableInSpace(mmap) =>
    \A p \in avail : \A i \in DOMAIN mmap :
      Reserved(mmap[i]) /\ EndsBelowLastFrame(mmap[i]) =>
        Bytes(mmap[i]) \cap FrameBytes(p) = {}

\* No usable frame is lost, although the loop for a reserved region runs one
\* frame past it: a later usable region takes the frame back.
UsableFramesKept ==
  Initialised /\ WellFormedMap(mmap) =>
    \A i \in DOMAIN mmap : Usable(mmap[i]) =>
      {p \in Pages : FrameBytes(p) \subseteq Bytes(mmap[i])} \subseteq avail

\* The scan of pmmAlloc runs over all the available frames.
ScanCoversAvailable ==
  Initialised => \A p \in avail : first <= p /\ p <= last

\* After initPMM, what is available is what the memory map says (pmm.c:177-285): no
\* reserved byte, every usable frame, and all of it where pmmAlloc looks.
AvailableAsMapped == ReservedNeverAvailable /\ UsableFramesKept /\ ScanCoversAvailable

-----------------------------------------------------------------------------
(* What the comments of pmm.c and pmm.h say of the operations.             *)

\* pmm.c: "it wasn't from next to last, so check from start": a call that finds
\* no frame ahead finds one behind.
HangsOnlyWhenFull == phase = "hung" => Free = {}
=============================================================================
