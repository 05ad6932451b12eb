---------------------------- MODULE KernelMemory ----------------------------
(***************************************************************************)
(* The physical memory manager together with the kernel code that uses it, *)
(* each client keeping to pmm.h: it frees with the matching call, once,    *)
(* exactly what a call gave it.  Client code that allocates (the VMM, the  *)
(* heap) is not in the repository yet, so the clients are modelled from    *)
(* pmm.h and from libtests/source/pmmtests.c, which calls the manager this *)
(* way.                                                                    *)
(***************************************************************************)
EXTENDS PMM

CONSTANT Clients

VARIABLES
  frames,   \* [Clients -> SUBSET Pages]: frames got one at a time
  ranges    \* [Clients -> SUBSET Ranges]: reserved ranges got whole

kvars == <<vars, frames, ranges>>

RangesPages(R) == UNION {RangePages(r) : r \in R}
Holds(c) == frames[c] \cup RangesPages(ranges[c])
Held == UNION {Holds(c) : c \in Clients}
Mapped == UNION {pt[d] : d \in Pdes}

KInit ==
  /\ Init
  /\ frames = [c \in Clients |-> {}]
  /\ ranges = [c \in Clients |-> {}]

(* The client owns what the call returned.                                 *)
GetsFrames(c) == frames' = [frames EXCEPT ![c] = @ \cup ret'.frames]

KBoot == Booting /\ UNCHANGED <<frames, ranges>>

KAllocAhead(c) == pmmAllocAhead /\ GetsFrames(c) /\ UNCHANGED ranges
KAllocWrap(c)  == pmmAllocWrap /\ GetsFrames(c) /\ UNCHANGED ranges
KAllocFails    == (pmmAllocHangs \/ pmmAllocNone) /\ UNCHANGED <<frames, ranges>>

KAllocRsvd(c, p) == pmmAllocRsvd(p) /\ GetsFrames(c) /\ UNCHANGED ranges

LosesFrames(c) == frames' = [frames EXCEPT ![c] = @ \ ret'.frames]

KFree(c, p) ==
  /\ p \in frames[c] /\ p \in avail
  /\ pmmFree(p) /\ LosesFrames(c) /\ UNCHANGED ranges
KFreeRsvd(c, p) ==
  /\ p \in frames[c] /\ p \notin avail
  /\ pmmFreeRsvd(p) /\ LosesFrames(c) /\ UNCHANGED ranges

KAllocRange(c, r) ==
  /\ pmmAllocRsvdRange(r)
  /\ ranges' = IF ret'.ok THEN [ranges EXCEPT ![c] = @ \cup {r}] ELSE ranges
  /\ UNCHANGED frames
KFreeRange(c, r) ==
  /\ r \in ranges[c]
  /\ pmmFreeRsvdRange(r)
  /\ ranges' = IF ret'.ok THEN [ranges EXCEPT ![c] = @ \ {r}] ELSE ranges
  /\ UNCHANGED frames

KNext ==
  \/ KBoot
  \/ KAllocFails
  \/ \E c \in Clients :
       \/ KAllocAhead(c) \/ KAllocWrap(c)
       \/ \E p \in Pages : KAllocRsvd(c, p) \/ KFree(c, p) \/ KFreeRsvd(c, p)
       \/ \E r \in RsvdRanges : KAllocRange(c, r) \/ KFreeRange(c, r)

KSpec == KInit /\ [][KNext]_kvars

-----------------------------------------------------------------------------
(* Invariants.                                                             *)

\* Types of the manager's state and of the clients'.
TypeOK ==
  /\ phase \in {"boot", "running", "hung"}
  /\ mmap \in Maps
  /\ exists \in SUBSET Pages /\ avail \in SUBSET Pages /\ inuse \in SUBSET Pages
  /\ first \in Pages /\ last \in Pages /\ next \in 0 .. NumPages
  /\ pt \in [Pdes -> SUBSET Pages]
  /\ ret.frames \in SUBSET Pages /\ ret.ok \in BOOLEAN
  /\ frames \in [Clients -> SUBSET Pages]
  /\ ranges \in [Clients -> SUBSET Ranges]

\* Only frames that exist are available or in use: pmmSetInUse refuses the
\* others, and the map loop sets both bits together.
StatusConsistent == avail \subseteq exists /\ inuse \subseteq exists

\* What a client holds is marked in use, so that no other call can take it.
HeldInUse == \A c \in Clients : Holds(c) \subseteq inuse

\* No frame is in two hands: not two clients', not twice the same client's
\* through a single frame and a range, or through two overlapping ranges.
Exclusive ==
  /\ \A c, d \in Clients : c # d => Holds(c) \cap Holds(d) = {}
  /\ \A c \in Clients : frames[c] \cap RangesPages(ranges[c]) = {}
  /\ \A c \in Clients : \A r, s \in ranges[c] :
       r # s => RangePages(r) \cap RangePages(s) = {}

\* A frame that a page table maps stays in use and belongs to no client, so
\* nobody is ever given memory the kernel runs from.
MappedFramesKept ==
  Initialised => Mapped \subseteq inuse /\ Mapped \cap Held = {}

\* On a map without overlaps every available frame in use is accounted for: some
\* client holds it, or a page table maps it.  No call sequence loses usable memory,
\* except the last frame of the address space when a reserved region ends in it:
\* that frame was not taken from the usable region before (PMM.Covered), and
\* pmmFreeRsvdRange keeps it.
NoAvailableLeak ==
  Initialised /\ WellFormedMap(mmap) /\ UsableInSpace(mmap) =>
    \A p \in (avail \cap inuse) \ (Held \cup Mapped) :
      \E i \in DOMAIN mmap :
        /\ Reserved(mmap[i]) /\ ~EndsBelowLastFrame(mmap[i])
        /\ p = LastPage(RangeOf(mmap[i]))

\* Reserved frames leak in one place only: the last frame of a range.
LeaksOnlyLastPages ==
  Initialised =>
    \A p \in inuse \ (Held \cup Mapped) : \E r \in RsvdRanges : p = LastPage(r)

\* Address 0 is pmmAlloc's failure value, so frame 0 must never be handed out:
\* it is mapped by PAGETABLE000 and never given back.
NullNeverFree == Initialised /\ 0 \in exists => 0 \in inuse

-----------------------------------------------------------------------------
(* Action properties.                                                      *)

\* A client that gives back what it holds is never refused.
FreeSucceeds ==
  [][\A c \in Clients :
       /\ \A p \in Pages : KFree(c, p) \/ KFreeRsvd(c, p) => ret'.ok
       /\ \A r \in RsvdRanges : KFreeRange(c, r) => ret'.ok]_kvars

(* The clients' view is an implementation of frame ownership.              *)
Ownership == INSTANCE FrameOwnership
               WITH Frames <- Pages, holds <- [c \in Clients |-> Holds(c)]
RefinesOwnership == Ownership!Spec
=============================================================================
