----------------------------- MODULE MemoryMaps -----------------------------
(***************************************************************************)
(* Memory maps and boot page tables for the memory manager's models: an    *)
(* address space of eight frames of four bytes, addresses 0..31.           *)
(***************************************************************************)
EXTENDS Integers, Sequences

R(b, e, t) == [base |-> b, end |-> e, type |-> t]

\* As on QEMU: low memory that ends inside frame 1, a reserved range that
\* starts there, a hole, usable memory, and a reserved range at the top.
PCMap == <<R(0, 5, 1), R(6, 7, 2), R(16, 23, 1), R(24, 31, 2)>>
\* Reserved ranges in the middle of memory, one of one frame and one of two.
WideMap == <<R(0, 7, 1), R(8, 15, 2), R(16, 19, 3), R(20, 22, 2), R(24, 27, 1)>>
\* A usable region of less than a frame: first ends up after last.
TinyMap == <<R(1, 2, 1), R(9, 14, 2)>>
\* First usable frame is not frame 0: an unmapped frame to start over from.
HighMap == <<R(8, 19, 1), R(20, 23, 4), R(24, 27, 7)>>
NoMap == <<>>
\* A reserved region above 4 GiB, whose addresses are truncated to 32 bits.
BigMap == <<R(0, 15, 1), R(16, 19, 2), R(36, 43, 2)>>
RsvdFirstMap == <<R(0, 7, 2), R(8, 15, 1)>>
\* A usable and a reserved region meet inside the last frame.
TopMap == <<R(0, 7, 1), R(24, 29, 1), R(30, 31, 2)>>

ShownMaps == {PCMap, WideMap, TinyMap, HighMap, BigMap, NoMap, RsvdFirstMap, TopMap}

\* Slots: 0 and 1 identity mapped, 2 for the low slots, 3 kernel, 4 recursive.
MCPdes == 0 .. 4
MCLowPdes == {2}
MCBootMap == [d \in MCPdes |-> CASE d = 0 -> {0, 1} [] d = 1 -> {2, 3}
                                 [] d = 3 -> {1} [] d = 4 -> {4, 6} [] OTHER -> {}]

(* Every map of one usable region first and up to two more regions, sorted *)
(* or not, overlapping or not, over the addresses where alignment matters: *)
(* the first and last byte of a frame and the ones inside it.              *)
Cuts == {0, 3, 4, 6, 8, 11, 12, 31}
Spans == {s \in Cuts \X Cuts : s[1] < s[2]}
SmallRegions == {R(s[1], s[2], t) : s \in Spans, t \in 1 .. 4}
\* A region above the 32-bit address space, whose addresses are truncated.
HighRegion == R(32, 39, 1)
EveryMap ==
  {<<R(s[1], s[2], 1), x, y>> : s \in Spans, x \in SmallRegions,
                                y \in {R(24, 31, 2), R(12, 31, 1), R(14, 31, 1), R(29, 31, 1), HighRegion}}
   \cup {<<R(s[1], s[2], 1), x>> : s \in Spans, x \in SmallRegions}
MCMaps == ShownMaps \cup EveryMap
=============================================================================
