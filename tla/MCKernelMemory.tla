--------------------------- MODULE MCKernelMemory ---------------------------
(***************************************************************************)
(* KernelMemory with the maps and tables of MemoryMaps: initialised from   *)
(* every small map, and run on from eight of them.                         *)
(***************************************************************************)
EXTENDS KernelMemory, MemoryMaps

MCNext == KBoot \/ (mmap \in ShownMaps /\ KNext)
MCSpec == KInit /\ [][MCNext]_kvars
=============================================================================
