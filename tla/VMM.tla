-------------------------------- MODULE VMM --------------------------------
(***************************************************************************)
(* vmm.c: the index arithmetic of virtual addresses and a table of flags   *)
(* per page, of which only "kernel" is used, on top of the page directory. *)
(* An address is the number of its page: the offset is never looked at.    *)
(***************************************************************************)
EXTENDS PageDir

CONSTANT PerTable   \* pages of a page table: 1024, as many as there are tables

ASSUME VMMAssumption == PerTable \in Nat \ {0} /\ NumEntries <= PerTable

VARIABLE vmmPageTableProp   \* the pairs <<pte, pde>> whose flag says kernel

vmmvars == <<pdvars, vmmPageTableProp>>

VPages == 0 .. NumEntries * PerTable - 1

-----------------------------------------------------------------------------
(* Addresses and indices.                                                  *)

vmmPdePteValid(pde, pte) == pde \in Idx /\ pte < PerTable
\* MEM_ADDRESS_ERROR is no page.
AddrFromPdePte(pde, pte) ==
  IF vmmPdePteValid(pde, pte) THEN pde * PerTable + pte ELSE NumEntries * PerTable
PdeFromAddress(a) == (a \div PerTable) % NumEntries
\* The directory's divisor: this is the page directory's index again, not the place
\* in the table.
PteFromAddress(a) == a \div PerTable

-----------------------------------------------------------------------------
(* The flags.                                                              *)

\* So the addresses of one table have one flag.
FlagOf(a) == <<PteFromAddress(a), PdeFromAddress(a)>>

vmmIsKrnlMem(a) == FlagOf(a) \in vmmPageTableProp
vmmIsUserMem(a) == ~vmmIsKrnlMem(a)

vmmSetKrnlMem(a) ==
  /\ up
  /\ ret' = vmmIsUserMem(a)
  /\ vmmPageTableProp' = vmmPageTableProp \cup {FlagOf(a)}
  /\ UNCHANGED <<dirs, props, curDir, curProps, astray, up>>

vmmSetUserMem(a) ==
  /\ up
  /\ ret' = vmmIsKrnlMem(a)
  /\ vmmPageTableProp' = vmmPageTableProp \ {FlagOf(a)}
  /\ UNCHANGED <<dirs, props, curDir, curProps, astray, up>>

\* kernel_main calls it before anything else here; the tests call it again.  The
\* flags and the counters of VirtMemInfo, which nothing counts in, are zero.
initVMM ==
  /\ pgdirInitPgDir(Null, Null)
  /\ up' = ret'
  /\ UNCHANGED vmmPageTableProp

VMMInit == PDInit /\ vmmPageTableProp = {}

VMMCall == \E a \in VPages : vmmSetKrnlMem(a) \/ vmmSetUserMem(a)
=============================================================================
