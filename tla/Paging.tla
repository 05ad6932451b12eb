------------------------------- MODULE Paging -------------------------------
(***************************************************************************)
(* kernel_main's part in paging: initVMM, the tests of vmmtests.c, and     *)
(* then whoever calls pgdir.c and vmm.c.  Every test that changes          *)
(* something does it to entry 0 of the current directory.                  *)
(***************************************************************************)
EXTENDS VMM, Sequences

VARIABLES
  tested,           \* "no", "skipped", or what vmmtests has found so far
  at                \* <<chain, call>> the tests come to next, or Idle

pvars == <<vmmvars, tested, at>>

Idle == <<0, 0>>

-----------------------------------------------------------------------------
(* vmmtests.c.                                                             *)

Top == NumEntries - 1

\* The addresses and indices; the last index of a table is expected of the last
\* address, which is also what the directory's divisor gives.
AddressTests ==
  /\ AddrFromPdePte(NumEntries, 0) = NumEntries * PerTable
  /\ AddrFromPdePte(0, PerTable) = NumEntries * PerTable
  /\ AddrFromPdePte(0, 0) = 0
  /\ AddrFromPdePte(Top, Top) = Top * PerTable + Top
  /\ PdeFromAddress(0) = 0
  /\ PdeFromAddress(FirstKernel * PerTable) = FirstKernel
  /\ PdeFromAddress(NumEntries * PerTable - 1) = Top
  /\ PteFromAddress(0) = 0
  /\ PteFromAddress(NumEntries * PerTable - 1) = Top
  /\ ~pgdirIsValidIdx(NumEntries) /\ pgdirIsValidIdx(0) /\ pgdirIsValidIdx(Top)

\* One call on entry 0.
Call(m, name) ==
  CASE name = "SetGlobal" -> pgdirSetGlobal(m, 0)
    [] name = "ClearGlobal" -> pgdirClearGlobal(m, 0)
    [] name = "IsGlobal" -> Answer(m, pgdirIsGlobal(m, 0))
    [] name = "GlobalMemOn" -> pgdirChgGlobalMem(m, 0, TRUE)
    [] name = "GlobalMemOff" -> pgdirChgGlobalMem(m, 0, FALSE)
    [] name = "IsGlobalMem" -> Answer(m, pgdirIsGlobalMem(m, 0))
    [] name = "Set4M" -> pgdirSet4M(m, 0)
    [] name = "Clear4M" -> pgdirClear4M(m, 0)
    [] name = "Is4M" -> Answer(m, pgdirIs4M(m, 0))
    [] name = "4MMemOn" -> pgdirChg4MMem(m, 0, TRUE)
    [] name = "4MMemOff" -> pgdirChg4MMem(m, 0, FALSE)
    [] name = "Is4MMem" -> Answer(m, pgdirIs4MMem(m, 0))
    [] name = "SetKernelPage" -> pgdirSetKernelPage(m, 0)
    [] name = "SetUserPage" -> pgdirSetUserPage(m, 0)
    [] name = "IsKernelPage" -> Answer(m, pgdirIsKernelPage(m, 0))
    [] name = "IsUserPage" -> Answer(m, pgdirIsUserPage(m, 0))

\* A test is a chain of calls with the answers expected; the rest of a chain is
\* skipped when one disappoints.
OnOff(on, is, off) ==
  <<<<on, TRUE>>, <<is, TRUE>>, <<off, TRUE>>, <<is, FALSE>>>>

Chains ==
  << << <<"IsGlobal", FALSE>> >>, OnOff("SetGlobal", "IsGlobal", "ClearGlobal"),
     << <<"IsGlobalMem", FALSE>> >>, OnOff("GlobalMemOn", "IsGlobalMem", "GlobalMemOff"),
     << <<"Is4M", FALSE>> >>, OnOff("Set4M", "Is4M", "Clear4M"),
     << <<"Is4MMem", FALSE>> >>, OnOff("4MMemOn", "Is4MMem", "4MMemOff"),
     << <<"IsUserPage", FALSE>>, <<"SetKernelPage", TRUE>>, <<"IsKernelPage", TRUE>>,
        <<"SetUserPage", TRUE>> >>,
     << <<"IsKernelPage", FALSE>> >> >>

\* What the tests find off, apart from the chains, on a fresh array.
FlagTests(m) ==
  /\ pgdirSyncAttr(m, FALSE).ret
  /\ ~pgdirIsPAT(m, 0) /\ ~pgdirIsPATMem(m, 0)
  /\ ~pgdirIsCacheDisabled(m, 0) /\ ~pgdirIsCacheDisabledMem(m, 0)
  /\ ~pgdirIsWriteThru(m, 0) /\ ~pgdirIsWriteThruMem(m, 0)

\* The directory is compared, initVMM called again, and the flags tested.
vmmtests ==
  /\ up /\ tested = "no"
  /\ initVMM
  /\ tested' = IF AddressTests /\ pgdirSyncAttr(Cur, FALSE).ret /\ FlagTests(Cur') THEN "passed"
               ELSE "failed"
  /\ at' = <<1, 1>>

\* The next call of the chains.
TestCall ==
  LET chain == Chains[at[1]]
      o == Call(Cur, chain[at[2]][1])
      asExpected == o.ret = chain[at[2]][2]
  IN  /\ at # Idle
      /\ Do(o)
      /\ tested' = IF asExpected THEN tested ELSE "failed"
      /\ at' = IF asExpected /\ at[2] < Len(chain) THEN <<at[1], at[2] + 1>>
               ELSE IF at[1] < Len(Chains) THEN <<at[1] + 1, 1>> ELSE Idle
      /\ UNCHANGED vmmPageTableProp

-----------------------------------------------------------------------------
(* Start-up, then calls.                                                   *)

PInit == VMMInit /\ tested = "no" /\ at = Idle

\* kernel.c: initVMM, or abort.
Boot == ~up /\ initVMM /\ UNCHANGED <<tested, at>>

\* Only a kernel built with VMM_TESTS runs them, before anyone else calls.
Untested == up /\ tested = "no" /\ tested' = "skipped" /\ UNCHANGED <<vmmvars, at>>

Used == up /\ tested # "no" /\ at = Idle /\ UNCHANGED <<tested, at>>

\* Calls about the given attributes; "flags" stands for vmm.c's.
Calls(topics) ==
  \/ initVMM
  \/ PDCall(topics \ {"flags"}) /\ UNCHANGED vmmPageTableProp
  \/ "flags" \in topics /\ VMMCall

PNext(topics) == Boot \/ vmmtests \/ TestCall \/ Untested \/ (Used /\ Calls(topics))

Spec == PInit /\ [][PNext(Topics \cup {"flags"})]_pvars

-----------------------------------------------------------------------------
(* Properties.                                                             *)

\* Directories, arrays and flags have their types; the two pointers go together.
PTypeOK ==
  /\ dirs \in [Spaces -> [Idx -> Entry]]
  /\ props \in [Spaces -> [Idx -> SUBSET Attrs]]
  /\ curDir \in Spaces /\ curProps = curDir
  /\ astray \in BOOLEAN /\ up \in BOOLEAN /\ ret \in BOOLEAN
  /\ vmmPageTableProp \subseteq Nat \X Idx
  /\ tested \in {"no", "passed", "failed", "skipped"}
  /\ at # Idle => at[1] \in 1 .. Len(Chains) /\ at[2] \in 1 .. Len(Chains[at[1]])

KernelEntries == {i \in FirstKernel .. NumEntries - 1 : {"present", "write"} \subseteq BootDir[i].attrs}

\* Whatever is called and synced, in any order, the kernel's half of its directory
\* stays mapped and writable, is never open to users, and an entry never points
\* anywhere but to its table or, after a fix, to the frame before it: marking an
\* entry as user changes only the array (pgdir.c:331), a fix only takes away
\* (pgdir.c:562), and present and write cannot be taken past entry 0 (pgdir.c:406).
\* Nothing is claimed once memory outside the arrays was written.
KernelHalfKept ==
  ~astray => \A i \in KernelEntries :
    LET e == dirs[Kernel][i]
        f == BootDir[i].frame
    IN
    /\ {"present", "write"} \subseteq e.attrs
    /\ "user" \notin e.attrs
    /\ e.frame \in {f, f - (f % 2)}

\* A sync that fixes grants nothing, leaves every present entry within what its
\* array says, and leaves a second one nothing to do, although the entries still
\* differ where an attribute is missing (pgdir.c:562, 573-592).
SyncSettles ==
  [][ValidatePgDir(TRUE) =>
       /\ pgdirSyncAttr(Cur', TRUE).m = Cur'
       /\ \A i \in Idx :
            /\ Cur'.dir[i].attrs \subseteq Cur.dir[i].attrs
            /\ Present(Cur'.dir[i]) => Cur'.dir[i].attrs \subseteq pgdirPropToAttr(Cur', i)]_pvars

\* The kernel's own tests pass on the directory that boot leaves (vmmtests.c).
TestsPass == tested # "failed"
=============================================================================
