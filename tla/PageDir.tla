------------------------------ MODULE PageDir ------------------------------
(***************************************************************************)
(* pgdir.c: the page directory and, beside it, an array of the properties  *)
(* its entries should have.  The calls come from the virtual memory        *)
(* manager, its tests and whoever makes a directory for a process; none    *)
(* comes from an interrupt handler, so a call is one step.                 *)
(*                                                                         *)
(* An entry is its attributes and the frame it points to; the bits the     *)
(* processor sets (accessed, dirty) are never changed and are left out.    *)
(* A directory in use and its array are one record                         *)
(*     m = [dir, props, astray],                                           *)
(* where astray says that memory outside the two arrays was written; a     *)
(* call answers [m, ret].                                                  *)
(***************************************************************************)
EXTENDS Naturals

CONSTANTS
  Null,             \* null pointer
  Kernel,           \* the kernel's directory and array, the default of both pointers
  Others,           \* directories that come with an array of their own
  NumEntries,       \* 1024
  FirstKernel,      \* 768: addresses from here on are the kernel's
  BootDir,          \* the kernel's directory as boot and initPMM leave it
  NewDirs           \* what a new directory may hold

Attrs == {"present", "write", "user", "writeThru", "cacheOff", "4M", "global", "pat"}
Idx == 0 .. NumEntries - 1
Spaces == {Kernel} \cup Others
Entry == [attrs : SUBSET Attrs, frame : Nat]

ASSUME PageDirAssumption ==
  /\ NumEntries \in Nat \ {0}
  /\ FirstKernel \in Idx \ {0}
  /\ Null \notin Spaces /\ Kernel \notin Others
  /\ BootDir \in [Idx -> Entry]
  /\ NewDirs \subseteq [Idx -> Entry]
  /\ \A i \in Idx : "user" \notin BootDir[i].attrs

\* initPageTables sets entry 0 again, for page table 0 (pmm.c:333).
ASSUME FirstEntryAssumption == BootDir[0].attrs = {"present", "write"}

VARIABLES
  dirs,             \* the directories
  props,            \* their property arrays
  curDir,           \* pgdirPageDirectoryPID
  curProps,         \* pgdirPgDirPropPID
  astray,           \* memory outside the arrays was written
  up,               \* kernel_main has initialised the kernel's directory
  ret               \* the last call's answer

pdvars == <<dirs, props, curDir, curProps, astray, up, ret>>

-----------------------------------------------------------------------------
(* Reading.                                                                *)

pgdirIsValidIdx(i) == i \in Idx

\* pgdirIsGlobal and pgdirIsGlobalMem do not test the index.
pgdirIsGlobal(m, i) == "global" \in m.props[i]
pgdirIsGlobalMem(m, i) == "global" \in m.dir[i].attrs
pgdirIsPAT(m, i) == pgdirIsValidIdx(i) /\ "pat" \in m.props[i]
pgdirIsPATMem(m, i) == pgdirIsValidIdx(i) /\ "pat" \in m.dir[i].attrs
pgdirIs4M(m, i) == pgdirIsValidIdx(i) /\ "4M" \in m.props[i]
pgdirIs4MMem(m, i) == pgdirIsValidIdx(i) /\ "4M" \in m.dir[i].attrs
pgdirIsCacheDisabled(m, i) == pgdirIsValidIdx(i) /\ "cacheOff" \in m.props[i]
pgdirIsCacheDisabledMem(m, i) == pgdirIsValidIdx(i) /\ "cacheOff" \in m.dir[i].attrs
pgdirIsWriteThru(m, i) == pgdirIsValidIdx(i) /\ "writeThru" \in m.props[i]
pgdirIsWriteThruMem(m, i) == pgdirIsValidIdx(i) /\ "writeThru" \in m.dir[i].attrs
pgdirIsUserPage(m, i) == pgdirIsValidIdx(i) /\ "user" \in m.props[i]
pgdirIsKernelPage(m, i) == pgdirIsValidIdx(i) /\ "user" \notin m.props[i]
pgdirIsReadOnly(m, i) == pgdirIsValidIdx(i) /\ "write" \notin m.props[i]
pgdirIsReadOnlyMem(m, i) == pgdirIsValidIdx(i) /\ "write" \notin m.dir[i].attrs
\* An index that is not valid is read/write.
pgdirIsReadWrite(m, i) == ~pgdirIsReadOnly(m, i)
pgdirIsReadWriteMem(m, i) == ~pgdirIsReadOnlyMem(m, i)

-----------------------------------------------------------------------------
(* Changing.  The calls named ...Mem, and pgdirChgReadOnly, change the      *)
(* directory, the others the array.                                        *)

Answer(m, r) == [m |-> m, ret |-> r]
Refuse(m) == Answer(m, FALSE)

Given(m, i, a) == Answer([m EXCEPT !.props[i] = @ \cup {a}], TRUE)
Taken(m, i, a) == Answer([m EXCEPT !.props[i] = @ \ {a}], TRUE)
GivenMem(m, i, a) == Answer([m EXCEPT !.dir[i].attrs = @ \cup {a}], TRUE)
TakenMem(m, i, a) == Answer([m EXCEPT !.dir[i].attrs = @ \ {a}], TRUE)

\* PID[idx] indexes the pointer to the array, not the array: the call changes the
\* word a whole array times idx further on, which only for index 0 is in it.
Stray(m) == Answer([m EXCEPT !.astray = TRUE], TRUE)
AtFirst(m, i, o) == IF i = 0 THEN o ELSE Stray(m)

pgdirSetGlobal(m, i) == IF pgdirIsGlobal(m, i) THEN Refuse(m) ELSE Given(m, i, "global")
pgdirClearGlobal(m, i) == IF pgdirIsGlobal(m, i) THEN Taken(m, i, "global") ELSE Refuse(m)
pgdirChgGlobalMem(m, i, seton) ==
  IF ~pgdirIsValidIdx(i) \/ seton = pgdirIsGlobalMem(m, i) THEN Refuse(m)
  ELSE IF seton THEN GivenMem(m, i, "global") ELSE TakenMem(m, i, "global")

pgdirSet4M(m, i) ==
  IF ~pgdirIsValidIdx(i) \/ pgdirIs4M(m, i) THEN Refuse(m) ELSE Given(m, i, "4M")
pgdirClear4M(m, i) == IF pgdirIsValidIdx(i) THEN Taken(m, i, "4M") ELSE Refuse(m)
pgdirChg4MMem(m, i, seton) ==
  IF ~pgdirIsValidIdx(i) \/ seton = pgdirIs4MMem(m, i) THEN Refuse(m)
  ELSE IF seton THEN GivenMem(m, i, "4M") ELSE TakenMem(m, i, "4M")

pgdirSetUserPage(m, i) == IF pgdirIsValidIdx(i) THEN Given(m, i, "user") ELSE Refuse(m)
pgdirSetKernelPage(m, i) == IF pgdirIsValidIdx(i) THEN Taken(m, i, "user") ELSE Refuse(m)
\* Changes the array, whatever its comment says.
pgdirChgUserPage(m, i, isuser) ==
  IF ~pgdirIsValidIdx(i) THEN Refuse(m)
  ELSE IF isuser
       THEN IF pgdirIsUserPage(m, i) THEN Refuse(m) ELSE pgdirSetUserPage(m, i)
       ELSE IF pgdirIsKernelPage(m, i) THEN Refuse(m) ELSE pgdirSetKernelPage(m, i)

pgdirSetReadOnly(m, i) ==
  IF ~pgdirIsValidIdx(i) \/ pgdirIsReadOnly(m, i) THEN Refuse(m)
  ELSE AtFirst(m, i, Taken(m, i, "write"))
pgdirSetReadWrite(m, i) ==
  IF ~pgdirIsValidIdx(i) \/ pgdirIsReadWrite(m, i) THEN Refuse(m)
  ELSE AtFirst(m, i, Given(m, i, "write"))
pgdirChgReadOnly(m, i, readonly) ==
  IF ~pgdirIsValidIdx(i) \/ readonly = pgdirIsReadOnlyMem(m, i) THEN Refuse(m)
  ELSE AtFirst(m, i, IF readonly THEN TakenMem(m, i, "write") ELSE GivenMem(m, i, "write"))

\* What pgdirIsPresentMem may answer: past index 0 it reads memory that is not
\* the directory's.
pgdirIsPresentMem(m, i) ==
  IF ~pgdirIsValidIdx(i) THEN {FALSE}
  ELSE IF i = 0 THEN {"present" \in m.dir[i].attrs}
  ELSE BOOLEAN

\* The outcomes of setting and clearing the bit.
pgdirSetPresentMem(m, i) ==
  IF ~pgdirIsValidIdx(i) THEN {Refuse(m)}
  ELSE {IF p THEN Refuse(m) ELSE AtFirst(m, i, GivenMem(m, i, "present"))
          : p \in pgdirIsPresentMem(m, i)}
pgdirClearPresentMem(m, i) ==
  {IF p THEN AtFirst(m, i, TakenMem(m, i, "present")) ELSE Refuse(m)
     : p \in pgdirIsPresentMem(m, i)}

-----------------------------------------------------------------------------
(* Directory against array.                                                *)

\* The attributes the array asks for; none unless it says present.
pgdirPropToAttr(m, i) == IF "present" \in m.props[i] THEN m.props[i] ELSE {}

pgdirEvalPde(m, i) == m.dir[i].attrs = pgdirPropToAttr(m, i)

\* Fault: the attributes are set as the comment says.
Masked_Assigned(e, mask) == [e EXCEPT !.attrs = mask]
\* The entry and'ed with the mask and 0xFFFFE000: nothing is set, and the lowest
\* bit of the frame's number goes.
Masked(e, mask) == [attrs |-> e.attrs \cap mask, frame |-> e.frame - (e.frame % 2)]

pgdirFixPde(m, i) ==
  IF pgdirEvalPde(m, i) THEN m.dir[i] ELSE Masked(m.dir[i], pgdirPropToAttr(m, i))

Present(e) == "present" \in e.attrs

\* pgdirValidatePgDir: entries that are present are compared, and fixed if asked;
\* what was fixed counts as an error.
pgdirSyncAttr(m, fix) ==
  Answer([m EXCEPT !.dir = [i \in Idx |-> IF fix /\ Present(m.dir[i]) THEN pgdirFixPde(m, i)
                                          ELSE m.dir[i]]],
         \A i \in Idx : Present(m.dir[i]) => pgdirEvalPde(m, i))

InUse(e) == e.attrs # {} \/ e.frame # 0

\* Fault: present is not copied.
PropsOf_Absent(e) == IF InUse(e) THEN e.attrs \ {"present"} ELSE {"4M"}
\* What pgdirInitPgDirProps takes over from an entry.
PropsOf(e) == IF InUse(e) THEN e.attrs ELSE {"4M"}

pgdirInitPgDirProps(m) ==
  Answer([m EXCEPT !.props =
            [i \in Idx |-> IF i < FirstKernel THEN PropsOf(m.dir[i])
                           ELSE PropsOf(m.dir[i]) \ {"user"}]], TRUE)

\* pgdirSetPgDir, pgdirSetPgDirProps: null stands for the kernel's.
OrKernel(p) == IF p = Null THEN Kernel ELSE p

-----------------------------------------------------------------------------
(* The calls as steps.                                                     *)

Cur == [dir |-> dirs[curDir], props |-> props[curProps], astray |-> astray]

Do(o) ==
  /\ up
  /\ dirs' = [dirs EXCEPT ![curDir] = o.m.dir]
  /\ props' = [props EXCEPT ![curProps] = o.m.props]
  /\ astray' = o.m.astray
  /\ ret' = o.ret
  /\ UNCHANGED <<curDir, curProps, up>>

\* The calls that do not test the index, given one past the end: they read, and
\* may write, the byte behind the array.
PastEnd ==
  /\ up
  /\ ret' \in BOOLEAN
  /\ astray' = (astray \/ ret')
  /\ UNCHANGED <<dirs, props, curDir, curProps, up>>

SetGlobal(i) == IF pgdirIsValidIdx(i) THEN Do(pgdirSetGlobal(Cur, i)) ELSE PastEnd
ClearGlobal(i) == IF pgdirIsValidIdx(i) THEN Do(pgdirClearGlobal(Cur, i)) ELSE PastEnd
ChgGlobalMem(i, b) == Do(pgdirChgGlobalMem(Cur, i, b))
Set4M(i) == Do(pgdirSet4M(Cur, i))
Clear4M(i) == Do(pgdirClear4M(Cur, i))
Chg4MMem(i, b) == Do(pgdirChg4MMem(Cur, i, b))
SetUserPage(i) == Do(pgdirSetUserPage(Cur, i))
SetKernelPage(i) == Do(pgdirSetKernelPage(Cur, i))
ChgUserPage(i, b) == Do(pgdirChgUserPage(Cur, i, b))
SetReadOnly(i) == Do(pgdirSetReadOnly(Cur, i))
SetReadWrite(i) == Do(pgdirSetReadWrite(Cur, i))
ChgReadOnly(i, b) == Do(pgdirChgReadOnly(Cur, i, b))
SetPresentMem(i) == \E o \in pgdirSetPresentMem(Cur, i) : Do(o)
ClearPresentMem(i) == \E o \in pgdirClearPresentMem(Cur, i) : Do(o)
ValidatePgDir(fix) == Do(pgdirSyncAttr(Cur, fix))

\* Both pointers or neither.
pgdirSwapPgDir(d, p) ==
  /\ up
  /\ ret' = ((d = Null) <=> (p = Null))
  /\ IF ret' THEN curDir' = OrKernel(d) /\ curProps' = OrKernel(p)
     ELSE UNCHANGED <<curDir, curProps>>
  /\ UNCHANGED <<dirs, props, astray, up>>

\* The swap, and the new array filled from the new directory.
pgdirInitPgDir(d, p) ==
  /\ ret' = ((d = Null) <=> (p = Null))
  /\ IF ret'
     THEN LET D == OrKernel(d) P == OrKernel(p) IN
          /\ curDir' = D /\ curProps' = P
          /\ props' = [props EXCEPT ![P] =
               pgdirInitPgDirProps([dir |-> dirs[D], props |-> props[P], astray |-> astray]).m.props]
     ELSE UNCHANGED <<props, curDir, curProps>>
  /\ UNCHANGED <<dirs, astray>>

PDInit ==
  /\ dirs \in {[s \in Spaces |-> IF s = Kernel THEN BootDir ELSE n[s]] : n \in [Others -> NewDirs]}
  /\ props = [s \in Spaces |-> [i \in Idx |-> {}]]
  /\ curDir = Kernel /\ curProps = Kernel
  /\ astray = FALSE /\ up = FALSE /\ ret = FALSE

\* The calls about one attribute of entry i.
Topics == {"global", "4M", "user", "write", "present"}
EntryCall(topic, i) ==
  \/ /\ topic = "global"
     /\ SetGlobal(i) \/ ClearGlobal(i) \/ \E b \in BOOLEAN : ChgGlobalMem(i, b)
  \/ /\ topic = "4M"
     /\ Set4M(i) \/ Clear4M(i) \/ \E b \in BOOLEAN : Chg4MMem(i, b)
  \/ /\ topic = "user"
     /\ SetUserPage(i) \/ SetKernelPage(i) \/ \E b \in BOOLEAN : ChgUserPage(i, b)
  \/ /\ topic = "write"
     /\ SetReadOnly(i) \/ SetReadWrite(i) \/ \E b \in BOOLEAN : ChgReadOnly(i, b)
  \/ /\ topic = "present"
     /\ SetPresentMem(i) \/ ClearPresentMem(i)

\* A caller gives a directory with its own array, or leaves one out.
PointerPairs == {pair \in ({Null} \cup Others) \X ({Null} \cup Others) :
                   pair[1] = pair[2] \/ Null \in {pair[1], pair[2]}}

DirectoryCall ==
  \/ \E fix \in BOOLEAN : ValidatePgDir(fix)
  \/ \E pair \in PointerPairs :
       \/ pgdirSwapPgDir(pair[1], pair[2])
       \/ up /\ pgdirInitPgDir(pair[1], pair[2]) /\ UNCHANGED up

\* One index past the end is among those asked for.
PDCall(topics) ==
  DirectoryCall \/ \E topic \in topics, i \in 0 .. NumEntries : EntryCall(topic, i)
=============================================================================
