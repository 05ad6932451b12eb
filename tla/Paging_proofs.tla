---------------------------- MODULE Paging_proofs ----------------------------
(***************************************************************************)
(* Proofs about Paging.tla, for every number of directory entries, boot    *)
(* directory and other directories.  The kernel's half is kept because its *)
(* array asks for present and write as long as its entries have them, and  *)
(* a fix takes away only what the array does not ask for.  The kernel's    *)
(* tests pass because each chain puts entry 0 back as it found it, up to   *)
(* the one that leaves the array saying user.                              *)
(***************************************************************************)
EXTENDS Paging, TLAPS

-----------------------------------------------------------------------------
(* A directory with its array, and what a call makes of it.                *)

Fits(m) == m \in [dir : [Idx -> Entry], props : [Idx -> SUBSET Attrs], astray : BOOLEAN]

KernelEntry(i, e) ==
  /\ {"present", "write"} \subseteq e.attrs
  /\ "user" \notin e.attrs
  /\ e.frame \in {BootDir[i].frame, BootDir[i].frame - (BootDir[i].frame % 2)}

KernelSafe(m) ==
  \A i \in KernelEntries :
    KernelEntry(i, m.dir[i]) /\ {"present", "write"} \subseteq m.props[i]

\* isKernel: whether it is the kernel's directory.
Good(m, isKernel) == Fits(m) /\ (isKernel => KernelSafe(m))
GoodAnswer(o, isKernel) == o.ret \in BOOLEAN /\ Good(o.m, isKernel)

LEMMA KernelIndex ==
  ASSUME NEW i \in KernelEntries PROVE i \in Idx /\ i # 0
BY PageDirAssumption DEF KernelEntries, Idx

LEMMA GoodRefuse ==
  ASSUME NEW m, NEW k, Good(m, k), NEW b \in BOOLEAN PROVE GoodAnswer(Answer(m, b), k)
BY DEF GoodAnswer, Answer

LEMMA GoodStray ==
  ASSUME NEW m, NEW k, Good(m, k) PROVE GoodAnswer(Stray(m), k)
BY DEF GoodAnswer, Answer, Stray, Good, Fits, KernelSafe

\* The array keeps present and write past entry 0.
LEMMA GoodProps ==
  ASSUME NEW m, NEW k, Good(m, k), NEW i \in Idx, NEW a \in Attrs
  PROVE  /\ GoodAnswer(Given(m, i, a), k)
         /\ i = 0 \/ a \notin {"present", "write"} => GoodAnswer(Taken(m, i, a), k)
<1>1. m.props[i] \cup {a} \in SUBSET Attrs /\ m.props[i] \ {a} \in SUBSET Attrs
  BY DEF Good, Fits
<1>2. GoodAnswer(Given(m, i, a), k)
  BY <1>1, KernelIndex DEF GoodAnswer, Answer, Given, Good, Fits, KernelSafe
<1>3. ASSUME i = 0 \/ a \notin {"present", "write"} PROVE GoodAnswer(Taken(m, i, a), k)
  BY <1>1, <1>3, KernelIndex DEF GoodAnswer, Answer, Taken, Good, Fits, KernelSafe
<1>4. QED BY <1>2, <1>3

\* An entry of the kernel's half is not opened to users.
LEMMA GoodDir ==
  ASSUME NEW m, NEW k, Good(m, k), NEW i \in Idx, NEW a \in Attrs
  PROVE  /\ a # "user" => GoodAnswer(GivenMem(m, i, a), k)
         /\ i = 0 \/ a \notin {"present", "write"} => GoodAnswer(TakenMem(m, i, a), k)
<1>1. m.dir[i].attrs \cup {a} \in SUBSET Attrs /\ m.dir[i].attrs \ {a} \in SUBSET Attrs
  BY DEF Good, Fits, Entry
<1>2. ASSUME a # "user" PROVE GoodAnswer(GivenMem(m, i, a), k)
  <2>1. Fits(GivenMem(m, i, a).m)
    BY <1>1 DEF GivenMem, Answer, Good, Fits, Entry
  <2>2. k => KernelSafe(GivenMem(m, i, a).m)
    BY <1>2, KernelIndex DEF GivenMem, Answer, Good, Fits, KernelSafe, KernelEntry, Entry
  <2>3. QED BY <2>1, <2>2 DEF GoodAnswer, Good, GivenMem, Answer
<1>3. ASSUME i = 0 \/ a \notin {"present", "write"} PROVE GoodAnswer(TakenMem(m, i, a), k)
  <2>1. Fits(TakenMem(m, i, a).m)
    BY <1>1 DEF TakenMem, Answer, Good, Fits, Entry
  <2>2. k => KernelSafe(TakenMem(m, i, a).m)
    BY <1>3, KernelIndex DEF TakenMem, Answer, Good, Fits, KernelSafe, KernelEntry, Entry
  <2>3. QED BY <2>1, <2>2 DEF GoodAnswer, Good, TakenMem, Answer
<1>4. QED BY <1>2, <1>3

\* Every call on an entry keeps the directory good.
LEMMA GoodGlobal ==
  ASSUME NEW m, NEW k, Good(m, k), NEW i \in Nat, NEW b \in BOOLEAN
  PROVE  /\ i \in Idx => /\ GoodAnswer(pgdirSetGlobal(m, i), k)
                         /\ GoodAnswer(pgdirClearGlobal(m, i), k)
         /\ GoodAnswer(pgdirChgGlobalMem(m, i, b), k)
<1>1. "global" \in Attrs /\ "global" \notin {"present", "write", "user"}
  BY DEF Attrs
<1>2. GoodAnswer(Refuse(m), k)
  BY GoodRefuse DEF Refuse
<1>3. i \in Idx => /\ GoodAnswer(Given(m, i, "global"), k) /\ GoodAnswer(Taken(m, i, "global"), k)
                  /\ GoodAnswer(GivenMem(m, i, "global"), k)
                  /\ GoodAnswer(TakenMem(m, i, "global"), k)
  BY <1>1, GoodProps, GoodDir
<1>4. QED
  BY <1>2, <1>3 DEF pgdirSetGlobal, pgdirClearGlobal, pgdirChgGlobalMem, pgdirIsValidIdx

LEMMA Good4M ==
  ASSUME NEW m, NEW k, Good(m, k), NEW i \in Nat, NEW b \in BOOLEAN
  PROVE  /\ GoodAnswer(pgdirSet4M(m, i), k) /\ GoodAnswer(pgdirClear4M(m, i), k)
         /\ GoodAnswer(pgdirChg4MMem(m, i, b), k)
<1>1. "4M" \in Attrs /\ "4M" \notin {"present", "write", "user"}
  BY DEF Attrs
<1>2. GoodAnswer(Refuse(m), k)
  BY GoodRefuse DEF Refuse
<1>3. i \in Idx => /\ GoodAnswer(Given(m, i, "4M"), k) /\ GoodAnswer(Taken(m, i, "4M"), k)
                  /\ GoodAnswer(GivenMem(m, i, "4M"), k) /\ GoodAnswer(TakenMem(m, i, "4M"), k)
  BY <1>1, GoodProps, GoodDir
<1>4. QED
  BY <1>2, <1>3 DEF pgdirSet4M, pgdirClear4M, pgdirChg4MMem, pgdirIsValidIdx

\* Only the array hears of users.
LEMMA GoodUser ==
  ASSUME NEW m, NEW k, Good(m, k), NEW i \in Nat, NEW b \in BOOLEAN
  PROVE  /\ GoodAnswer(pgdirSetUserPage(m, i), k) /\ GoodAnswer(pgdirSetKernelPage(m, i), k)
         /\ GoodAnswer(pgdirChgUserPage(m, i, b), k)
<1>1. "user" \in Attrs /\ "user" \notin {"present", "write"}
  BY DEF Attrs
<1>2. GoodAnswer(Refuse(m), k)
  BY GoodRefuse DEF Refuse
<1>3. i \in Idx => GoodAnswer(Given(m, i, "user"), k) /\ GoodAnswer(Taken(m, i, "user"), k)
  BY <1>1, GoodProps
<1>4. QED
  BY <1>2, <1>3 DEF pgdirSetUserPage, pgdirSetKernelPage, pgdirChgUserPage, pgdirIsValidIdx

\* Write and present change in entry 0 only.
LEMMA GoodWrite ==
  ASSUME NEW m, NEW k, Good(m, k), NEW i \in Nat, NEW b \in BOOLEAN
  PROVE  /\ GoodAnswer(pgdirSetReadOnly(m, i), k) /\ GoodAnswer(pgdirSetReadWrite(m, i), k)
         /\ GoodAnswer(pgdirChgReadOnly(m, i, b), k)
<1>1. "write" \in Attrs /\ "write" # "user"
  BY DEF Attrs
<1>2. GoodAnswer(Refuse(m), k) /\ GoodAnswer(Stray(m), k)
  BY GoodRefuse, GoodStray DEF Refuse
<1>3. i \in Idx /\ i = 0 =>
        /\ GoodAnswer(Given(m, i, "write"), k) /\ GoodAnswer(Taken(m, i, "write"), k)
        /\ GoodAnswer(GivenMem(m, i, "write"), k) /\ GoodAnswer(TakenMem(m, i, "write"), k)
  BY <1>1, GoodProps, GoodDir
<1>4. QED
  BY <1>2, <1>3 DEF pgdirSetReadOnly, pgdirSetReadWrite, pgdirChgReadOnly, AtFirst, pgdirIsValidIdx

LEMMA GoodPresent ==
  ASSUME NEW m, NEW k, Good(m, k), NEW i \in Nat
  PROVE  \A o \in pgdirSetPresentMem(m, i) \cup pgdirClearPresentMem(m, i) : GoodAnswer(o, k)
<1>1. "present" \in Attrs /\ "present" # "user"
  BY DEF Attrs
<1>2. GoodAnswer(Refuse(m), k) /\ GoodAnswer(Stray(m), k)
  BY GoodRefuse, GoodStray DEF Refuse
<1>3. i \in Idx /\ i = 0 =>
        GoodAnswer(GivenMem(m, i, "present"), k) /\ GoodAnswer(TakenMem(m, i, "present"), k)
  BY <1>1, GoodDir
<1>4. \A p \in pgdirIsPresentMem(m, i) : i \in Idx \/ ~p
  BY DEF pgdirIsPresentMem, pgdirIsValidIdx
<1>5. QED
  BY <1>2, <1>3, <1>4 DEF pgdirSetPresentMem, pgdirClearPresentMem, AtFirst, pgdirIsValidIdx

-----------------------------------------------------------------------------
(* The fix and the array's first values.                                   *)

\* Losing the lowest bit twice is losing it once.
LEMMA EvenFrame ==
  ASSUME NEW f \in Nat
  PROVE  LET g == f - (f % 2) IN g \in Nat /\ g - (g % 2) = g
BY SMT

LEMMA GoodSync ==
  ASSUME NEW m, NEW k, Good(m, k), NEW fix \in BOOLEAN
  PROVE  GoodAnswer(pgdirSyncAttr(m, fix), k)
<1> DEFINE Fixed(i) == IF fix /\ Present(m.dir[i]) THEN pgdirFixPde(m, i) ELSE m.dir[i]
<1>1. ASSUME NEW i \in Idx PROVE Fixed(i) \in Entry
  <2>1. m.dir[i].attrs \in SUBSET Attrs /\ m.dir[i].frame \in Nat /\ m.dir[i] \in Entry
    BY DEF Good, Fits, Entry
  <2>2. m.dir[i].frame - (m.dir[i].frame % 2) \in Nat
    BY <2>1, EvenFrame
  <2>3. QED
    BY <2>1, <2>2 DEF pgdirFixPde, Masked, Entry
<1>2. ASSUME k, NEW i \in KernelEntries PROVE KernelEntry(i, Fixed(i))
  <2>1. i \in Idx /\ KernelEntry(i, m.dir[i]) /\ {"present", "write"} \subseteq m.props[i]
    BY <1>2, KernelIndex DEF Good, KernelSafe
  <2>2. BootDir[i].frame \in Nat
    BY <2>1, PageDirAssumption DEF Entry
  <2>3. m.dir[i].frame - (m.dir[i].frame % 2) = BootDir[i].frame - (BootDir[i].frame % 2)
    BY <2>1, <2>2, EvenFrame DEF KernelEntry
  <2>4. KernelEntry(i, Masked(m.dir[i], pgdirPropToAttr(m, i)))
    BY <2>1, <2>3 DEF KernelEntry, Masked, pgdirPropToAttr
  <2>5. QED
    BY <2>1, <2>4 DEF pgdirFixPde
<1>3. pgdirSyncAttr(m, fix).m = [m EXCEPT !.dir = [i \in Idx |-> Fixed(i)]]
      /\ pgdirSyncAttr(m, fix).ret \in BOOLEAN
  BY DEF pgdirSyncAttr, Answer
<1> HIDE DEF Fixed
<1>4. Fits([m EXCEPT !.dir = [i \in Idx |-> Fixed(i)]])
  BY <1>1 DEF Good, Fits
<1>5. k => KernelSafe([m EXCEPT !.dir = [i \in Idx |-> Fixed(i)]])
  BY <1>2, KernelIndex DEF Good, Fits, KernelSafe
<1>6. QED
  BY <1>3, <1>4, <1>5 DEF GoodAnswer, Good

\* What the array takes over from the directory.
LEMMA GoodArray ==
  ASSUME NEW m, Fits(m)
  PROVE  LET a == pgdirInitPgDirProps(m).m.props IN
         /\ a \in [Idx -> SUBSET Attrs]
         /\ \A i \in Idx : {"present", "write"} \subseteq m.dir[i].attrs
                          => {"present", "write"} \subseteq a[i]
<1> DEFINE Taken1(i) == IF i < FirstKernel THEN PropsOf(m.dir[i]) ELSE PropsOf(m.dir[i]) \ {"user"}
<1>1. ASSUME NEW i \in Idx
      PROVE  /\ Taken1(i) \in SUBSET Attrs
             /\ {"present", "write"} \subseteq m.dir[i].attrs => {"present", "write"} \subseteq Taken1(i)
  <2>1. m.dir[i].attrs \in SUBSET Attrs /\ "4M" \in Attrs
    BY DEF Fits, Entry, Attrs
  <2>2. PropsOf(m.dir[i]) \in SUBSET Attrs
    BY <2>1 DEF PropsOf
  <2>3. {"present", "write"} \subseteq m.dir[i].attrs => PropsOf(m.dir[i]) = m.dir[i].attrs
    BY DEF PropsOf, InUse
  <2>4. QED BY <2>2, <2>3
<1>2. pgdirInitPgDirProps(m).m.props = [i \in Idx |-> Taken1(i)]
  BY DEF pgdirInitPgDirProps, Answer, Fits
<1> HIDE DEF Taken1
<1>3. QED BY <1>1, <1>2

-----------------------------------------------------------------------------
(* The invariant of the directories.                                       *)

PDInv ==
  /\ dirs \in [Spaces -> [Idx -> Entry]]
  /\ props \in [Spaces -> [Idx -> SUBSET Attrs]]
  /\ curDir \in Spaces /\ curProps = curDir
  /\ astray \in BOOLEAN /\ up \in BOOLEAN /\ ret \in BOOLEAN
  /\ \A i \in KernelEntries : KernelEntry(i, dirs[Kernel][i])
  /\ up => \A i \in KernelEntries : {"present", "write"} \subseteq props[Kernel][i]

LEMMA CurGood ==
  ASSUME PDInv, up PROVE Good(Cur, curDir = Kernel)
BY DEF PDInv, Good, Fits, KernelSafe, Cur

LEMMA DoKeeps ==
  ASSUME PDInv, NEW o, Do(o), GoodAnswer(o, curDir = Kernel) PROVE PDInv'
<1>1. o.m.dir \in [Idx -> Entry] /\ o.m.props \in [Idx -> SUBSET Attrs]
      /\ o.m.astray \in BOOLEAN /\ o.ret \in BOOLEAN
  BY DEF GoodAnswer, Good, Fits
<1>2. /\ dirs' \in [Spaces -> [Idx -> Entry]] /\ props' \in [Spaces -> [Idx -> SUBSET Attrs]]
      /\ astray' \in BOOLEAN /\ ret' \in BOOLEAN
      /\ curDir' \in Spaces /\ curProps' = curDir' /\ up' \in BOOLEAN
  BY <1>1 DEF PDInv, Do
<1>3. CASE curDir = Kernel
  <2>1. dirs'[Kernel] = o.m.dir /\ props'[Kernel] = o.m.props
    BY <1>3 DEF PDInv, Do
  <2>2. KernelSafe(o.m)
    BY <1>3 DEF GoodAnswer, Good
  <2>3. QED BY <1>2, <2>1, <2>2 DEF PDInv, KernelSafe
<1>4. CASE curDir # Kernel
  <2>1. dirs'[Kernel] = dirs[Kernel] /\ props'[Kernel] = props[Kernel] /\ up' = up
    BY <1>4 DEF PDInv, Do, Spaces
  <2>2. QED BY <1>2, <2>1 DEF PDInv
<1>5. QED BY <1>3, <1>4

LEMMA PastEndKeeps ==
  ASSUME PDInv, PastEnd PROVE PDInv'
BY DEF PDInv, PastEnd, KernelEntries

LEMMA EntryCallKeeps ==
  ASSUME PDInv, NEW topic, NEW i \in Nat, EntryCall(topic, i) PROVE PDInv'
<1> USE CurGood, DoKeeps
<1>0. up
  BY DEF EntryCall, SetGlobal, ClearGlobal, ChgGlobalMem, Set4M, Clear4M, Chg4MMem, SetUserPage,
         SetKernelPage, ChgUserPage, SetReadOnly, SetReadWrite, ChgReadOnly, SetPresentMem,
         ClearPresentMem, Do, PastEnd
<1>1. ASSUME SetGlobal(i) \/ ClearGlobal(i) \/ \E b \in BOOLEAN : ChgGlobalMem(i, b) PROVE PDInv'
  BY <1>0, <1>1, GoodGlobal, PastEndKeeps DEF SetGlobal, ClearGlobal, ChgGlobalMem, pgdirIsValidIdx
<1>2. ASSUME Set4M(i) \/ Clear4M(i) \/ \E b \in BOOLEAN : Chg4MMem(i, b) PROVE PDInv'
  BY <1>0, <1>2, Good4M DEF Set4M, Clear4M, Chg4MMem
<1>3. ASSUME SetUserPage(i) \/ SetKernelPage(i) \/ \E b \in BOOLEAN : ChgUserPage(i, b) PROVE PDInv'
  BY <1>0, <1>3, GoodUser DEF SetUserPage, SetKernelPage, ChgUserPage
<1>4. ASSUME SetReadOnly(i) \/ SetReadWrite(i) \/ \E b \in BOOLEAN : ChgReadOnly(i, b) PROVE PDInv'
  BY <1>0, <1>4, GoodWrite DEF SetReadOnly, SetReadWrite, ChgReadOnly
<1>5. ASSUME SetPresentMem(i) \/ ClearPresentMem(i) PROVE PDInv'
  BY <1>0, <1>5, GoodPresent DEF SetPresentMem, ClearPresentMem
<1>6. QED BY <1>1, <1>2, <1>3, <1>4, <1>5 DEF EntryCall

\* initVMM, and any other pair of pointers that go together.
LEMMA InitKeeps ==
  ASSUME PDInv, NEW d \in {Null} \cup Others, NEW p \in {Null} \cup Others,
         d = p \/ Null \in {d, p}, pgdirInitPgDir(d, p),
         up' = up \/ (d = Null /\ p = Null), up' \in BOOLEAN
  PROVE  PDInv'
<1>1. ret' \in BOOLEAN /\ dirs' = dirs /\ astray' = astray
  BY DEF pgdirInitPgDir
<1>2. CASE ~ret'
  <2>1. props' = props /\ curDir' = curDir /\ curProps' = curProps /\ ~(d = Null /\ p = Null)
    BY <1>2 DEF pgdirInitPgDir
  <2>2. QED BY <1>1, <2>1 DEF PDInv, KernelEntries
<1>3. CASE ret'
  <2> DEFINE D == OrKernel(d)
             M == [dir |-> dirs[D], props |-> props[D], astray |-> astray]
             A == pgdirInitPgDirProps(M).m.props
  <2>1. d = p
    BY <1>3 DEF pgdirInitPgDir
  <2>2. D \in Spaces /\ OrKernel(p) = D
    BY <2>1 DEF OrKernel, Spaces
  <2>3. curDir' = D /\ curProps' = D /\ props' = [props EXCEPT ![D] = A]
    BY <1>3, <2>2 DEF pgdirInitPgDir
  <2>4. Fits(M)
    BY <2>2 DEF PDInv, Fits
  <2>5. /\ A \in [Idx -> SUBSET Attrs]
        /\ \A i \in Idx : {"present", "write"} \subseteq dirs[D][i].attrs
                         => {"present", "write"} \subseteq A[i]
    BY <2>4, GoodArray
  <2> HIDE DEF D, M, A
  <2>6. props' \in [Spaces -> [Idx -> SUBSET Attrs]]
    BY <2>3, <2>5 DEF PDInv
  <2>7. ASSUME up', NEW i \in KernelEntries PROVE {"present", "write"} \subseteq props'[Kernel][i]
    <3>1. i \in Idx /\ {"present", "write"} \subseteq dirs[Kernel][i].attrs
      BY KernelIndex DEF PDInv, KernelEntry
    <3>2. CASE D = Kernel
      BY <2>2, <2>3, <2>5, <3>1, <3>2 DEF PDInv
    <3>3. CASE D # Kernel
      <4>1. up
        BY <2>7, <3>3 DEF D, OrKernel
      <4>2. QED BY <2>2, <2>3, <3>3, <4>1 DEF PDInv, Spaces
    <3>4. QED BY <3>2, <3>3
  <2>8. QED BY <1>1, <2>2, <2>3, <2>6, <2>7 DEF PDInv, KernelEntries
<1>4. QED BY <1>1, <1>2, <1>3

LEMMA BootKeeps ==
  ASSUME PDInv, initVMM PROVE PDInv'
<1>1. pgdirInitPgDir(Null, Null) /\ ret' = TRUE /\ up' = ret'
  BY DEF initVMM, pgdirInitPgDir
<1>2. QED BY <1>1, InitKeeps

LEMMA DirectoryCallKeeps ==
  ASSUME PDInv, DirectoryCall PROVE PDInv'
<1>1. ASSUME NEW fix \in BOOLEAN, ValidatePgDir(fix) PROVE PDInv'
  <2>1. up /\ Do(pgdirSyncAttr(Cur, fix))
    BY <1>1 DEF ValidatePgDir, Do
  <2>2. QED BY <2>1, CurGood, GoodSync, DoKeeps
<1>2. ASSUME NEW pair \in PointerPairs, pgdirSwapPgDir(pair[1], pair[2]) PROVE PDInv'
  <2>1. OrKernel(pair[1]) \in Spaces
    BY DEF PointerPairs, OrKernel, Spaces
  <2>2. ret' => pair[1] = pair[2]
    BY <1>2 DEF PointerPairs, pgdirSwapPgDir
  <2>3. QED BY <1>2, <2>1, <2>2 DEF pgdirSwapPgDir, PDInv, KernelEntries
<1>3. ASSUME NEW pair \in PointerPairs, up, pgdirInitPgDir(pair[1], pair[2]), UNCHANGED up
      PROVE  PDInv'
  <2>1. /\ pair[1] \in {Null} \cup Others /\ pair[2] \in {Null} \cup Others
        /\ pair[1] = pair[2] \/ Null \in {pair[1], pair[2]}
    BY DEF PointerPairs
  <2>2. up' = (up \/ (pair[1] = Null /\ pair[2] = Null)) /\ up' \in BOOLEAN
    BY <1>3 DEF PDInv
  <2>3. QED BY <1>3, <2>1, <2>2, InitKeeps
<1>4. QED BY <1>1, <1>2, <1>3 DEF DirectoryCall

-----------------------------------------------------------------------------
(* The tests.                                                              *)

CallNames == {"SetGlobal", "ClearGlobal", "IsGlobal", "GlobalMemOn", "GlobalMemOff", "IsGlobalMem",
              "Set4M", "Clear4M", "Is4M", "4MMemOn", "4MMemOff", "Is4MMem",
              "SetKernelPage", "SetUserPage", "IsKernelPage", "IsUserPage"}

LEMMA CallGood ==
  ASSUME NEW m, NEW k, Good(m, k), NEW name \in CallNames PROVE GoodAnswer(Call(m, name), k)
<1>1. 0 \in Nat /\ 0 \in Idx
  BY PageDirAssumption DEF Idx
<1>2. /\ GoodAnswer(pgdirSetGlobal(m, 0), k) /\ GoodAnswer(pgdirClearGlobal(m, 0), k)
      /\ GoodAnswer(pgdirChgGlobalMem(m, 0, TRUE), k) /\ GoodAnswer(pgdirChgGlobalMem(m, 0, FALSE), k)
  BY <1>1, GoodGlobal
<1>3. /\ GoodAnswer(pgdirSet4M(m, 0), k) /\ GoodAnswer(pgdirClear4M(m, 0), k)
      /\ GoodAnswer(pgdirChg4MMem(m, 0, TRUE), k) /\ GoodAnswer(pgdirChg4MMem(m, 0, FALSE), k)
  BY <1>1, Good4M
<1>4. GoodAnswer(pgdirSetUserPage(m, 0), k) /\ GoodAnswer(pgdirSetKernelPage(m, 0), k)
  BY <1>1, GoodUser
<1>5. /\ pgdirIsGlobal(m, 0) \in BOOLEAN /\ pgdirIsGlobalMem(m, 0) \in BOOLEAN
      /\ pgdirIs4M(m, 0) \in BOOLEAN /\ pgdirIs4MMem(m, 0) \in BOOLEAN
      /\ pgdirIsKernelPage(m, 0) \in BOOLEAN /\ pgdirIsUserPage(m, 0) \in BOOLEAN
  BY DEF pgdirIsGlobal, pgdirIsGlobalMem, pgdirIs4M, pgdirIs4MMem, pgdirIsKernelPage, pgdirIsUserPage
<1>6. /\ GoodAnswer(Answer(m, pgdirIsGlobal(m, 0)), k) /\ GoodAnswer(Answer(m, pgdirIsGlobalMem(m, 0)), k)
      /\ GoodAnswer(Answer(m, pgdirIs4M(m, 0)), k) /\ GoodAnswer(Answer(m, pgdirIs4MMem(m, 0)), k)
      /\ GoodAnswer(Answer(m, pgdirIsKernelPage(m, 0)), k)
      /\ GoodAnswer(Answer(m, pgdirIsUserPage(m, 0)), k)
  BY <1>5, GoodRefuse
<1>7. QED BY <1>2, <1>3, <1>4, <1>6, Zenon DEF Call, CallNames

LEMMA ChainCalls ==
  /\ Len(Chains) = 10
  /\ \A c \in 1 .. 10 : /\ Len(Chains[c]) \in 1 .. 4
                       /\ \A s \in 1 .. Len(Chains[c]) : Chains[c][s][1] \in CallNames
<1>1. Len(Chains) = 10
  BY DEF Chains
<1>2. ASSUME NEW c \in 1 .. 10
      PROVE  /\ Len(Chains[c]) \in 1 .. 4
             /\ \A s \in 1 .. Len(Chains[c]) : Chains[c][s][1] \in CallNames
  <2>1. CASE c \in {1, 3, 5, 7, 10}
    BY <2>1 DEF Chains, CallNames
  <2>2. CASE c \in {2, 4, 6, 8}
    BY <2>2 DEF Chains, CallNames, OnOff
  <2>3. CASE c = 9
    BY <2>3 DEF Chains, CallNames
  <2>4. QED BY <2>1, <2>2, <2>3
<1>3. QED BY <1>1, <1>2

LEMMA FirstOf == \A n \in 1 .. 4 : 1 \in 1 .. n
OBVIOUS

LEMMA FlagPlaces ==
  ASSUME NEW a \in VPages PROVE FlagOf(a) \in Nat \X Idx
<1>1. a \in Nat /\ PerTable \in Nat /\ PerTable > 0 /\ NumEntries \in Nat /\ NumEntries > 0
  BY PageDirAssumption, VMMAssumption DEF VPages
<1>2. a \div PerTable \in Nat
  BY <1>1
<1>3. (a \div PerTable) % NumEntries \in 0 .. NumEntries - 1
  BY <1>1, <1>2
<1>4. QED BY <1>2, <1>3 DEF FlagOf, PteFromAddress, PdeFromAddress, Idx

-----------------------------------------------------------------------------
(* The whole.                                                              *)

KInv ==
  /\ PDInv
  /\ vmmPageTableProp \subseteq Nat \X Idx
  /\ tested \in {"no", "passed", "failed", "skipped"}
  /\ at # Idle => at[1] \in 1 .. Len(Chains) /\ at[2] \in 1 .. Len(Chains[at[1]])

\* The directories, arrays and flags are always well typed and the two pointers go
\* together, and while the kernel runs its array asks for what its half has.
THEOREM PagingInvariance == Spec => []KInv
<1>1. PInit => KInv
  <2> SUFFICES ASSUME PInit PROVE KInv
    OBVIOUS
  <2>1. dirs \in [Spaces -> [Idx -> Entry]] /\ dirs[Kernel] = BootDir
    BY PageDirAssumption DEF PInit, VMMInit, PDInit, Spaces
  <2>2. \A i \in KernelEntries : KernelEntry(i, BootDir[i])
    BY PageDirAssumption, KernelIndex DEF KernelEntries, KernelEntry
  <2>3. QED
    BY <2>1, <2>2 DEF PInit, VMMInit, PDInit, KInv, PDInv, Spaces
<1>2. KInv /\ [PNext(Topics \cup {"flags"})]_pvars => KInv'
  <2> SUFFICES ASSUME KInv, [PNext(Topics \cup {"flags"})]_pvars PROVE KInv'
    OBVIOUS
  <2> USE DEF KInv
  <2>1. ASSUME Boot PROVE KInv'
    BY <2>1, BootKeeps DEF Boot, initVMM
  <2>2. ASSUME vmmtests PROVE KInv'
    <3>1. 1 \in 1 .. Len(Chains) /\ 1 \in 1 .. Len(Chains[1])
      <4>1. 1 \in 1 .. 10
        OBVIOUS
      <4>2. QED BY <4>1, ChainCalls, FirstOf, Zenon
    <3>2. QED BY <2>2, <3>1, BootKeeps DEF vmmtests, initVMM
  <2>3. ASSUME TestCall PROVE KInv'
    <3>1. at[1] \in 1 .. Len(Chains) /\ at[2] \in 1 .. Len(Chains[at[1]]) /\ up
      BY <2>3 DEF TestCall, Do
    <3>2. Chains[at[1]][at[2]][1] \in CallNames
      BY <3>1, ChainCalls
    <3>3. PDInv'
      BY <2>3, <3>1, <3>2, CurGood, CallGood, DoKeeps DEF TestCall
    <3>4. \A c \in 1 .. 10 : Len(Chains[c]) \in 1 .. 4
      BY ChainCalls
    <3>5. at' # Idle => at'[1] \in 1 .. Len(Chains) /\ at'[2] \in 1 .. Len(Chains[at'[1]])
      <4> DEFINE chain == Chains[at[1]]
                 asExpected == Call(Cur, chain[at[2]][1]).ret = chain[at[2]][2]
      <4>1. at' = IF asExpected /\ at[2] < Len(chain) THEN <<at[1], at[2] + 1>>
                  ELSE IF at[1] < Len(Chains) THEN <<at[1] + 1, 1>> ELSE Idle
        BY <2>3 DEF TestCall
      <4>2. at[2] < Len(chain) => at[2] + 1 \in 1 .. Len(chain)
        BY <3>1, <3>4, ChainCalls
      <4>3. at[1] < Len(Chains) => at[1] + 1 \in 1 .. Len(Chains) /\ 1 \in 1 .. Len(Chains[at[1] + 1])
        <5>1. at[1] < Len(Chains) => at[1] + 1 \in 1 .. 10
          BY <3>1, ChainCalls
        <5>2. QED BY <5>1, ChainCalls, FirstOf, Zenon
      <4> HIDE DEF asExpected
      <4>4. \/ at[2] < Len(chain) /\ at' = <<at[1], at[2] + 1>>
            \/ at[1] < Len(Chains) /\ at' = <<at[1] + 1, 1>>
            \/ at' = Idle
        BY <4>1, Zenon
      <4> HIDE DEF chain
      <4>5. QED BY <3>1, <4>2, <4>3, <4>4 DEF chain
    <3>6. QED BY <2>3, <3>3, <3>5 DEF TestCall
  <2>4. ASSUME Untested PROVE KInv'
    BY <2>4 DEF Untested, vmmvars, pdvars, PDInv, KernelEntries
  <2>5. ASSUME Used, Calls(Topics \cup {"flags"}) PROVE KInv'
    <3>1. CASE initVMM
      BY <2>5, <3>1, BootKeeps DEF Used, initVMM
    <3>2. CASE PDCall((Topics \cup {"flags"}) \ {"flags"}) /\ UNCHANGED vmmPageTableProp
      <4>1. PDInv'
        BY <3>2, DirectoryCallKeeps, EntryCallKeeps, PageDirAssumption DEF PDCall
      <4>2. QED BY <2>5, <3>2, <4>1 DEF Used
    <3>3. CASE VMMCall
      <4>1. PICK a \in VPages : vmmSetKrnlMem(a) \/ vmmSetUserMem(a)
        BY <3>3 DEF VMMCall
      <4>2. FlagOf(a) \in Nat \X Idx
        BY FlagPlaces
      <4>3. ret' \in BOOLEAN
        <5>1. (FlagOf(a) \in vmmPageTableProp) \in BOOLEAN
              /\ (~(FlagOf(a) \in vmmPageTableProp)) \in BOOLEAN
          OBVIOUS
        <5>2. QED BY <4>1, <5>1, Zenon DEF vmmSetKrnlMem, vmmSetUserMem, vmmIsKrnlMem, vmmIsUserMem
      <4>4. PDInv'
        BY <4>1, <4>3 DEF vmmSetKrnlMem, vmmSetUserMem, PDInv, KernelEntries
      <4>5. QED BY <2>5, <4>1, <4>2, <4>4 DEF Used, vmmSetKrnlMem, vmmSetUserMem
    <3>4. QED BY <2>5, <3>1, <3>2, <3>3 DEF Calls
  <2>6. CASE UNCHANGED pvars
    BY <2>6 DEF pvars, vmmvars, pdvars, PDInv, KernelEntries
  <2>7. QED BY <2>1, <2>2, <2>3, <2>4, <2>5, <2>6 DEF PNext
<1>3. QED BY <1>1, <1>2, PTL DEF Spec

\* Whatever is called and synced, the kernel's half of its directory stays mapped,
\* writable, closed to users and at its tables (pgdir.c:331, 406, 562).
THEOREM KernelHalfAlwaysKept == Spec => []KernelHalfKept
<1>1. KInv => KernelHalfKept
  BY DEF KInv, PDInv, KernelHalfKept, KernelEntry
<1>2. QED BY <1>1, PagingInvariance, PTL

\* Fixing an entry that was fixed changes nothing.
LEMMA FixTwice ==
  ASSUME NEW e \in Entry, NEW mask
  PROVE  LET g == Masked(e, mask) IN
         /\ g.attrs = e.attrs \cap mask
         /\ Masked(g, mask) = g
<1> DEFINE f == e.frame - (e.frame % 2)
<1>1. f \in Nat /\ f - (f % 2) = f
  BY EvenFrame DEF Entry
<1>2. Masked(e, mask) = [attrs |-> e.attrs \cap mask, frame |-> f]
  BY DEF Masked
<1> HIDE DEF f
<1>3. Masked([attrs |-> e.attrs \cap mask, frame |-> f], mask)
        = [attrs |-> e.attrs \cap mask, frame |-> f]
  <2>1. (e.attrs \cap mask) \cap mask = e.attrs \cap mask
    OBVIOUS
  <2>2. QED BY <1>1, <2>1 DEF Masked
<1>4. QED BY <1>2, <1>3

\* A sync that fixes grants nothing, leaves nothing beyond what the array says, and
\* leaves a second one nothing to do (pgdir.c:562, 573-592).
THEOREM SyncsSettle == Spec => SyncSettles
<1> DEFINE Settled ==
      /\ pgdirSyncAttr(Cur', TRUE).m = Cur'
      /\ \A i \in Idx :
           /\ Cur'.dir[i].attrs \subseteq Cur.dir[i].attrs
           /\ Present(Cur'.dir[i]) => Cur'.dir[i].attrs \subseteq pgdirPropToAttr(Cur', i)
<1>1. ASSUME KInv, ValidatePgDir(TRUE) PROVE Settled
  <2> DEFINE Mask(i) == pgdirPropToAttr(Cur, i)
             Fixed(i) == IF Present(Cur.dir[i]) THEN pgdirFixPde(Cur, i) ELSE Cur.dir[i]
  <2>1. Fits(Cur) /\ curDir \in Spaces /\ curProps = curDir
    BY <1>1, CurGood DEF KInv, PDInv, ValidatePgDir, Do, Good
  <2>2. Cur' = [dir |-> [i \in Idx |-> Fixed(i)], props |-> Cur.props, astray |-> Cur.astray]
    <3>1. Do(pgdirSyncAttr(Cur, TRUE))
      BY <1>1 DEF ValidatePgDir
    <3>2. pgdirSyncAttr(Cur, TRUE).m = [Cur EXCEPT !.dir = [i \in Idx |-> Fixed(i)]]
      BY DEF pgdirSyncAttr, Answer
    <3> HIDE DEF Fixed
    <3>3. dirs'[curDir] = [i \in Idx |-> Fixed(i)] /\ props'[curProps] = props[curProps]
          /\ astray' = astray /\ curDir' = curDir /\ curProps' = curProps
      BY <1>1, <2>1, <3>1, <3>2 DEF Do, Cur, KInv, PDInv
    <3>4. QED BY <3>3 DEF Cur
  <2>3. ASSUME NEW i \in Idx
        PROVE  \/ Fixed(i) = Cur.dir[i] /\ (Present(Fixed(i)) => Fixed(i).attrs = Mask(i))
               \/ /\ Fixed(i).attrs = Cur.dir[i].attrs \cap Mask(i)
                  /\ Masked(Fixed(i), Mask(i)) = Fixed(i)
    <3>1. Cur.dir[i] \in Entry
      BY <2>1 DEF Fits
    <3>2. QED BY <3>1, FixTwice DEF pgdirFixPde, pgdirEvalPde
  <2>4. \A i \in Idx : pgdirPropToAttr(Cur', i) = Mask(i) /\ Cur'.dir[i] = Fixed(i)
    <3> HIDE DEF Fixed
    <3>1. QED BY <2>2 DEF pgdirPropToAttr
  <2> HIDE DEF Mask, Fixed
  <2>5. ASSUME NEW i \in Idx
        PROVE  (IF Present(Cur'.dir[i]) THEN pgdirFixPde(Cur', i) ELSE Cur'.dir[i]) = Fixed(i)
    BY <2>3, <2>4 DEF pgdirFixPde, pgdirEvalPde
  <2>6. pgdirSyncAttr(Cur', TRUE).m = Cur'
    <3>1. pgdirSyncAttr(Cur', TRUE).m = [Cur' EXCEPT !.dir =
            [i \in Idx |-> IF Present(Cur'.dir[i]) THEN pgdirFixPde(Cur', i) ELSE Cur'.dir[i]]]
      BY DEF pgdirSyncAttr, Answer
    <3>2. [i \in Idx |-> IF Present(Cur'.dir[i]) THEN pgdirFixPde(Cur', i) ELSE Cur'.dir[i]]
            = [i \in Idx |-> Fixed(i)]
      BY <2>5
    <3>3. QED BY <2>2, <3>1, <3>2
  <2>7. QED BY <2>3, <2>4, <2>6
<1>2. KInv /\ [PNext(Topics \cup {"flags"})]_pvars => [ValidatePgDir(TRUE) => Settled]_pvars
  BY <1>1
<1>3. QED BY <1>2, PagingInvariance, PTL DEF Spec, SyncSettles

-----------------------------------------------------------------------------
(* Addresses and indices.                                                  *)

\* The quotient of a number between two multiples.
LEMMA Quotient ==
  ASSUME NEW a \in Nat, NEW p \in Nat \ {0}, NEW q \in Nat, q * p <= a, a < (q + 1) * p
  PROVE  a \div p = q
<1>1. PICK d \in Nat : d = a \div p
  OBVIOUS
<1>2. d * p <= a /\ a < (d + 1) * p
  BY <1>1
<1>3. ASSUME NEW x \in Nat, NEW y \in Nat, x < y, y * p <= a PROVE ~(a < (x + 1) * p)
  <2>1. (x + 1) * p <= y * p
    BY <1>3
  <2>2. x + 1 \in Nat /\ (x + 1) * p \in Nat /\ y * p \in Nat
    OBVIOUS
  <2> QED BY <1>3, <2>1, <2>2
<1>4. ~(d < q) /\ ~(q < d)
  BY <1>2, <1>3
<1> QED BY <1>1, <1>4

\* The tests of addresses pass: the index in a page table is asked for only where
\* it is the directory's (vmm.c:92).
LEMMA AddressesPass == AddressTests
<1>1. /\ NumEntries \in Nat \ {0} /\ PerTable \in Nat \ {0} /\ NumEntries <= PerTable
      /\ Idx = 0 .. NumEntries - 1 /\ FirstKernel \in Idx
  BY PageDirAssumption, VMMAssumption DEF Idx
<1>2. /\ AddrFromPdePte(NumEntries, 0) = NumEntries * PerTable
      /\ AddrFromPdePte(0, PerTable) = NumEntries * PerTable
  BY <1>1 DEF AddrFromPdePte, vmmPdePteValid
<1>3. AddrFromPdePte(0, 0) = 0
  BY <1>1 DEF AddrFromPdePte, vmmPdePteValid
<1>4. AddrFromPdePte(Top, Top) = Top * PerTable + Top
  BY <1>1 DEF AddrFromPdePte, vmmPdePteValid, Top
<1>5. 0 \div PerTable = 0
  BY <1>1
<1>6. \A i \in Idx : i % NumEntries = i
  BY <1>1
<1>7. PdeFromAddress(0) = 0 /\ PteFromAddress(0) = 0
  BY <1>1, <1>5, <1>6 DEF PdeFromAddress, PteFromAddress
<1>8. PdeFromAddress(FirstKernel * PerTable) = FirstKernel
  <2>1. FirstKernel \in Nat /\ FirstKernel * PerTable \in Nat
    BY <1>1
  <2>2. FirstKernel * PerTable < (FirstKernel + 1) * PerTable
    BY <1>1, <2>1
  <2>3. (FirstKernel * PerTable) \div PerTable = FirstKernel
    BY <1>1, <2>1, <2>2, Quotient
  <2> QED BY <1>1, <1>6, <2>3 DEF PdeFromAddress
<1>9. (NumEntries * PerTable - 1) \div PerTable = Top /\ Top \in Idx
  <2>1. Top \in Nat /\ NumEntries = Top + 1 /\ Top \in Idx
    BY <1>1 DEF Top
  <2>2. PICK a : a = NumEntries * PerTable - 1
    OBVIOUS
  <2>3. Top * PerTable \in Nat /\ (Top + 1) * PerTable = Top * PerTable + PerTable
    BY <1>1, <2>1
  <2>6. NumEntries * PerTable = (Top + 1) * PerTable
    BY <2>1, Zenon
  <2>7. PICK t \in Nat : t = Top * PerTable
    BY <2>3
  <2>4. a = t + PerTable - 1
    BY <1>1, <2>2, <2>3, <2>6, <2>7
  <2>5. a \in Nat /\ Top * PerTable <= a /\ a < (Top + 1) * PerTable
    BY <1>1, <2>3, <2>4, <2>7
  <2> QED BY <1>1, <2>1, <2>2, <2>5, Quotient
<1>10. PdeFromAddress(NumEntries * PerTable - 1) = Top /\ PteFromAddress(NumEntries * PerTable - 1) = Top
  BY <1>6, <1>9 DEF PdeFromAddress, PteFromAddress
<1>11. ~pgdirIsValidIdx(NumEntries) /\ pgdirIsValidIdx(0) /\ pgdirIsValidIdx(Top)
  BY <1>1, <1>9 DEF pgdirIsValidIdx
<1> QED BY <1>2, <1>3, <1>4, <1>7, <1>8, <1>10, <1>11 DEF AddressTests

-----------------------------------------------------------------------------
(* The kernel's own tests.                                                 *)

Mapped0 == {"present", "write"}

\* What the chains have made of entry 0 when they come to a call: of the array, and
\* of the directory.
ArrayAt(c, s) ==
  IF c = 2 /\ s \in {2, 3} THEN Mapped0 \cup {"global"}
  ELSE IF c = 6 /\ s \in {2, 3} THEN Mapped0 \cup {"4M"}
  ELSE IF c = 10 THEN Mapped0 \cup {"user"} ELSE Mapped0
DirAt(c, s) ==
  IF c = 4 /\ s \in {2, 3} THEN Mapped0 \cup {"global"}
  ELSE IF c = 8 /\ s \in {2, 3} THEN Mapped0 \cup {"4M"} ELSE Mapped0

\* The kernel's directory is as boot left it, and its array as initVMM fills it.
Untouched ==
  /\ curDir = Kernel /\ curProps = Kernel /\ at = Idle /\ dirs[Kernel] = BootDir
  /\ up => \A i \in Idx : Present(BootDir[i]) => props[Kernel][i] = BootDir[i].attrs
UnderTest ==
  /\ up /\ tested = "passed" /\ curDir = Kernel /\ curProps = Kernel
  /\ dirs[Kernel][0].attrs = DirAt(at[1], at[2])
  /\ props[Kernel][0] = ArrayAt(at[1], at[2])

TestInv ==
  /\ tested # "failed"
  /\ ~up => tested = "no"
  /\ tested = "no" => Untouched
  /\ at # Idle => UnderTest

\* What a call answers, and leaves of entry 0's array and attributes.
Does(o, r, A, D) == o.ret = r /\ o.m.props[0] = A /\ o.m.dir[0].attrs = D

\* What each call answers and does, by the flag it is about.
LEMMA CallDoes ==
  ASSUME NEW m, Fits(m), NEW A, NEW D, m.props[0] = A, m.dir[0].attrs = D
  PROVE  /\ "global" \notin A => Does(Call(m, "SetGlobal"), TRUE, A \cup {"global"}, D)
         /\ "global" \in A => Does(Call(m, "ClearGlobal"), TRUE, A \ {"global"}, D)
         /\ "global" \in A => Does(Call(m, "IsGlobal"), TRUE, A, D)
         /\ "global" \notin A => Does(Call(m, "IsGlobal"), FALSE, A, D)
         /\ "global" \notin D => Does(Call(m, "GlobalMemOn"), TRUE, A, D \cup {"global"})
         /\ "global" \in D => Does(Call(m, "GlobalMemOff"), TRUE, A, D \ {"global"})
         /\ "global" \in D => Does(Call(m, "IsGlobalMem"), TRUE, A, D)
         /\ "global" \notin D => Does(Call(m, "IsGlobalMem"), FALSE, A, D)
         /\ "4M" \notin A => Does(Call(m, "Set4M"), TRUE, A \cup {"4M"}, D)
         /\ Does(Call(m, "Clear4M"), TRUE, A \ {"4M"}, D)
         /\ "4M" \in A => Does(Call(m, "Is4M"), TRUE, A, D)
         /\ "4M" \notin A => Does(Call(m, "Is4M"), FALSE, A, D)
         /\ "4M" \notin D => Does(Call(m, "4MMemOn"), TRUE, A, D \cup {"4M"})
         /\ "4M" \in D => Does(Call(m, "4MMemOff"), TRUE, A, D \ {"4M"})
         /\ "4M" \in D => Does(Call(m, "Is4MMem"), TRUE, A, D)
         /\ "4M" \notin D => Does(Call(m, "Is4MMem"), FALSE, A, D)
         /\ Does(Call(m, "SetKernelPage"), TRUE, A \ {"user"}, D)
         /\ Does(Call(m, "SetUserPage"), TRUE, A \cup {"user"}, D)
         /\ "user" \in A => Does(Call(m, "IsKernelPage"), FALSE, A, D)
         /\ "user" \notin A => Does(Call(m, "IsKernelPage"), TRUE, A, D)
         /\ "user" \in A => Does(Call(m, "IsUserPage"), TRUE, A, D)
         /\ "user" \notin A => Does(Call(m, "IsUserPage"), FALSE, A, D)
<1>1. 0 \in Idx /\ pgdirIsValidIdx(0)
  BY PageDirAssumption DEF Idx, pgdirIsValidIdx
<1>2. /\ m.props \in [Idx -> SUBSET Attrs] /\ m.dir \in [Idx -> Entry]
      /\ m \in [dir : [Idx -> Entry], props : [Idx -> SUBSET Attrs], astray : BOOLEAN]
  BY DEF Fits
<1>3. ASSUME NEW a, NEW r \in BOOLEAN
      PROVE  /\ Does(Given(m, 0, a), TRUE, A \cup {a}, D)
             /\ Does(Taken(m, 0, a), TRUE, A \ {a}, D)
             /\ Does(Answer(m, r), r, A, D)
  BY <1>1, <1>2 DEF Given, Taken, Answer, Does
<1>4. ASSUME NEW a
      PROVE  /\ Does(GivenMem(m, 0, a), TRUE, A, D \cup {a})
             /\ Does(TakenMem(m, 0, a), TRUE, A, D \ {a})
  BY <1>1, <1>2 DEF GivenMem, TakenMem, Answer, Does, Entry
<1>5. /\ Call(m, "SetGlobal") = pgdirSetGlobal(m, 0)
      /\ Call(m, "ClearGlobal") = pgdirClearGlobal(m, 0)
      /\ Call(m, "IsGlobal") = Answer(m, pgdirIsGlobal(m, 0))
      /\ Call(m, "GlobalMemOn") = pgdirChgGlobalMem(m, 0, TRUE)
      /\ Call(m, "GlobalMemOff") = pgdirChgGlobalMem(m, 0, FALSE)
      /\ Call(m, "IsGlobalMem") = Answer(m, pgdirIsGlobalMem(m, 0))
      /\ Call(m, "Set4M") = pgdirSet4M(m, 0)
      /\ Call(m, "Clear4M") = pgdirClear4M(m, 0)
      /\ Call(m, "Is4M") = Answer(m, pgdirIs4M(m, 0))
      /\ Call(m, "4MMemOn") = pgdirChg4MMem(m, 0, TRUE)
      /\ Call(m, "4MMemOff") = pgdirChg4MMem(m, 0, FALSE)
      /\ Call(m, "Is4MMem") = Answer(m, pgdirIs4MMem(m, 0))
      /\ Call(m, "SetKernelPage") = pgdirSetKernelPage(m, 0)
      /\ Call(m, "SetUserPage") = pgdirSetUserPage(m, 0)
      /\ Call(m, "IsKernelPage") = Answer(m, pgdirIsKernelPage(m, 0))
      /\ Call(m, "IsUserPage") = Answer(m, pgdirIsUserPage(m, 0))
  BY DEF Call
<1>6. /\ "global" \in A => pgdirIsGlobal(m, 0) = TRUE
      /\ "global" \notin A => pgdirIsGlobal(m, 0) = FALSE
      /\ "global" \in D => pgdirIsGlobalMem(m, 0) = TRUE
      /\ "global" \notin D => pgdirIsGlobalMem(m, 0) = FALSE
      /\ "4M" \in A => pgdirIs4M(m, 0) = TRUE
      /\ "4M" \notin A => pgdirIs4M(m, 0) = FALSE
      /\ "4M" \in D => pgdirIs4MMem(m, 0) = TRUE
      /\ "4M" \notin D => pgdirIs4MMem(m, 0) = FALSE
      /\ "user" \in A => pgdirIsUserPage(m, 0) = TRUE
      /\ "user" \notin A => pgdirIsUserPage(m, 0) = FALSE
      /\ "user" \in A => pgdirIsKernelPage(m, 0) = FALSE
      /\ "user" \notin A => pgdirIsKernelPage(m, 0) = TRUE
  BY <1>1 DEF pgdirIsGlobal, pgdirIsGlobalMem, pgdirIs4M, pgdirIs4MMem, pgdirIsUserPage,
              pgdirIsKernelPage
<1>8. /\ "global" \in A => Does(Call(m, "IsGlobal"), TRUE, A, D)
      /\ "global" \notin A => Does(Call(m, "IsGlobal"), FALSE, A, D)
      /\ "global" \in D => Does(Call(m, "IsGlobalMem"), TRUE, A, D)
      /\ "global" \notin D => Does(Call(m, "IsGlobalMem"), FALSE, A, D)
      /\ "4M" \in A => Does(Call(m, "Is4M"), TRUE, A, D)
      /\ "4M" \notin A => Does(Call(m, "Is4M"), FALSE, A, D)
      /\ "4M" \in D => Does(Call(m, "Is4MMem"), TRUE, A, D)
      /\ "4M" \notin D => Does(Call(m, "Is4MMem"), FALSE, A, D)
      /\ "user" \in A => Does(Call(m, "IsUserPage"), TRUE, A, D)
      /\ "user" \notin A => Does(Call(m, "IsUserPage"), FALSE, A, D)
      /\ "user" \in A => Does(Call(m, "IsKernelPage"), FALSE, A, D)
      /\ "user" \notin A => Does(Call(m, "IsKernelPage"), TRUE, A, D)
  BY <1>3, <1>5, <1>6
<1>9. /\ "global" \notin A => Does(pgdirSetGlobal(m, 0), TRUE, A \cup {"global"}, D)
      /\ "global" \in A => Does(pgdirClearGlobal(m, 0), TRUE, A \ {"global"}, D)
  BY <1>3, <1>6 DEF pgdirSetGlobal, pgdirClearGlobal
<1>10. /\ "global" \notin D => Does(pgdirChgGlobalMem(m, 0, TRUE), TRUE, A, D \cup {"global"})
       /\ "global" \in D => Does(pgdirChgGlobalMem(m, 0, FALSE), TRUE, A, D \ {"global"})
  BY <1>1, <1>4, <1>6 DEF pgdirChgGlobalMem
<1>11. /\ "4M" \notin A => Does(pgdirSet4M(m, 0), TRUE, A \cup {"4M"}, D)
       /\ Does(pgdirClear4M(m, 0), TRUE, A \ {"4M"}, D)
  BY <1>1, <1>3, <1>6 DEF pgdirSet4M, pgdirClear4M
<1>12. /\ "4M" \notin D => Does(pgdirChg4MMem(m, 0, TRUE), TRUE, A, D \cup {"4M"})
       /\ "4M" \in D => Does(pgdirChg4MMem(m, 0, FALSE), TRUE, A, D \ {"4M"})
  BY <1>1, <1>4, <1>6 DEF pgdirChg4MMem
<1>13. /\ Does(pgdirSetKernelPage(m, 0), TRUE, A \ {"user"}, D)
       /\ Does(pgdirSetUserPage(m, 0), TRUE, A \cup {"user"}, D)
  BY <1>1, <1>3 DEF pgdirSetKernelPage, pgdirSetUserPage
<1> QED
  BY <1>5, <1>8, <1>9, <1>10, <1>11, <1>12, <1>13

\* The chains, call by call.
LEMMA ChainsAre ==
  /\ Len(Chains) = 10
  /\ Chains[1] = << <<"IsGlobal", FALSE>> >>
  /\ Chains[2] = << <<"SetGlobal", TRUE>>, <<"IsGlobal", TRUE>>,
                    <<"ClearGlobal", TRUE>>, <<"IsGlobal", FALSE>> >>
  /\ Chains[3] = << <<"IsGlobalMem", FALSE>> >>
  /\ Chains[4] = << <<"GlobalMemOn", TRUE>>, <<"IsGlobalMem", TRUE>>,
                    <<"GlobalMemOff", TRUE>>, <<"IsGlobalMem", FALSE>> >>
  /\ Chains[5] = << <<"Is4M", FALSE>> >>
  /\ Chains[6] = << <<"Set4M", TRUE>>, <<"Is4M", TRUE>>,
                    <<"Clear4M", TRUE>>, <<"Is4M", FALSE>> >>
  /\ Chains[7] = << <<"Is4MMem", FALSE>> >>
  /\ Chains[8] = << <<"4MMemOn", TRUE>>, <<"Is4MMem", TRUE>>,
                    <<"4MMemOff", TRUE>>, <<"Is4MMem", FALSE>> >>
  /\ Chains[9] = << <<"IsUserPage", FALSE>>, <<"SetKernelPage", TRUE>>,
                    <<"IsKernelPage", TRUE>>, <<"SetUserPage", TRUE>> >>
  /\ Chains[10] = << <<"IsKernelPage", FALSE>> >>
BY DEF Chains, OnOff

\* The flags the tests take on and off are not among those of entry 0.
LEMMA FlagSets ==
  /\ "global" \notin Mapped0 /\ "4M" \notin Mapped0 /\ "user" \notin Mapped0
  /\ (Mapped0 \cup {"global"}) \ {"global"} = Mapped0
  /\ (Mapped0 \cup {"4M"}) \ {"4M"} = Mapped0
  /\ Mapped0 \ {"user"} = Mapped0
BY DEF Mapped0

\* Entry 0 of the array and of the directory as at the call s of the chain c.
AsAt(m, c, s) == m.props[0] = ArrayAt(c, s) /\ m.dir[0].attrs = DirAt(c, s)

\* What a test expects of a call's answer, and the next call of what it leaves.
AsExpected(o, c, s) ==
  /\ o.ret = Chains[c][s][2]
  /\ s < Len(Chains[c]) => AsAt(o.m, c, s + 1)
  /\ s = Len(Chains[c]) /\ c < 10 => AsAt(o.m, c + 1, 1)

\* Every call answers as expected and leaves what the next one starts from.
LEMMA AnswersExpected ==
  ASSUME NEW m, Fits(m), NEW c \in 1..10, NEW s \in 1..Len(Chains[c]), AsAt(m, c, s)
  PROVE  AsExpected(Call(m, Chains[c][s][1]), c, s)
<1>1. m.props[0] = ArrayAt(c, s) /\ m.dir[0].attrs = DirAt(c, s)
  BY DEF AsAt
<1>2. CASE c = 1
  <2>0. Len(Chains[c]) = 1
    BY <1>2, ChainsAre
  <2>1. CASE s = 1
    <3>1. Chains[c][s][1] = "IsGlobal" /\ Chains[c][s][2] = FALSE
      BY <1>2, <2>1, ChainsAre
    <3>2. m.props[0] = Mapped0 /\ m.dir[0].attrs = Mapped0
      BY <1>1, <1>2, <2>1 DEF ArrayAt, DirAt
    <3>3. PICK o : o = Call(m, "IsGlobal")
      OBVIOUS
    <3>5. Does(o, FALSE, Mapped0, Mapped0)
      BY <3>2, <3>3, CallDoes, FlagSets
    <3>6. AsAt(o.m, 2, 1)
      BY <3>5 DEF Does, AsAt, ArrayAt, DirAt
    <3>7. Call(m, Chains[c][s][1]) = o
      BY <3>1, <3>3
    <3>8. o.ret = Chains[c][s][2]
      BY Zenon, <3>1, <3>5 DEF Does
    <3>9. /\ s < Len(Chains[c]) => AsAt(o.m, c, s + 1)
          /\ s = Len(Chains[c]) /\ c < 10 => AsAt(o.m, c + 1, 1)
      BY <1>2, <2>0, <2>1, <3>6
    <3> QED BY <3>7, <3>8, <3>9 DEF AsExpected
  <2> QED BY <2>0, <2>1
<1>3. CASE c = 2
  <2>0. Len(Chains[c]) = 4
    BY <1>3, ChainsAre
  <2>1. CASE s = 1
    <3>1. Chains[c][s][1] = "SetGlobal" /\ Chains[c][s][2] = TRUE
      BY <1>3, <2>1, ChainsAre
    <3>2. m.props[0] = Mapped0 /\ m.dir[0].attrs = Mapped0
      BY <1>1, <1>3, <2>1 DEF ArrayAt, DirAt
    <3>3. PICK o : o = Call(m, "SetGlobal")
      OBVIOUS
    <3>5. Does(o, TRUE, Mapped0 \cup {"global"}, Mapped0)
      BY <3>2, <3>3, CallDoes, FlagSets
    <3>6. AsAt(o.m, 2, 2)
      BY <3>5 DEF Does, AsAt, ArrayAt, DirAt
    <3>7. Call(m, Chains[c][s][1]) = o
      BY <3>1, <3>3
    <3>8. o.ret = Chains[c][s][2]
      BY Zenon, <3>1, <3>5 DEF Does
    <3>9. /\ s < Len(Chains[c]) => AsAt(o.m, c, s + 1)
          /\ s = Len(Chains[c]) /\ c < 10 => AsAt(o.m, c + 1, 1)
      BY <1>3, <2>0, <2>1, <3>6
    <3> QED BY <3>7, <3>8, <3>9 DEF AsExpected
  <2>2. CASE s = 2
    <3>1. Chains[c][s][1] = "IsGlobal" /\ Chains[c][s][2] = TRUE
      BY <1>3, <2>2, ChainsAre
    <3>2. m.props[0] = Mapped0 \cup {"global"} /\ m.dir[0].attrs = Mapped0
      BY <1>1, <1>3, <2>2 DEF ArrayAt, DirAt
    <3>3. PICK o : o = Call(m, "IsGlobal")
      OBVIOUS
    <3>5. Does(o, TRUE, Mapped0 \cup {"global"}, Mapped0)
      BY <3>2, <3>3, CallDoes, FlagSets
    <3>6. AsAt(o.m, 2, 3)
      BY <3>5 DEF Does, AsAt, ArrayAt, DirAt
    <3>7. Call(m, Chains[c][s][1]) = o
      BY <3>1, <3>3
    <3>8. o.ret = Chains[c][s][2]
      BY Zenon, <3>1, <3>5 DEF Does
    <3>9. /\ s < Len(Chains[c]) => AsAt(o.m, c, s + 1)
          /\ s = Len(Chains[c]) /\ c < 10 => AsAt(o.m, c + 1, 1)
      BY <1>3, <2>0, <2>2, <3>6
    <3> QED BY <3>7, <3>8, <3>9 DEF AsExpected
  <2>3. CASE s = 3
    <3>1. Chains[c][s][1] = "ClearGlobal" /\ Chains[c][s][2] = TRUE
      BY <1>3, <2>3, ChainsAre
    <3>2. m.props[0] = Mapped0 \cup {"global"} /\ m.dir[0].attrs = Mapped0
      BY <1>1, <1>3, <2>3 DEF ArrayAt, DirAt
    <3>3. PICK o : o = Call(m, "ClearGlobal")
      OBVIOUS
    <3>4. Does(o, TRUE, (Mapped0 \cup {"global"}) \ {"global"}, Mapped0)
      BY <3>2, <3>3, CallDoes
    <3>5. Does(o, TRUE, Mapped0, Mapped0)
      BY <3>4, FlagSets
    <3>6. AsAt(o.m, 2, 4)
      BY <3>5 DEF Does, AsAt, ArrayAt, DirAt
    <3>7. Call(m, Chains[c][s][1]) = o
      BY <3>1, <3>3
    <3>8. o.ret = Chains[c][s][2]
      BY Zenon, <3>1, <3>5 DEF Does
    <3>9. /\ s < Len(Chains[c]) => AsAt(o.m, c, s + 1)
          /\ s = Len(Chains[c]) /\ c < 10 => AsAt(o.m, c + 1, 1)
      BY <1>3, <2>0, <2>3, <3>6
    <3> QED BY <3>7, <3>8, <3>9 DEF AsExpected
  <2>4. CASE s = 4
    <3>1. Chains[c][s][1] = "IsGlobal" /\ Chains[c][s][2] = FALSE
      BY <1>3, <2>4, ChainsAre
    <3>2. m.props[0] = Mapped0 /\ m.dir[0].attrs = Mapped0
      BY <1>1, <1>3, <2>4 DEF ArrayAt, DirAt
    <3>3. PICK o : o = Call(m, "IsGlobal")
      OBVIOUS
    <3>5. Does(o, FALSE, Mapped0, Mapped0)
      BY <3>2, <3>3, CallDoes, FlagSets
    <3>6. AsAt(o.m, 3, 1)
      BY <3>5 DEF Does, AsAt, ArrayAt, DirAt
    <3>7. Call(m, Chains[c][s][1]) = o
      BY <3>1, <3>3
    <3>8. o.ret = Chains[c][s][2]
      BY Zenon, <3>1, <3>5 DEF Does
    <3>9. /\ s < Len(Chains[c]) => AsAt(o.m, c, s + 1)
          /\ s = Len(Chains[c]) /\ c < 10 => AsAt(o.m, c + 1, 1)
      BY <1>3, <2>0, <2>4, <3>6
    <3> QED BY <3>7, <3>8, <3>9 DEF AsExpected
  <2> QED BY <2>0, <2>1, <2>2, <2>3, <2>4
<1>4. CASE c = 3
  <2>0. Len(Chains[c]) = 1
    BY <1>4, ChainsAre
  <2>1. CASE s = 1
    <3>1. Chains[c][s][1] = "IsGlobalMem" /\ Chains[c][s][2] = FALSE
      BY <1>4, <2>1, ChainsAre
    <3>2. m.props[0] = Mapped0 /\ m.dir[0].attrs = Mapped0
      BY <1>1, <1>4, <2>1 DEF ArrayAt, DirAt
    <3>3. PICK o : o = Call(m, "IsGlobalMem")
      OBVIOUS
    <3>5. Does(o, FALSE, Mapped0, Mapped0)
      BY <3>2, <3>3, CallDoes, FlagSets
    <3>6. AsAt(o.m, 4, 1)
      BY <3>5 DEF Does, AsAt, ArrayAt, DirAt
    <3>7. Call(m, Chains[c][s][1]) = o
      BY <3>1, <3>3
    <3>8. o.ret = Chains[c][s][2]
      BY Zenon, <3>1, <3>5 DEF Does
    <3>9. /\ s < Len(Chains[c]) => AsAt(o.m, c, s + 1)
          /\ s = Len(Chains[c]) /\ c < 10 => AsAt(o.m, c + 1, 1)
      BY <1>4, <2>0, <2>1, <3>6
    <3> QED BY <3>7, <3>8, <3>9 DEF AsExpected
  <2> QED BY <2>0, <2>1
<1>5. CASE c = 4
  <2>0. Len(Chains[c]) = 4
    BY <1>5, ChainsAre
  <2>1. CASE s = 1
    <3>1. Chains[c][s][1] = "GlobalMemOn" /\ Chains[c][s][2] = TRUE
      BY <1>5, <2>1, ChainsAre
    <3>2. m.props[0] = Mapped0 /\ m.dir[0].attrs = Mapped0
      BY <1>1, <1>5, <2>1 DEF ArrayAt, DirAt
    <3>3. PICK o : o = Call(m, "GlobalMemOn")
      OBVIOUS
    <3>5. Does(o, TRUE, Mapped0, Mapped0 \cup {"global"})
      BY <3>2, <3>3, CallDoes, FlagSets
    <3>6. AsAt(o.m, 4, 2)
      BY <3>5 DEF Does, AsAt, ArrayAt, DirAt
    <3>7. Call(m, Chains[c][s][1]) = o
      BY <3>1, <3>3
    <3>8. o.ret = Chains[c][s][2]
      BY Zenon, <3>1, <3>5 DEF Does
    <3>9. /\ s < Len(Chains[c]) => AsAt(o.m, c, s + 1)
          /\ s = Len(Chains[c]) /\ c < 10 => AsAt(o.m, c + 1, 1)
      BY <1>5, <2>0, <2>1, <3>6
    <3> QED BY <3>7, <3>8, <3>9 DEF AsExpected
  <2>2. CASE s = 2
    <3>1. Chains[c][s][1] = "IsGlobalMem" /\ Chains[c][s][2] = TRUE
      BY <1>5, <2>2, ChainsAre
    <3>2. m.props[0] = Mapped0 /\ m.dir[0].attrs = Mapped0 \cup {"global"}
      BY <1>1, <1>5, <2>2 DEF ArrayAt, DirAt
    <3>3. PICK o : o = Call(m, "IsGlobalMem")
      OBVIOUS
    <3>5. Does(o, TRUE, Mapped0, Mapped0 \cup {"global"})
      BY <3>2, <3>3, CallDoes, FlagSets
    <3>6. AsAt(o.m, 4, 3)
      BY <3>5 DEF Does, AsAt, ArrayAt, DirAt
    <3>7. Call(m, Chains[c][s][1]) = o
      BY <3>1, <3>3
    <3>8. o.ret = Chains[c][s][2]
      BY Zenon, <3>1, <3>5 DEF Does
    <3>9. /\ s < Len(Chains[c]) => AsAt(o.m, c, s + 1)
          /\ s = Len(Chains[c]) /\ c < 10 => AsAt(o.m, c + 1, 1)
      BY <1>5, <2>0, <2>2, <3>6
    <3> QED BY <3>7, <3>8, <3>9 DEF AsExpected
  <2>3. CASE s = 3
    <3>1. Chains[c][s][1] = "GlobalMemOff" /\ Chains[c][s][2] = TRUE
      BY <1>5, <2>3, ChainsAre
    <3>2. m.props[0] = Mapped0 /\ m.dir[0].attrs = Mapped0 \cup {"global"}
      BY <1>1, <1>5, <2>3 DEF ArrayAt, DirAt
    <3>3. PICK o : o = Call(m, "GlobalMemOff")
      OBVIOUS
    <3>4. Does(o, TRUE, Mapped0, (Mapped0 \cup {"global"}) \ {"global"})
      BY <3>2, <3>3, CallDoes
    <3>5. Does(o, TRUE, Mapped0, Mapped0)
      BY <3>4, FlagSets
    <3>6. AsAt(o.m, 4, 4)
      BY <3>5 DEF Does, AsAt, ArrayAt, DirAt
    <3>7. Call(m, Chains[c][s][1]) = o
      BY <3>1, <3>3
    <3>8. o.ret = Chains[c][s][2]
      BY Zenon, <3>1, <3>5 DEF Does
    <3>9. /\ s < Len(Chains[c]) => AsAt(o.m, c, s + 1)
          /\ s = Len(Chains[c]) /\ c < 10 => AsAt(o.m, c + 1, 1)
      BY <1>5, <2>0, <2>3, <3>6
    <3> QED BY <3>7, <3>8, <3>9 DEF AsExpected
  <2>4. CASE s = 4
    <3>1. Chains[c][s][1] = "IsGlobalMem" /\ Chains[c][s][2] = FALSE
      BY <1>5, <2>4, ChainsAre
    <3>2. m.props[0] = Mapped0 /\ m.dir[0].attrs = Mapped0
      BY <1>1, <1>5, <2>4 DEF ArrayAt, DirAt
    <3>3. PICK o : o = Call(m, "IsGlobalMem")
      OBVIOUS
    <3>5. Does(o, FALSE, Mapped0, Mapped0)
      BY <3>2, <3>3, CallDoes, FlagSets
    <3>6. AsAt(o.m, 5, 1)
      BY <3>5 DEF Does, AsAt, ArrayAt, DirAt
    <3>7. Call(m, Chains[c][s][1]) = o
      BY <3>1, <3>3
    <3>8. o.ret = Chains[c][s][2]
      BY Zenon, <3>1, <3>5 DEF Does
    <3>9. /\ s < Len(Chains[c]) => AsAt(o.m, c, s + 1)
          /\ s = Len(Chains[c]) /\ c < 10 => AsAt(o.m, c + 1, 1)
      BY <1>5, <2>0, <2>4, <3>6
    <3> QED BY <3>7, <3>8, <3>9 DEF AsExpected
  <2> QED BY <2>0, <2>1, <2>2, <2>3, <2>4
<1>6. CASE c = 5
  <2>0. Len(Chains[c]) = 1
    BY <1>6, ChainsAre
  <2>1. CASE s = 1
    <3>1. Chains[c][s][1] = "Is4M" /\ Chains[c][s][2] = FALSE
      BY <1>6, <2>1, ChainsAre
    <3>2. m.props[0] = Mapped0 /\ m.dir[0].attrs = Mapped0
      BY <1>1, <1>6, <2>1 DEF ArrayAt, DirAt
    <3>3. PICK o : o = Call(m, "Is4M")
      OBVIOUS
    <3>5. Does(o, FALSE, Mapped0, Mapped0)
      BY <3>2, <3>3, CallDoes, FlagSets
    <3>6. AsAt(o.m, 6, 1)
      BY <3>5 DEF Does, AsAt, ArrayAt, DirAt
    <3>7. Call(m, Chains[c][s][1]) = o
      BY <3>1, <3>3
    <3>8. o.ret = Chains[c][s][2]
      BY Zenon, <3>1, <3>5 DEF Does
    <3>9. /\ s < Len(Chains[c]) => AsAt(o.m, c, s + 1)
          /\ s = Len(Chains[c]) /\ c < 10 => AsAt(o.m, c + 1, 1)
      BY <1>6, <2>0, <2>1, <3>6
    <3> QED BY <3>7, <3>8, <3>9 DEF AsExpected
  <2> QED BY <2>0, <2>1
<1>7. CASE c = 6
  <2>0. Len(Chains[c]) = 4
    BY <1>7, ChainsAre
  <2>1. CASE s = 1
    <3>1. Chains[c][s][1] = "Set4M" /\ Chains[c][s][2] = TRUE
      BY <1>7, <2>1, ChainsAre
    <3>2. m.props[0] = Mapped0 /\ m.dir[0].attrs = Mapped0
      BY <1>1, <1>7, <2>1 DEF ArrayAt, DirAt
    <3>3. PICK o : o = Call(m, "Set4M")
      OBVIOUS
    <3>5. Does(o, TRUE, Mapped0 \cup {"4M"}, Mapped0)
      BY <3>2, <3>3, CallDoes, FlagSets
    <3>6. AsAt(o.m, 6, 2)
      BY <3>5 DEF Does, AsAt, ArrayAt, DirAt
    <3>7. Call(m, Chains[c][s][1]) = o
      BY <3>1, <3>3
    <3>8. o.ret = Chains[c][s][2]
      BY Zenon, <3>1, <3>5 DEF Does
    <3>9. /\ s < Len(Chains[c]) => AsAt(o.m, c, s + 1)
          /\ s = Len(Chains[c]) /\ c < 10 => AsAt(o.m, c + 1, 1)
      BY <1>7, <2>0, <2>1, <3>6
    <3> QED BY <3>7, <3>8, <3>9 DEF AsExpected
  <2>2. CASE s = 2
    <3>1. Chains[c][s][1] = "Is4M" /\ Chains[c][s][2] = TRUE
      BY <1>7, <2>2, ChainsAre
    <3>2. m.props[0] = Mapped0 \cup {"4M"} /\ m.dir[0].attrs = Mapped0
      BY <1>1, <1>7, <2>2 DEF ArrayAt, DirAt
    <3>3. PICK o : o = Call(m, "Is4M")
      OBVIOUS
    <3>5. Does(o, TRUE, Mapped0 \cup {"4M"}, Mapped0)
      BY <3>2, <3>3, CallDoes, FlagSets
    <3>6. AsAt(o.m, 6, 3)
      BY <3>5 DEF Does, AsAt, ArrayAt, DirAt
    <3>7. Call(m, Chains[c][s][1]) = o
      BY <3>1, <3>3
    <3>8. o.ret = Chains[c][s][2]
      BY Zenon, <3>1, <3>5 DEF Does
    <3>9. /\ s < Len(Chains[c]) => AsAt(o.m, c, s + 1)
          /\ s = Len(Chains[c]) /\ c < 10 => AsAt(o.m, c + 1, 1)
      BY <1>7, <2>0, <2>2, <3>6
    <3> QED BY <3>7, <3>8, <3>9 DEF AsExpected
  <2>3. CASE s = 3
    <3>1. Chains[c][s][1] = "Clear4M" /\ Chains[c][s][2] = TRUE
      BY <1>7, <2>3, ChainsAre
    <3>2. m.props[0] = Mapped0 \cup {"4M"} /\ m.dir[0].attrs = Mapped0
      BY <1>1, <1>7, <2>3 DEF ArrayAt, DirAt
    <3>3. PICK o : o = Call(m, "Clear4M")
      OBVIOUS
    <3>4. Does(o, TRUE, (Mapped0 \cup {"4M"}) \ {"4M"}, Mapped0)
      BY <3>2, <3>3, CallDoes
    <3>5. Does(o, TRUE, Mapped0, Mapped0)
      BY <3>4, FlagSets
    <3>6. AsAt(o.m, 6, 4)
      BY <3>5 DEF Does, AsAt, ArrayAt, DirAt
    <3>7. Call(m, Chains[c][s][1]) = o
      BY <3>1, <3>3
    <3>8. o.ret = Chains[c][s][2]
      BY Zenon, <3>1, <3>5 DEF Does
    <3>9. /\ s < Len(Chains[c]) => AsAt(o.m, c, s + 1)
          /\ s = Len(Chains[c]) /\ c < 10 => AsAt(o.m, c + 1, 1)
      BY <1>7, <2>0, <2>3, <3>6
    <3> QED BY <3>7, <3>8, <3>9 DEF AsExpected
  <2>4. CASE s = 4
    <3>1. Chains[c][s][1] = "Is4M" /\ Chains[c][s][2] = FALSE
      BY <1>7, <2>4, ChainsAre
    <3>2. m.props[0] = Mapped0 /\ m.dir[0].attrs = Mapped0
      BY <1>1, <1>7, <2>4 DEF ArrayAt, DirAt
    <3>3. PICK o : o = Call(m, "Is4M")
      OBVIOUS
    <3>5. Does(o, FALSE, Mapped0, Mapped0)
      BY <3>2, <3>3, CallDoes, FlagSets
    <3>6. AsAt(o.m, 7, 1)
      BY <3>5 DEF Does, AsAt, ArrayAt, DirAt
    <3>7. Call(m, Chains[c][s][1]) = o
      BY <3>1, <3>3
    <3>8. o.ret = Chains[c][s][2]
      BY Zenon, <3>1, <3>5 DEF Does
    <3>9. /\ s < Len(Chains[c]) => AsAt(o.m, c, s + 1)
          /\ s = Len(Chains[c]) /\ c < 10 => AsAt(o.m, c + 1, 1)
      BY <1>7, <2>0, <2>4, <3>6
    <3> QED BY <3>7, <3>8, <3>9 DEF AsExpected
  <2> QED BY <2>0, <2>1, <2>2, <2>3, <2>4
<1>8. CASE c = 7
  <2>0. Len(Chains[c]) = 1
    BY <1>8, ChainsAre
  <2>1. CASE s = 1
    <3>1. Chains[c][s][1] = "Is4MMem" /\ Chains[c][s][2] = FALSE
      BY <1>8, <2>1, ChainsAre
    <3>2. m.props[0] = Mapped0 /\ m.dir[0].attrs = Mapped0
      BY <1>1, <1>8, <2>1 DEF ArrayAt, DirAt
    <3>3. PICK o : o = Call(m, "Is4MMem")
      OBVIOUS
    <3>5. Does(o, FALSE, Mapped0, Mapped0)
      BY <3>2, <3>3, CallDoes, FlagSets
    <3>6. AsAt(o.m, 8, 1)
      BY <3>5 DEF Does, AsAt, ArrayAt, DirAt
    <3>7. Call(m, Chains[c][s][1]) = o
      BY <3>1, <3>3
    <3>8. o.ret = Chains[c][s][2]
      BY Zenon, <3>1, <3>5 DEF Does
    <3>9. /\ s < Len(Chains[c]) => AsAt(o.m, c, s + 1)
          /\ s = Len(Chains[c]) /\ c < 10 => AsAt(o.m, c + 1, 1)
      BY <1>8, <2>0, <2>1, <3>6
    <3> QED BY <3>7, <3>8, <3>9 DEF AsExpected
  <2> QED BY <2>0, <2>1
<1>9. CASE c = 8
  <2>0. Len(Chains[c]) = 4
    BY <1>9, ChainsAre
  <2>1. CASE s = 1
    <3>1. Chains[c][s][1] = "4MMemOn" /\ Chains[c][s][2] = TRUE
      BY <1>9, <2>1, ChainsAre
    <3>2. m.props[0] = Mapped0 /\ m.dir[0].attrs = Mapped0
      BY <1>1, <1>9, <2>1 DEF ArrayAt, DirAt
    <3>3. PICK o : o = Call(m, "4MMemOn")
      OBVIOUS
    <3>5. Does(o, TRUE, Mapped0, Mapped0 \cup {"4M"})
      BY <3>2, <3>3, CallDoes, FlagSets
    <3>6. AsAt(o.m, 8, 2)
      BY <3>5 DEF Does, AsAt, ArrayAt, DirAt
    <3>7. Call(m, Chains[c][s][1]) = o
      BY <3>1, <3>3
    <3>8. o.ret = Chains[c][s][2]
      BY Zenon, <3>1, <3>5 DEF Does
    <3>9. /\ s < Len(Chains[c]) => AsAt(o.m, c, s + 1)
          /\ s = Len(Chains[c]) /\ c < 10 => AsAt(o.m, c + 1, 1)
      BY <1>9, <2>0, <2>1, <3>6
    <3> QED BY <3>7, <3>8, <3>9 DEF AsExpected
  <2>2. CASE s = 2
    <3>1. Chains[c][s][1] = "Is4MMem" /\ Chains[c][s][2] = TRUE
      BY <1>9, <2>2, ChainsAre
    <3>2. m.props[0] = Mapped0 /\ m.dir[0].attrs = Mapped0 \cup {"4M"}
      BY <1>1, <1>9, <2>2 DEF ArrayAt, DirAt
    <3>3. PICK o : o = Call(m, "Is4MMem")
      OBVIOUS
    <3>5. Does(o, TRUE, Mapped0, Mapped0 \cup {"4M"})
      BY <3>2, <3>3, CallDoes, FlagSets
    <3>6. AsAt(o.m, 8, 3)
      BY <3>5 DEF Does, AsAt, ArrayAt, DirAt
    <3>7. Call(m, Chains[c][s][1]) = o
      BY <3>1, <3>3
    <3>8. o.ret = Chains[c][s][2]
      BY Zenon, <3>1, <3>5 DEF Does
    <3>9. /\ s < Len(Chains[c]) => AsAt(o.m, c, s + 1)
          /\ s = Len(Chains[c]) /\ c < 10 => AsAt(o.m, c + 1, 1)
      BY <1>9, <2>0, <2>2, <3>6
    <3> QED BY <3>7, <3>8, <3>9 DEF AsExpected
  <2>3. CASE s = 3
    <3>1. Chains[c][s][1] = "4MMemOff" /\ Chains[c][s][2] = TRUE
      BY <1>9, <2>3, ChainsAre
    <3>2. m.props[0] = Mapped0 /\ m.dir[0].attrs = Mapped0 \cup {"4M"}
      BY <1>1, <1>9, <2>3 DEF ArrayAt, DirAt
    <3>3. PICK o : o = Call(m, "4MMemOff")
      OBVIOUS
    <3>4. Does(o, TRUE, Mapped0, (Mapped0 \cup {"4M"}) \ {"4M"})
      BY <3>2, <3>3, CallDoes
    <3>5. Does(o, TRUE, Mapped0, Mapped0)
      BY <3>4, FlagSets
    <3>6. AsAt(o.m, 8, 4)
      BY <3>5 DEF Does, AsAt, ArrayAt, DirAt
    <3>7. Call(m, Chains[c][s][1]) = o
      BY <3>1, <3>3
    <3>8. o.ret = Chains[c][s][2]
      BY Zenon, <3>1, <3>5 DEF Does
    <3>9. /\ s < Len(Chains[c]) => AsAt(o.m, c, s + 1)
          /\ s = Len(Chains[c]) /\ c < 10 => AsAt(o.m, c + 1, 1)
      BY <1>9, <2>0, <2>3, <3>6
    <3> QED BY <3>7, <3>8, <3>9 DEF AsExpected
  <2>4. CASE s = 4
    <3>1. Chains[c][s][1] = "Is4MMem" /\ Chains[c][s][2] = FALSE
      BY <1>9, <2>4, ChainsAre
    <3>2. m.props[0] = Mapped0 /\ m.dir[0].attrs = Mapped0
      BY <1>1, <1>9, <2>4 DEF ArrayAt, DirAt
    <3>3. PICK o : o = Call(m, "Is4MMem")
      OBVIOUS
    <3>5. Does(o, FALSE, Mapped0, Mapped0)
      BY <3>2, <3>3, CallDoes, FlagSets
    <3>6. AsAt(o.m, 9, 1)
      BY <3>5 DEF Does, AsAt, ArrayAt, DirAt
    <3>7. Call(m, Chains[c][s][1]) = o
      BY <3>1, <3>3
    <3>8. o.ret = Chains[c][s][2]
      BY Zenon, <3>1, <3>5 DEF Does
    <3>9. /\ s < Len(Chains[c]) => AsAt(o.m, c, s + 1)
          /\ s = Len(Chains[c]) /\ c < 10 => AsAt(o.m, c + 1, 1)
      BY <1>9, <2>0, <2>4, <3>6
    <3> QED BY <3>7, <3>8, <3>9 DEF AsExpected
  <2> QED BY <2>0, <2>1, <2>2, <2>3, <2>4
<1>10. CASE c = 9
  <2>0. Len(Chains[c]) = 4
    BY <1>10, ChainsAre
  <2>1. CASE s = 1
    <3>1. Chains[c][s][1] = "IsUserPage" /\ Chains[c][s][2] = FALSE
      BY <1>10, <2>1, ChainsAre
    <3>2. m.props[0] = Mapped0 /\ m.dir[0].attrs = Mapped0
      BY <1>1, <1>10, <2>1 DEF ArrayAt, DirAt
    <3>3. PICK o : o = Call(m, "IsUserPage")
      OBVIOUS
    <3>5. Does(o, FALSE, Mapped0, Mapped0)
      BY <3>2, <3>3, CallDoes, FlagSets
    <3>6. AsAt(o.m, 9, 2)
      BY <3>5 DEF Does, AsAt, ArrayAt, DirAt
    <3>7. Call(m, Chains[c][s][1]) = o
      BY <3>1, <3>3
    <3>8. o.ret = Chains[c][s][2]
      BY Zenon, <3>1, <3>5 DEF Does
    <3>9. /\ s < Len(Chains[c]) => AsAt(o.m, c, s + 1)
          /\ s = Len(Chains[c]) /\ c < 10 => AsAt(o.m, c + 1, 1)
      BY <1>10, <2>0, <2>1, <3>6
    <3> QED BY <3>7, <3>8, <3>9 DEF AsExpected
  <2>2. CASE s = 2
    <3>1. Chains[c][s][1] = "SetKernelPage" /\ Chains[c][s][2] = TRUE
      BY <1>10, <2>2, ChainsAre
    <3>2. m.props[0] = Mapped0 /\ m.dir[0].attrs = Mapped0
      BY <1>1, <1>10, <2>2 DEF ArrayAt, DirAt
    <3>3. PICK o : o = Call(m, "SetKernelPage")
      OBVIOUS
    <3>4. Does(o, TRUE, Mapped0 \ {"user"}, Mapped0)
      BY <3>2, <3>3, CallDoes
    <3>5. Does(o, TRUE, Mapped0, Mapped0)
      BY <3>4, FlagSets
    <3>6. AsAt(o.m, 9, 3)
      BY <3>5 DEF Does, AsAt, ArrayAt, DirAt
    <3>7. Call(m, Chains[c][s][1]) = o
      BY <3>1, <3>3
    <3>8. o.ret = Chains[c][s][2]
      BY Zenon, <3>1, <3>5 DEF Does
    <3>9. /\ s < Len(Chains[c]) => AsAt(o.m, c, s + 1)
          /\ s = Len(Chains[c]) /\ c < 10 => AsAt(o.m, c + 1, 1)
      BY <1>10, <2>0, <2>2, <3>6
    <3> QED BY <3>7, <3>8, <3>9 DEF AsExpected
  <2>3. CASE s = 3
    <3>1. Chains[c][s][1] = "IsKernelPage" /\ Chains[c][s][2] = TRUE
      BY <1>10, <2>3, ChainsAre
    <3>2. m.props[0] = Mapped0 /\ m.dir[0].attrs = Mapped0
      BY <1>1, <1>10, <2>3 DEF ArrayAt, DirAt
    <3>3. PICK o : o = Call(m, "IsKernelPage")
      OBVIOUS
    <3>5. Does(o, TRUE, Mapped0, Mapped0)
      BY <3>2, <3>3, CallDoes, FlagSets
    <3>6. AsAt(o.m, 9, 4)
      BY <3>5 DEF Does, AsAt, ArrayAt, DirAt
    <3>7. Call(m, Chains[c][s][1]) = o
      BY <3>1, <3>3
    <3>8. o.ret = Chains[c][s][2]
      BY Zenon, <3>1, <3>5 DEF Does
    <3>9. /\ s < Len(Chains[c]) => AsAt(o.m, c, s + 1)
          /\ s = Len(Chains[c]) /\ c < 10 => AsAt(o.m, c + 1, 1)
      BY <1>10, <2>0, <2>3, <3>6
    <3> QED BY <3>7, <3>8, <3>9 DEF AsExpected
  <2>4. CASE s = 4
    <3>1. Chains[c][s][1] = "SetUserPage" /\ Chains[c][s][2] = TRUE
      BY <1>10, <2>4, ChainsAre
    <3>2. m.props[0] = Mapped0 /\ m.dir[0].attrs = Mapped0
      BY <1>1, <1>10, <2>4 DEF ArrayAt, DirAt
    <3>3. PICK o : o = Call(m, "SetUserPage")
      OBVIOUS
    <3>5. Does(o, TRUE, Mapped0 \cup {"user"}, Mapped0)
      BY <3>2, <3>3, CallDoes, FlagSets
    <3>6. AsAt(o.m, 10, 1)
      BY <3>5 DEF Does, AsAt, ArrayAt, DirAt
    <3>7. Call(m, Chains[c][s][1]) = o
      BY <3>1, <3>3
    <3>8. o.ret = Chains[c][s][2]
      BY Zenon, <3>1, <3>5 DEF Does
    <3>9. /\ s < Len(Chains[c]) => AsAt(o.m, c, s + 1)
          /\ s = Len(Chains[c]) /\ c < 10 => AsAt(o.m, c + 1, 1)
      BY <1>10, <2>0, <2>4, <3>6
    <3> QED BY <3>7, <3>8, <3>9 DEF AsExpected
  <2> QED BY <2>0, <2>1, <2>2, <2>3, <2>4
<1>11. CASE c = 10
  <2>0. Len(Chains[c]) = 1
    BY <1>11, ChainsAre
  <2>1. CASE s = 1
    <3>1. Chains[c][s][1] = "IsKernelPage" /\ Chains[c][s][2] = FALSE
      BY <1>11, <2>1, ChainsAre
    <3>2. m.props[0] = Mapped0 \cup {"user"} /\ m.dir[0].attrs = Mapped0
      BY <1>1, <1>11, <2>1 DEF ArrayAt, DirAt
    <3>3. PICK o : o = Call(m, "IsKernelPage")
      OBVIOUS
    <3>5. Does(o, FALSE, Mapped0 \cup {"user"}, Mapped0)
      BY <3>2, <3>3, CallDoes, FlagSets
    <3>7. Call(m, Chains[c][s][1]) = o
      BY <3>1, <3>3
    <3>8. o.ret = Chains[c][s][2]
      BY Zenon, <3>1, <3>5 DEF Does
    <3>9. /\ s < Len(Chains[c]) => AsAt(o.m, c, s + 1)
          /\ s = Len(Chains[c]) /\ c < 10 => AsAt(o.m, c + 1, 1)
      BY <1>11, <2>0, <2>1
    <3> QED BY <3>7, <3>8, <3>9 DEF AsExpected
  <2> QED BY <2>0, <2>1
<1> QED BY <1>2, <1>3, <1>4, <1>5, <1>6, <1>7, <1>8, <1>9, <1>10, <1>11

\* initVMM on the directory that boot leaves.
LEMMA FreshArray ==
  ASSUME PDInv, dirs[Kernel] = BootDir, initVMM
  PROVE  /\ curDir' = Kernel /\ curProps' = Kernel /\ up' = TRUE /\ dirs' = dirs
         /\ \A i \in Idx : Present(BootDir[i]) => props'[Kernel][i] = BootDir[i].attrs
<1> DEFINE M == [dir |-> dirs[Kernel], props |-> props[Kernel], astray |-> astray]
           Taken1(i) == IF i < FirstKernel THEN PropsOf(BootDir[i]) ELSE PropsOf(BootDir[i]) \ {"user"}
<1>1. /\ curDir' = Kernel /\ curProps' = Kernel /\ up' = TRUE /\ dirs' = dirs
      /\ props' = [props EXCEPT ![Kernel] = pgdirInitPgDirProps(M).m.props]
  BY DEF initVMM, pgdirInitPgDir, OrKernel
<1>2. pgdirInitPgDirProps(M).m.props = [i \in Idx |-> Taken1(i)]
  BY DEF pgdirInitPgDirProps, Answer
<1> HIDE DEF M, Taken1
<1>3. props'[Kernel] = [i \in Idx |-> Taken1(i)]
  BY <1>1, <1>2 DEF PDInv, Spaces
<1>4. ASSUME NEW i \in Idx, Present(BootDir[i]) PROVE props'[Kernel][i] = BootDir[i].attrs
  <2>1. "user" \notin BootDir[i].attrs
    BY PageDirAssumption
  <2>2. PropsOf(BootDir[i]) = BootDir[i].attrs
    BY <1>4 DEF PropsOf, InUse, Present
  <2>3. PropsOf(BootDir[i]) \ {"user"} = PropsOf(BootDir[i])
    BY <2>1, <2>2
  <2>4. Taken1(i) = BootDir[i].attrs
    BY <2>2, <2>3 DEF Taken1
  <2>5. QED BY <1>3, <2>4
<1>5. QED BY <1>1, <1>4

\* Entry 0 as the tests find it.
LEMMA FirstEntry ==
  /\ 0 \in Idx /\ pgdirIsValidIdx(0) /\ BootDir[0].attrs = Mapped0 /\ Present(BootDir[0])
  /\ \A a \in {"pat", "cacheOff", "writeThru"} : a \notin Mapped0
BY PageDirAssumption, FirstEntryAssumption DEF Idx, pgdirIsValidIdx, Present, Mapped0

\* A directory as boot leaves it agrees with its fresh array.
Fresh(m) ==
  /\ m.dir = BootDir
  /\ \A i \in Idx : Present(BootDir[i]) => m.props[i] = BootDir[i].attrs

\* Nothing differs, and none of the flags that no chain is about is on.
LEMMA FreshPasses ==
  ASSUME NEW m, Fresh(m) PROVE pgdirSyncAttr(m, FALSE).ret /\ FlagTests(m)
<1>1. ASSUME NEW i \in Idx, Present(m.dir[i]) PROVE pgdirEvalPde(m, i)
  BY <1>1 DEF Fresh, Present, pgdirEvalPde, pgdirPropToAttr
<1>2. pgdirSyncAttr(m, FALSE).ret
  BY <1>1 DEF pgdirSyncAttr, Answer
<1>3. m.props[0] = Mapped0 /\ m.dir[0].attrs = Mapped0
  BY FirstEntry DEF Fresh
<1>4. /\ ~pgdirIsPAT(m, 0) /\ ~pgdirIsPATMem(m, 0)
      /\ ~pgdirIsCacheDisabled(m, 0) /\ ~pgdirIsCacheDisabledMem(m, 0)
      /\ ~pgdirIsWriteThru(m, 0) /\ ~pgdirIsWriteThruMem(m, 0)
  BY <1>3, FirstEntry DEF pgdirIsPAT, pgdirIsPATMem, pgdirIsCacheDisabled,
     pgdirIsCacheDisabledMem, pgdirIsWriteThru, pgdirIsWriteThruMem
<1>5. QED BY <1>2, <1>4 DEF FlagTests

\* vmmtests finds nothing off and leaves entry 0 as boot did.
LEMMA TestsStart ==
  ASSUME KInv, TestInv, vmmtests PROVE TestInv'
<1>1. up /\ tested = "no" /\ Untouched /\ initVMM /\ at' = <<1, 1>>
  BY DEF vmmtests, TestInv
<1>2. Fresh(Cur)
  BY <1>1 DEF Untouched, Fresh, Cur
<1>3. /\ curDir' = Kernel /\ curProps' = Kernel /\ up' = TRUE /\ dirs' = dirs
      /\ \A i \in Idx : Present(BootDir[i]) => props'[Kernel][i] = BootDir[i].attrs
  BY <1>1, FreshArray DEF Untouched, KInv
<1>4. Fresh(Cur')
  BY <1>1, <1>3 DEF Untouched, Fresh, Cur
<1>5. tested' = "passed"
  BY <1>2, <1>4, FreshPasses, AddressesPass DEF vmmtests
<1>6. dirs'[Kernel][0].attrs = Mapped0 /\ props'[Kernel][0] = Mapped0
  BY <1>1, <1>3, FirstEntry DEF Untouched
<1>7. ArrayAt(at'[1], at'[2]) = Mapped0 /\ DirAt(at'[1], at'[2]) = Mapped0
  BY <1>1 DEF ArrayAt, DirAt
<1>8. UnderTest'
  BY <1>3, <1>5, <1>6, <1>7 DEF UnderTest
<1>9. QED BY <1>3, <1>5, <1>8 DEF TestInv

\* A call of a chain answers as expected and leaves what the next one starts from.
LEMMA TestsGoOn ==
  ASSUME KInv, TestInv, TestCall PROVE TestInv'
<1> DEFINE o == Call(Cur, Chains[at[1]][at[2]][1])
<1>1. /\ at # Idle /\ UnderTest /\ Do(o)
      /\ at[1] \in 1 .. 10 /\ at[2] \in 1 .. Len(Chains[at[1]])
  BY ChainsAre DEF TestCall, TestInv, KInv
<1>2. Fits(Cur) /\ AsAt(Cur, at[1], at[2])
  BY <1>1, CurGood DEF KInv, Good, UnderTest, AsAt, Cur
<1>3. AsExpected(o, at[1], at[2])
  BY <1>1, <1>2, AnswersExpected
<1>4. /\ tested' = IF o.ret = Chains[at[1]][at[2]][2] THEN tested ELSE "failed"
      /\ at' = IF o.ret = Chains[at[1]][at[2]][2] /\ at[2] < Len(Chains[at[1]])
               THEN <<at[1], at[2] + 1>>
               ELSE IF at[1] < Len(Chains) THEN <<at[1] + 1, 1>> ELSE Idle
  BY DEF TestCall
<1>5. /\ curDir' = Kernel /\ curProps' = Kernel /\ up' = TRUE
      /\ dirs'[Kernel] = o.m.dir /\ props'[Kernel] = o.m.props
  BY <1>1 DEF Do, UnderTest, KInv, PDInv
<1> HIDE DEF o
<1>6. o.ret = Chains[at[1]][at[2]][2]
  BY <1>3 DEF AsExpected
<1>7. tested' = "passed"
  BY <1>1, <1>4, <1>6, Zenon DEF UnderTest
<1>8. CASE at[2] < Len(Chains[at[1]])
  <2>1. at' = <<at[1], at[2] + 1>>
    BY <1>4, <1>6, <1>8, Zenon
  <2>2. AsAt(o.m, at[1], at[2] + 1)
    BY <1>3, <1>8 DEF AsExpected
  <2>3. QED BY <1>5, <1>7, <2>1, <2>2 DEF TestInv, UnderTest, AsAt
<1>9. CASE ~(at[2] < Len(Chains[at[1]]))
  <2>1. at' = IF at[1] < 10 THEN <<at[1] + 1, 1>> ELSE Idle
    BY <1>4, <1>9, ChainsAre, Zenon
  <2>2. at[2] = Len(Chains[at[1]])
    BY <1>1, <1>9, ChainCalls
  <2>3. CASE at[1] < 10
    <3>1. AsAt(o.m, at[1] + 1, 1)
      BY <1>3, <2>2, <2>3 DEF AsExpected
    <3>2. QED BY <1>5, <1>7, <2>1, <2>3, <3>1 DEF TestInv, UnderTest, AsAt
  <2>4. CASE ~(at[1] < 10)
    BY <1>5, <1>7, <2>1, <2>4 DEF TestInv
  <2>5. QED BY <2>3, <2>4
<1>10. QED BY <1>8, <1>9

\* The calls that follow the tests.
LEMMA CallsLeaveUp ==
  ASSUME up, Used, Calls(Topics \cup {"flags"}) PROVE up' = TRUE
<1>1. CASE initVMM
  BY <1>1 DEF initVMM, pgdirInitPgDir
<1>2. CASE DirectoryCall
  BY <1>2 DEF DirectoryCall, ValidatePgDir, Do, pgdirSwapPgDir
<1>3. ASSUME NEW topic, NEW i, EntryCall(topic, i) PROVE up' = TRUE
  BY <1>3 DEF EntryCall, SetGlobal, ClearGlobal, ChgGlobalMem, Set4M, Clear4M, Chg4MMem, SetUserPage,
         SetKernelPage, ChgUserPage, SetReadOnly, SetReadWrite, ChgReadOnly, SetPresentMem,
         ClearPresentMem, Do, PastEnd
<1>4. CASE VMMCall
  BY <1>4 DEF VMMCall, vmmSetKrnlMem, vmmSetUserMem
<1>5. QED BY <1>1, <1>2, <1>3, <1>4 DEF Calls, PDCall

\* The tests find nothing off, and the chain they are at starts from what the calls
\* before it have left.
THEOREM TestInvariance == Spec => []TestInv
<1>1. PInit => TestInv
  BY DEF PInit, VMMInit, PDInit, TestInv, Untouched, Spaces
<1>2. KInv /\ TestInv /\ [PNext(Topics \cup {"flags"})]_pvars => TestInv'
  <2> SUFFICES ASSUME KInv, TestInv, [PNext(Topics \cup {"flags"})]_pvars PROVE TestInv'
    OBVIOUS
  <2>1. ASSUME Boot PROVE TestInv'
    <3>1. ~up /\ Untouched /\ initVMM /\ tested' = "no" /\ at' = at
      BY <2>1 DEF Boot, TestInv
    <3>2. Untouched'
      BY <3>1, FreshArray, FirstEntry DEF Untouched, KInv
    <3>3. QED BY <3>1, <3>2 DEF TestInv, Untouched
  <2>2. ASSUME vmmtests PROVE TestInv'
    BY <2>2, TestsStart
  <2>3. ASSUME TestCall PROVE TestInv'
    BY <2>3, TestsGoOn
  <2>4. ASSUME Untested PROVE TestInv'
    BY <2>4 DEF Untested, vmmvars, pdvars, TestInv, Untouched
  <2>5. ASSUME Used, Calls(Topics \cup {"flags"}) PROVE TestInv'
    <3>1. up /\ tested # "no" /\ at = Idle /\ tested' = tested /\ at' = at
      BY <2>5 DEF Used
    <3>2. up' = TRUE
      BY <2>5, <3>1, CallsLeaveUp
    <3>3. QED BY <3>1, <3>2 DEF TestInv
  <2>6. CASE UNCHANGED pvars
    BY <2>6 DEF pvars, vmmvars, pdvars, TestInv, Untouched, UnderTest
  <2>7. QED BY <2>1, <2>2, <2>3, <2>4, <2>5, <2>6 DEF PNext
<1>3. QED BY <1>1, <1>2, PagingInvariance, PTL DEF Spec

\* Whatever directory boot leaves, of any size, the kernel's own tests pass on it.
THEOREM TestsAlwaysPass == Spec => []TestsPass
<1>1. TestInv => TestsPass
  BY DEF TestInv, TestsPass
<1>2. QED BY <1>1, TestInvariance, PTL
=============================================================================
