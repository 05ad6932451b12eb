-------------------------- MODULE Interrupts_proofs --------------------------
(***************************************************************************)
(* Proofs about interrupts and faults, for any set of faults and of lines, *)
(* any depth of nesting and any tick counter.                              *)
(*                                                                         *)
(* Neither LinesDoNotNest nor UnmaskedHasGate is inductive.  That no line  *)
(* comes inside a handler needs the interrupt flag at every place of every *)
(* stub; that a stub gives it back needs the frame to be under the words   *)
(* pushed since; that a line has its gate needs what the start has set up  *)
(* when kernel_main comes to each of its places, and that a fault leaves   *)
(* the start where it was.                                                 *)
(***************************************************************************)
EXTENDS Interrupts, TLAPS, SequenceTheorems, WellFoundedInduction, FiniteSetTheorems

-----------------------------------------------------------------------------
(* The code, routine by routine.                                           *)

\* The instructions of a stub.
LEMMA StubIs ==
  ASSUME NEW h
  PROVE  /\ Stub(h)[1] = <<"cli">> /\ Stub(h)[2] = <<"pusha">>
         /\ Stub(h)[3] = <<"push esp">> /\ Stub(h)[4] = <<"call", {h}>>
         /\ Stub(h)[5] = <<"add 4">> /\ Stub(h)[6] = <<"popa">>
         /\ Stub(h)[7] = <<"sti">> /\ Stub(h)[8] = <<"iret">>
BY DEF Stub

\* The instructions of a handler that ends the kernel.
LEMMA FatalIs ==
  ASSUME NEW frame
  PROVE  /\ Fatal(frame)[1] = <<"report", frame>>
         /\ Fatal(frame)[2] = <<"call", {"kernelabort"}>>
BY DEF Fatal

\* The routines by name.
LEMMA RoutinesAre ==
 /\ {"kernel_main", "abort", "kernelabort", "int3_handler", "int8_handler", "int32_handler",
     "kbd_handler", "apictimer", "ps2kbd_handler", "doublefault"} \subseteq DOMAIN Code
 /\ Code["kernel_main"] = kernel_main /\ Code["abort"] = abort
 /\ Code["kernelabort"] = kernelabort
 /\ Code["int3_handler"] = int3_handler /\ Code["int8_handler"] = int8_handler
 /\ Code["int32_handler"] = Stub("apictimer") /\ Code["kbd_handler"] = Stub("ps2kbd_handler")
 /\ Code["apictimer"] = apictimer /\ Code["ps2kbd_handler"] = ps2kbd_handler
 /\ Code["doublefault"] = Fatal(interrupt_error_frame_t)
BY DEF Code, int32_handler, kbd_handler, doublefault

\* The instructions of the routines that are no plain stub.
LEMMA InstructionsAre ==
  /\ int3_handler[1] = <<"cli">> /\ int3_handler[2] = <<"pusha">>
  /\ int3_handler[3] = <<"push esp">> /\ int3_handler[4] = <<"add 4">>
  /\ int3_handler[5] = <<"popa">> /\ int3_handler[6] = <<"sti">> /\ int3_handler[7] = <<"iret">>
  /\ int8_handler[1] = <<"cli">> /\ int8_handler[2] = <<"pushfl">> /\ int8_handler[3] = <<"pusha">>
  /\ int8_handler[4] = <<"push esp">> /\ int8_handler[5] = <<"call", {"doublefault"}>>
  /\ kernelabort[1] = <<"cli">> /\ kernelabort[2] = <<"hlt">>
  /\ abort[1] = <<"hlt">> /\ abort[2] = <<"jmp">>
  /\ apictimer[1] = <<"tick">> /\ apictimer[2] = <<"command", APIC_END_OF_INTERRUPT>>
  /\ apictimer[3] = <<"ret">>
  /\ ps2kbd_handler[1] = <<"key">> /\ ps2kbd_handler[2] = <<"command", APIC_END_OF_INTERRUPT>>
  /\ ps2kbd_handler[3] = <<"ret">>
BY DEF int3_handler, int8_handler, kernelabort, abort, apictimer, ps2kbd_handler

\* The statements of kernel_main.
LEMMA kernel_mainIs ==
  /\ Len(kernel_main) = 9
  /\ kernel_main[1] = <<"loadIDT">>
  /\ kernel_main[2] = <<"gate", 32, "int32_handler">>
  /\ kernel_main[3] = <<"data", 254>>
  /\ kernel_main[4] = <<"sti">> /\ kernel_main[5] = <<"setup">>
  /\ kernel_main[6] = <<"gate", 33, "kbd_handler">>
  /\ kernel_main[7] = <<"in">> /\ kernel_main[8] = <<"data and", 253>>
  /\ kernel_main[9] = <<"jmp">>
<1>1. initAPICtimer[1] = <<"gate", 32, "int32_handler">> /\ initAPICtimer[2] = <<"data", 254>>
  BY DEF initAPICtimer
<1>2. /\ initKbd[1] = <<"gate", 33, "kbd_handler">> /\ initKbd[2] = <<"in">>
      /\ initKbd[3] = <<"data and", 253>>
  BY DEF initKbd
<1> QED BY <1>1, <1>2 DEF kernel_main, EnableInterrupts

-----------------------------------------------------------------------------
(* Stacks.                                                                 *)

\* Two sequences joined.
LEMMA Joined ==
  ASSUME NEW S, NEW a \in Seq(S), NEW b \in Seq(S), NEW s, s = a \o b
  PROVE  /\ s \in Seq(S) /\ Len(s) = Len(a) + Len(b)
         /\ \A i \in 1..Len(a) : s[i] = a[i]
         /\ \A i \in 1..Len(b) : s[Len(a) + i] = b[i]
<1>1. /\ s \in Seq(S) /\ Len(s) = Len(a) + Len(b)
      /\ \A i \in 1..Len(a) + Len(b) :
           s[i] = IF i <= Len(a) THEN a[i] ELSE b[i - Len(a)]
  BY ConcatProperties
<1>2. Len(a) \in Nat /\ Len(b) \in Nat
  OBVIOUS
<1>3. ASSUME NEW i \in 1..Len(b) PROVE s[Len(a) + i] = b[i]
  BY <1>1, <1>2
<1>4. \A i \in 1..Len(a) : s[i] = a[i]
  BY <1>1, <1>2
<1> QED BY <1>1, <1>3, <1>4

\* One word pushed on a stack.
LEMMA Pushed ==
  ASSUME NEW S, NEW w \in S, NEW s \in Seq(S), NEW t, t = <<w>> \o s
  PROVE  /\ t \in Seq(S) /\ Len(t) = Len(s) + 1 /\ t[1] = w
         /\ \A i \in 1..Len(s) : t[i + 1] = s[i]
<1>1. <<w>> \in Seq(S) /\ Len(<<w>>) = 1 /\ <<w>>[1] = w
  OBVIOUS
<1>2. PICK a \in Seq(S) : a = <<w>> /\ Len(a) = 1 /\ a[1] = w
  BY <1>1
<1>3. t = a \o s
  BY <1>2
<1>4. /\ t \in Seq(S) /\ Len(t) = Len(a) + Len(s)
      /\ \A i \in 1..Len(a) : t[i] = a[i]
      /\ \A i \in 1..Len(s) : t[Len(a) + i] = s[i]
  BY ONLY <1>3, Joined, a \in Seq(S), s \in Seq(S)
<1>5. Len(s) \in Nat
  OBVIOUS
<1>6. Len(t) = Len(s) + 1
  BY <1>2, <1>4, <1>5
<1>7. t[1] = w
  BY <1>2, <1>4
<1>8. ASSUME NEW i \in 1..Len(s) PROVE t[i + 1] = s[i]
  <2>1. t[1 + i] = s[i]
    BY <1>2, <1>4
  <2>2. 1 + i = i + 1
    BY <1>5
  <2> QED BY <2>1, <2>2
<1> QED BY <1>4, <1>6, <1>7, <1>8

\* One word popped from a stack.
LEMMA Popped ==
  ASSUME NEW S, NEW s \in Seq(S), Len(s) >= 1
  PROVE  /\ Tail(s) \in Seq(S) /\ Len(Tail(s)) = Len(s) - 1
         /\ \A i \in 2..Len(s) : Tail(s)[i - 1] = s[i]
<1>1. s # <<>>
  OBVIOUS
<1>2. /\ Tail(s) \in Seq(S) /\ Len(Tail(s)) = Len(s) - 1
      /\ \A i \in 1..Len(Tail(s)) : Tail(s)[i] = s[i + 1]
  BY <1>1, HeadTailProperties
<1>3. Len(s) \in Nat
  OBVIOUS
<1>4. ASSUME NEW i \in 2..Len(s) PROVE Tail(s)[i - 1] = s[i]
  <2>1. i - 1 \in 1..Len(Tail(s)) /\ (i - 1) + 1 = i
    BY <1>2, <1>3
  <2> QED BY <1>2, <2>1
<1> QED BY <1>2, <1>4

\* A frame of three words pushed on a stack.
LEMMA Pushed3 ==
  ASSUME NEW S, NEW x \in S, NEW y \in S, NEW z \in S, NEW s \in Seq(S), NEW t, t = <<x, y, z>> \o s
  PROVE  t \in Seq(S) /\ Len(t) >= 3 /\ t[1] = x /\ t[3] = z
<1>1. <<x, y, z>> \in Seq(S)
  OBVIOUS
<1>2. PICK a : a = <<x, y, z>>
  OBVIOUS
<1>3. t = a \o s /\ a \in Seq(S)
  BY <1>1, <1>2
<1>4. Len(a) = 3 /\ a[1] = x /\ a[3] = z
  BY <1>2
<1>5. /\ t \in Seq(S) /\ Len(t) = Len(a) + Len(s)
      /\ \A i \in 1..Len(a) : t[i] = a[i]
      /\ \A i \in 1..Len(s) : t[Len(a) + i] = s[i]
  BY ONLY <1>3, Joined, s \in Seq(S)
<1> QED BY <1>4, <1>5

\* A frame with an error code pushed on a stack.
LEMMA Pushed4 ==
  ASSUME NEW S, NEW e \in S, NEW x \in S, NEW y \in S, NEW z \in S, NEW s \in Seq(S),
         NEW t, t = <<e>> \o <<x, y, z>> \o s
  PROVE  t \in Seq(S) /\ Len(t) >= 4 /\ t[2] = x /\ t[4] = z
<1>1. <<x, y, z>> \in Seq(S)
  OBVIOUS
<1>2. PICK a : a = <<x, y, z>>
  OBVIOUS
<1>3. PICK b : b = <<e>> \o a
  OBVIOUS
<1>4. Len(a) = 3 /\ a[1] = x /\ a[2] = y /\ a[3] = z
  BY <1>2
<1>5. a \in Seq(S)
  BY <1>1, <1>2
<1>6. /\ b \in Seq(S) /\ Len(b) = Len(a) + 1
      /\ \A i \in 1..Len(a) : b[i + 1] = a[i]
  BY ONLY <1>3, <1>5, Pushed, e \in S
<1>7. b[2] = x /\ b[4] = z /\ Len(b) = 4
  <2>1. b[1 + 1] = a[1] /\ b[3 + 1] = a[3]
    BY <1>4, <1>6
  <2>2. Len(b) = 4
    BY <1>4, <1>6
  <2> QED BY <2>1, <2>2, <1>4
<1>8. t = b \o s /\ b \in Seq(S)
  BY <1>2, <1>3, <1>6
<1>9. /\ t \in Seq(S) /\ Len(t) = Len(b) + Len(s)
      /\ \A i \in 1..Len(b) : t[i] = b[i]
      /\ \A i \in 1..Len(s) : t[Len(b) + i] = s[i]
  BY ONLY <1>8, Joined, s \in Seq(S)
<1> QED BY <1>7, <1>9

\* A frame without an error code, as Enter writes it.
LEMMA Entered ==
  ASSUME NEW S, NEW x \in S, NEW y \in S, NEW z \in S, NEW s \in Seq(S),
         NEW t, t = <<>> \o <<x, y, z>> \o s
  PROVE  t \in Seq(S) /\ Len(t) >= 3 /\ t[1] = x /\ t[3] = z
<1>1. <<x, y, z>> \in Seq(S)
  OBVIOUS
<1>2. <<>> \o <<x, y, z>> = <<x, y, z>>
  BY <1>1, ConcatEmptySeq
<1>3. t = <<x, y, z>> \o s
  BY <1>2
<1> QED BY ONLY <1>3, Pushed3, s \in Seq(S), x \in S, y \in S, z \in S

\* A sequence, of whatever it holds.
IsSequence(s) == s \in Seq(Range(s))

\* A sequence over any set is one over its own elements.
LEMMA Ranged ==
  ASSUME NEW S, NEW s \in Seq(S) PROVE IsSequence(s)
<1>1. s = [i \in 1..Len(s) |-> s[i]] /\ Len(s) \in Nat /\ DOMAIN s = 1..Len(s)
  OBVIOUS
<1>2. \A i \in 1..Len(s) : s[i] \in Range(s)
  BY <1>1 DEF Range
<1>3. s \in Seq(Range(s))
  BY <1>1, <1>2
<1> QED BY <1>3 DEF IsSequence

\* A sequence over a set is one over any larger set.
LEMMA Wider ==
  ASSUME NEW S, NEW T, S \subseteq T, NEW s \in Seq(S) PROVE s \in Seq(T)
OBVIOUS

\* A word popped from any stack that has one.
LEMMA PopsOne ==
  ASSUME NEW s, IsSequence(s), Len(s) >= 1
  PROVE  /\ IsSequence(Tail(s)) /\ Len(s) \in Nat /\ Len(Tail(s)) = Len(s) - 1
         /\ \A i \in 2..Len(s) : Tail(s)[i - 1] = s[i]
<1>1. PICK S : S = Range(s)
  OBVIOUS
<1>2. s \in Seq(S)
  BY <1>1 DEF IsSequence
<1>3. /\ Tail(s) \in Seq(S) /\ Len(Tail(s)) = Len(s) - 1
      /\ \A i \in 2..Len(s) : Tail(s)[i - 1] = s[i]
  BY <1>2, Popped
<1>4. IsSequence(Tail(s))
  BY <1>3, Ranged
<1>5. Len(s) \in Nat
  BY <1>2
<1> QED BY <1>3, <1>4, <1>5

\* The stack without the three words iret takes.
LEMMA FrameCut ==
  ASSUME NEW s, IsSequence(s), Len(s) >= 3
  PROVE  IsSequence(SubSeq(s, 4, Len(s)))
<1>1. PICK S : S = Range(s)
  OBVIOUS
<1>2. s \in Seq(S) /\ Len(s) \in Nat
  BY <1>1 DEF IsSequence
<1>3. SubSeq(s, 4, Len(s)) \in Seq(S)
  BY <1>2, SubSeqProperties
<1> QED BY <1>3, Ranged

-----------------------------------------------------------------------------
(* The inductive invariant.                                                *)

\* Vectors whose handlers end the kernel, and those whose stubs return.
FatalVectors == {0} \cup 5..14 \cup 16..21
ReturningVectors == {3, 32, 33}

StubOf(v) ==
  CASE v = 32 -> "int32_handler" [] v = 33 -> "kbd_handler" [] OTHER -> LoadedGates[v].stub
HandlerOf(v) ==
  CASE v = 0 -> "dividebyzero"    [] v = 5 -> "indexoutofrange" [] v = 6 -> "invalidopcode"
    [] v = 7 -> "devicenotavail"  [] v = 8 -> "doublefault"     [] v = 9 -> "coprocoverrun"
    [] v = 10 -> "invalidTSS"     [] v = 11 -> "segnotpresent"  [] v = 12 -> "stacksegflt"
    [] v = 13 -> "gpfault"        [] v = 14 -> "pagefault"      [] v = 16 -> "fpuerror"
    [] v = 17 -> "alignmentcheck" [] v = 18 -> "machinecheck"   [] v = 19 -> "floatptexc"
    [] v = 20 -> "virtexcp"       [] v = 21 -> "ctlprotexc"     [] v = 32 -> "apictimer"
    [] OTHER -> "ps2kbd_handler"

\* Where the processor is in kernel_main, or left it; and its interrupt flag there.
MainAt == IF ledger = <<>> THEN at ELSE ledger[1].at
MainIntr == IF ledger = <<>> THEN intr ELSE ledger[1].intr

Typed ==
  /\ IsSequence(stack) /\ IsSequence(ledger)
  /\ intr \in BOOLEAN /\ \A i \in DOMAIN ledger : ledger[i].intr \in BOOLEAN
  /\ pics \in [Chips -> PicType]
  /\ DOMAIN gates = Vectors

\* Only the first level returns.
Levels ==
  \A i \in DOMAIN ledger :
    ledger[i].vector \in FatalVectors \/ (i = 1 /\ ledger[i].vector \in ReturningVectors)

\* The place p is one of routine's.
Among(p, routine, S) == \E k \in S : p = <<routine, k>>

\* What the start has done when kernel_main comes to its place k, or has aborted.
Initialized ==
  /\ \A v \in 0..31 : gates[v] = LoadedGates[v]
  /\ pics[1].base = 32 /\ pics[1].expects = "mask"
MainHas(k) ==
  /\ Initialized
  /\ k >= 3 => gates[32] = Gate("int32_handler")
  /\ k >= 4 => pics[1].mask = IF k = 9 THEN 252 ELSE 254
  /\ k <= 4 => ~MainIntr
  /\ k >= 7 => gates[33] = Gate("kbd_handler")
  /\ k = 8 => byte = 254
AbortHas == Initialized /\ gates[32] = Gate("int32_handler") /\ pics[1].mask = 254
Started ==
  \/ /\ MainAt = <<"kernel_main", 1>> /\ ledger = <<>> /\ ~intr
     /\ gates = [v \in Vectors |-> NoGate]
  \/ \E k \in 2..9 : MainAt = <<"kernel_main", k>> /\ MainHas(k)
  \/ \E k \in 1..2 : MainAt = <<"abort", k>> /\ AbortHas

\* The frame of an entry e lies under d words of the stub and the handler.
Framed(s, e, d) ==
  LET n == IF e.vector \in ErrorVectors THEN d + 1 ELSE d
  IN  Len(s) >= n + 3 /\ s[n + 1] = <<"eip", e.at>> /\ s[n + 3] = <<"flags", e.intr>>
Frame(d) == Framed(stack, Last(ledger), d)

InLine(v) ==
  \/ Among(at, StubOf(v), {1, 2, 7}) /\ ~intr /\ Frame(0)
  \/ Among(at, StubOf(v), {3, 6}) /\ ~intr /\ Frame(1)
  \/ Among(at, StubOf(v), {4, 5}) /\ ~intr /\ Frame(2)
  \/ at = <<StubOf(v), 8>> /\ (intr => shadow) /\ Frame(0)
  \/ /\ Among(at, HandlerOf(v), 1..3) /\ ~intr /\ Frame(3)
     /\ stack[1] = <<"ret", <<StubOf(v), 5>> >>
InBreakpoint ==
  \/ Among(at, "int3_handler", {1, 2, 6}) /\ ~intr /\ Frame(0)
  \/ Among(at, "int3_handler", {3, 5}) /\ ~intr /\ Frame(1)
  \/ at = <<"int3_handler", 4>> /\ ~intr /\ Frame(2)
  \/ at = <<"int3_handler", 7>> /\ (intr => shadow) /\ Frame(0)
InFault(v) ==
  \/ Among(at, StubOf(v), 1..2) /\ Frame(0)
  \/ at = <<StubOf(v), 3>> /\ Frame(1)
  \/ at = <<StubOf(v), 4>> /\ Frame(2)
  \/ at = <<HandlerOf(v), 1>> /\ Frame(3)
  \/ at = <<HandlerOf(v), 2>>
  \/ Among(at, "kernelabort", 1..2)
\* Nothing finds the double fault's frame.
InDoubleFault ==
  \/ Among(at, "int8_handler", 1..5)
  \/ Among(at, "doublefault", 1..2)
  \/ Among(at, "kernelabort", 1..2)
Inside ==
  ledger # <<>> =>
    LET v == Last(ledger).vector
    IN  \/ v \in {32, 33} /\ InLine(v)
        \/ v = 3 /\ InBreakpoint
        \/ v = 8 /\ ~intr /\ InDoubleFault
        \/ v \in FatalVectors \ {8} /\ ~intr /\ InFault(v)

IInv == Typed /\ Levels /\ Started /\ Inside
-----------------------------------------------------------------------------
(* The gates, the stubs and the handlers of each vector.                   *)

\* The gates loadIDT sets lead to the kernel for the vectors listed.
LEMMA GatesLoaded ==
  /\ \A v \in FatalVectors \cup {3} : LoadedGates[v].selector = "kernel"
  /\ \A v \in (0..31) \ (FatalVectors \cup {3}) : LoadedGates[v].selector # "kernel"
  /\ DOMAIN LoadedGates = Vectors
  /\ LoadedGates[13] # NoGate
<1>1. ASSUME NEW v \in FatalVectors \cup {3} PROVE LoadedGates[v].selector = "kernel"
  BY DEF FatalVectors, LoadedGates, Gate, Vectors
<1>2. ASSUME NEW v \in (0..31) \ (FatalVectors \cup {3}) PROVE LoadedGates[v].selector # "kernel"
  BY DEF FatalVectors, LoadedGates, NoGate, Vectors
<1>3. DOMAIN LoadedGates = Vectors
  BY DEF LoadedGates
<1>4. LoadedGates[13] # NoGate
  BY <1>1 DEF NoGate, FatalVectors
<1> QED BY <1>1, <1>2, <1>3, <1>4

\* The stubs and handlers by vector.
LEMMA StubsOf ==
  /\ StubOf(32) = "int32_handler" /\ StubOf(33) = "kbd_handler"
  /\ StubOf(3) = "int3_handler" /\ StubOf(8) = "int8_handler"
  /\ HandlerOf(32) = "apictimer" /\ HandlerOf(33) = "ps2kbd_handler"
  /\ HandlerOf(8) = "doublefault"
  /\ \A v \in Vectors \ {32, 33} : StubOf(v) = LoadedGates[v].stub
  /\ LoadedGates[3].stub = "int3_handler" /\ LoadedGates[8].stub = "int8_handler"
<1>1. \A v \in Vectors \ {32, 33} : StubOf(v) = LoadedGates[v].stub
  BY DEF StubOf, Vectors
<1>2. LoadedGates[3].stub = "int3_handler" /\ LoadedGates[8].stub = "int8_handler"
  BY DEF LoadedGates, Vectors, Gate
<1>3. 3 \in Vectors /\ 8 \in Vectors
  BY DEF Vectors
<1>4. /\ StubOf(32) = "int32_handler" /\ StubOf(33) = "kbd_handler"
      /\ HandlerOf(32) = "apictimer" /\ HandlerOf(33) = "ps2kbd_handler"
      /\ HandlerOf(8) = "doublefault"
  BY DEF StubOf, HandlerOf
<1> QED BY <1>1, <1>2, <1>3, <1>4

FrameOf(v) == IF v \in ErrorVectors THEN interrupt_error_frame_t ELSE interrupt_frame_t

\* The stub of a fault, but the double fault, is the common one.
LEMMA FaultStubs ==
  ASSUME NEW v \in FatalVectors \ {8}
  PROVE  /\ StubOf(v) \in DOMAIN Code /\ Code[StubOf(v)] = Stub(HandlerOf(v))
         /\ StubOf(v) # "kernel_main"
<1>1. v \in {0, 5, 6, 7, 9, 10, 11, 12, 13, 14, 16, 17, 18, 19, 20, 21}
  BY DEF FatalVectors
<1>2. StubOf(v) = LoadedGates[v].stub
  BY StubsOf DEF FatalVectors, Vectors
<1>3. CASE v = 0
  BY <1>2, <1>3 DEF LoadedGates, Vectors, Gate, HandlerOf, Code, int0_handler
<1>4. CASE v = 5
  BY <1>2, <1>4 DEF LoadedGates, Vectors, Gate, HandlerOf, Code, int5_handler
<1>5. CASE v = 6
  BY <1>2, <1>5 DEF LoadedGates, Vectors, Gate, HandlerOf, Code, int6_handler
<1>6. CASE v = 7
  BY <1>2, <1>6 DEF LoadedGates, Vectors, Gate, HandlerOf, Code, int7_handler
<1>7. CASE v = 9
  BY <1>2, <1>7 DEF LoadedGates, Vectors, Gate, HandlerOf, Code, int9_handler
<1>8. CASE v = 10
  BY <1>2, <1>8 DEF LoadedGates, Vectors, Gate, HandlerOf, Code, int10_handler
<1>9. CASE v = 11
  BY <1>2, <1>9 DEF LoadedGates, Vectors, Gate, HandlerOf, Code, int11_handler
<1>10. CASE v = 12
  BY <1>2, <1>10 DEF LoadedGates, Vectors, Gate, HandlerOf, Code, int12_handler
<1>11. CASE v = 13
  BY <1>2, <1>11 DEF LoadedGates, Vectors, Gate, HandlerOf, Code, int13_handler
<1>12. CASE v = 14
  BY <1>2, <1>12 DEF LoadedGates, Vectors, Gate, HandlerOf, Code, int14_handler
<1>13. CASE v = 16
  BY <1>2, <1>13 DEF LoadedGates, Vectors, Gate, HandlerOf, Code, int16_handler
<1>14. CASE v = 17
  BY <1>2, <1>14 DEF LoadedGates, Vectors, Gate, HandlerOf, Code, int17_handler
<1>15. CASE v = 18
  BY <1>2, <1>15 DEF LoadedGates, Vectors, Gate, HandlerOf, Code, int18_handler
<1>16. CASE v = 19
  BY <1>2, <1>16 DEF LoadedGates, Vectors, Gate, HandlerOf, Code, int19_handler
<1>17. CASE v = 20
  BY <1>2, <1>17 DEF LoadedGates, Vectors, Gate, HandlerOf, Code, int20_handler
<1>18. CASE v = 21
  BY <1>2, <1>18 DEF LoadedGates, Vectors, Gate, HandlerOf, Code, int21_handler
<1> QED BY <1>1, <1>3, <1>4, <1>5, <1>6, <1>7, <1>8, <1>9, <1>10, <1>11,
     <1>12, <1>13, <1>14, <1>15, <1>16, <1>17, <1>18

\* The handler of a fault takes the frame the processor pushed for it.
LEMMA FaultHandlers ==
  ASSUME NEW v \in FatalVectors \ {8}
  PROVE  /\ HandlerOf(v) \in DOMAIN Code /\ Code[HandlerOf(v)] = Fatal(FrameOf(v))
         /\ HandlerOf(v) # "kernel_main"
<1>1. v \in {0, 5, 6, 7, 9, 10, 11, 12, 13, 14, 16, 17, 18, 19, 20, 21}
  BY DEF FatalVectors
<1>2. CASE v = 0
  BY <1>2 DEF HandlerOf, Code, FrameOf, ErrorVectors, dividebyzero
<1>3. CASE v = 5
  BY <1>3 DEF HandlerOf, Code, FrameOf, ErrorVectors, indexoutofrange
<1>4. CASE v = 6
  BY <1>4 DEF HandlerOf, Code, FrameOf, ErrorVectors, invalidopcode
<1>5. CASE v = 7
  BY <1>5 DEF HandlerOf, Code, FrameOf, ErrorVectors, devicenotavail
<1>6. CASE v = 9
  BY <1>6 DEF HandlerOf, Code, FrameOf, ErrorVectors, coprocoverrun
<1>7. CASE v = 10
  BY <1>7 DEF HandlerOf, Code, FrameOf, ErrorVectors, invalidTSS
<1>8. CASE v = 11
  BY <1>8 DEF HandlerOf, Code, FrameOf, ErrorVectors, segnotpresent
<1>9. CASE v = 12
  BY <1>9 DEF HandlerOf, Code, FrameOf, ErrorVectors, stacksegflt
<1>10. CASE v = 13
  BY <1>10 DEF HandlerOf, Code, FrameOf, ErrorVectors, gpfault
<1>11. CASE v = 14
  BY <1>11 DEF HandlerOf, Code, FrameOf, ErrorVectors, pagefault
<1>12. CASE v = 16
  BY <1>12 DEF HandlerOf, Code, FrameOf, ErrorVectors, fpuerror
<1>13. CASE v = 17
  BY <1>13 DEF HandlerOf, Code, FrameOf, ErrorVectors, alignmentcheck
<1>14. CASE v = 18
  BY <1>14 DEF HandlerOf, Code, FrameOf, ErrorVectors, machinecheck
<1>15. CASE v = 19
  BY <1>15 DEF HandlerOf, Code, FrameOf, ErrorVectors, floatptexc
<1>16. CASE v = 20
  BY <1>16 DEF HandlerOf, Code, FrameOf, ErrorVectors, virtexcp
<1>17. CASE v = 21
  BY <1>17 DEF HandlerOf, Code, FrameOf, ErrorVectors, ctlprotexc
<1> QED BY <1>1, <1>2, <1>3, <1>4, <1>5, <1>6, <1>7, <1>8, <1>9, <1>10,
     <1>11, <1>12, <1>13, <1>14, <1>15, <1>16, <1>17

-----------------------------------------------------------------------------
(* What one instruction does to the frame, and leaves alone.               *)

\* A step does the one instruction the processor stands at.
LEMMA StepIs ==
  ASSUME Step
  PROVE  /\ Known /\ ~IrqWaiting
         /\ Op[1] = "cli" => Cli
         /\ Op[1] = "sti" => Sti
         /\ Op[1] = "call" => Call
         /\ Op[1] = "ret" => Ret
         /\ Op[1] = "jmp" => Jmp
         /\ Op[1] = "iret" => IRet
         /\ Op[1] = "report" => Report
         /\ Op[1] = "pusha" => Push("pusha", <<"regs">>)
         /\ Op[1] = "push esp" => Push("push esp", <<"ptr">>)
         /\ Op[1] = "pushfl" => Push("pushfl", <<"flags", intr>>)
         /\ Op[1] = "popa" => Pop("popa")
         /\ Op[1] = "add 4" => Pop("add 4")
         /\ Op[1] = "gate" => SetGate
         /\ Op[1] = "loadIDT" => loadIDT
         /\ Op[1] \in {"command", "data", "data and"} => Out
         /\ Op[1] = "in" => In
         /\ Op[1] = "tick" => Tick
         /\ Op[1] = "key" => Key
         /\ Op[1] = "setup" => Setup
         /\ Op[1] # "hlt"
<1> USE DEF Runs
<1>1. CASE Cli BY <1>1 DEF Cli
<1>2. CASE Sti BY <1>2 DEF Sti
<1>3. CASE Call BY <1>3 DEF Call
<1>4. CASE Ret BY <1>4 DEF Ret
<1>5. CASE Jmp BY <1>5 DEF Jmp
<1>6. CASE IRet BY <1>6 DEF IRet
<1>7. CASE Report BY <1>7 DEF Report
<1>8. CASE Push("pusha", <<"regs">>) BY <1>8 DEF Push
<1>9. CASE Push("push esp", <<"ptr">>) BY <1>9 DEF Push
<1>10. CASE Push("pushfl", <<"flags", intr>>) BY <1>10 DEF Push
<1>11. CASE Pop("popa") BY <1>11 DEF Pop
<1>12. CASE Pop("add 4") BY <1>12 DEF Pop
<1>13. CASE SetGate BY <1>13 DEF SetGate
<1>14. CASE loadIDT BY <1>14 DEF loadIDT
<1>15. CASE Out BY <1>15 DEF Out
<1>16. CASE In BY <1>16 DEF In
<1>17. CASE Tick BY <1>17 DEF Tick
<1>18. CASE Key BY <1>18 DEF Key
<1>19. CASE Setup BY <1>19 DEF Setup
<1> QED
  BY <1>1, <1>2, <1>3, <1>4, <1>5, <1>6, <1>7, <1>8, <1>9, <1>10, <1>11, <1>12, <1>13, <1>14,
     <1>15, <1>16, <1>17, <1>18, <1>19 DEF Step

Pushes(t, w, s) == t = <<w>> \o s

\* A push puts the frame one word deeper.
LEMMA FramePushed ==
  ASSUME NEW s, IsSequence(s), NEW e, NEW w, NEW t, Pushes(t, w, s)
  PROVE  /\ IsSequence(t) /\ t[1] = w
         /\ Framed(s, e, 0) => Framed(t, e, 1)
         /\ Framed(s, e, 1) => Framed(t, e, 2)
         /\ Framed(s, e, 2) => Framed(t, e, 3)
<1>1. /\ IsSequence(t) /\ Len(s) \in Nat /\ Len(t) = Len(s) + 1 /\ t[1] = w
      /\ \A i \in 1..Len(s) : t[i + 1] = s[i]
  <2>1. PICK S : S = Range(s) \cup {w}
    OBVIOUS
  <2>2. s \in Seq(S) /\ w \in S
    BY <2>1, Wider DEF IsSequence
  <2>3. /\ t \in Seq(S) /\ Len(t) = Len(s) + 1 /\ t[1] = w
        /\ \A i \in 1..Len(s) : t[i + 1] = s[i]
    BY ONLY <2>2, Pushed, Pushes(t, w, s) DEF Pushes
  <2>4. IsSequence(t)
    BY <2>3, Ranged
  <2>5. Len(s) \in Nat
    BY <2>2
  <2> QED BY <2>3, <2>4, <2>5
<1>2. ASSUME NEW d \in 0..2, Framed(s, e, d) PROVE Framed(t, e, d + 1)
  <2>1. CASE e.vector \in ErrorVectors
    <3>1. Len(s) >= d + 4 /\ s[d + 2] = <<"eip", e.at>> /\ s[d + 4] = <<"flags", e.intr>>
      BY <1>2, <2>1 DEF Framed
    <3>2. t[(d + 2) + 1] = s[d + 2] /\ t[(d + 4) + 1] = s[d + 4]
      BY <1>1, <3>1
    <3>3. Len(t) >= d + 5 /\ t[d + 3] = <<"eip", e.at>> /\ t[d + 5] = <<"flags", e.intr>>
      BY <1>1, <3>1, <3>2
    <3> QED BY <2>1, <3>3 DEF Framed
  <2>2. CASE e.vector \notin ErrorVectors
    <3>1. Len(s) >= d + 3 /\ s[d + 1] = <<"eip", e.at>> /\ s[d + 3] = <<"flags", e.intr>>
      BY <1>2, <2>2 DEF Framed
    <3>2. t[(d + 1) + 1] = s[d + 1] /\ t[(d + 3) + 1] = s[d + 3]
      BY <1>1, <3>1
    <3>3. Len(t) >= d + 4 /\ t[d + 2] = <<"eip", e.at>> /\ t[d + 4] = <<"flags", e.intr>>
      BY <1>1, <3>1, <3>2
    <3> QED BY <2>2, <3>3 DEF Framed
  <2> QED BY <2>1, <2>2
<1>3. Framed(s, e, 0) => Framed(t, e, 0 + 1)
  BY <1>2
<1>4. Framed(s, e, 1) => Framed(t, e, 1 + 1)
  BY <1>2
<1>5. Framed(s, e, 2) => Framed(t, e, 2 + 1)
  BY <1>2
<1> QED BY <1>1, <1>3, <1>4, <1>5

\* A pop brings the frame one word nearer.
LEMMA FramePopped ==
  ASSUME NEW s, IsSequence(s), NEW e
  PROVE  /\ Framed(s, e, 1) => IsSequence(Tail(s)) /\ Framed(Tail(s), e, 0)
         /\ Framed(s, e, 2) => IsSequence(Tail(s)) /\ Framed(Tail(s), e, 1)
         /\ Framed(s, e, 3) => IsSequence(Tail(s)) /\ Framed(Tail(s), e, 2)
<1>1. ASSUME NEW d \in 1..3, Framed(s, e, d) PROVE IsSequence(Tail(s)) /\ Framed(Tail(s), e, d - 1)
  <2>1. Len(s) \in Nat
    BY Ranged DEF IsSequence
  <2>2. Len(s) >= d + 3
    BY <1>1, <2>1 DEF Framed
  <2>3. PICK t : t = Tail(s)
    OBVIOUS
  <2>4. /\ IsSequence(t) /\ Len(t) = Len(s) - 1
        /\ \A i \in 2..Len(s) : t[i - 1] = s[i]
    BY <2>1, <2>2, <2>3, PopsOne
  <2>5. CASE e.vector \in ErrorVectors
    <3>1. Len(s) >= d + 4 /\ s[d + 2] = <<"eip", e.at>> /\ s[d + 4] = <<"flags", e.intr>>
      BY <1>1, <2>5 DEF Framed
    <3>2. t[(d + 2) - 1] = s[d + 2] /\ t[(d + 4) - 1] = s[d + 4]
      BY <2>1, <2>4, <3>1
    <3>3. Len(t) >= d + 3 /\ t[d + 1] = <<"eip", e.at>> /\ t[d + 3] = <<"flags", e.intr>>
      BY <2>1, <2>4, <3>1, <3>2
    <3> QED BY <2>3, <2>4, <2>5, <3>3 DEF Framed
  <2>6. CASE e.vector \notin ErrorVectors
    <3>1. Len(s) >= d + 3 /\ s[d + 1] = <<"eip", e.at>> /\ s[d + 3] = <<"flags", e.intr>>
      BY <1>1, <2>6 DEF Framed
    <3>2. t[(d + 1) - 1] = s[d + 1] /\ t[(d + 3) - 1] = s[d + 3]
      BY <2>1, <2>4, <3>1
    <3>3. Len(t) >= d + 2 /\ t[d] = <<"eip", e.at>> /\ t[d + 2] = <<"flags", e.intr>>
      BY <2>1, <2>4, <3>1, <3>2
    <3> QED BY <2>3, <2>4, <2>6, <3>3 DEF Framed
  <2> QED BY <2>5, <2>6
<1>2. Framed(s, e, 1) => IsSequence(Tail(s)) /\ Framed(Tail(s), e, 1 - 1)
  BY <1>1
<1>3. Framed(s, e, 2) => IsSequence(Tail(s)) /\ Framed(Tail(s), e, 2 - 1)
  BY <1>1
<1>4. Framed(s, e, 3) => IsSequence(Tail(s)) /\ Framed(Tail(s), e, 3 - 1)
  BY <1>1
<1> QED BY <1>2, <1>3, <1>4

\* What a step in a handler leaves alone.
Same == ledger' = ledger /\ gates' = gates /\ byte' = byte

\* What an instruction that pushes leaves alone.
LEMMA PushKeeps ==
  ASSUME IsSequence(stack), NEW op, NEW word, Push(op, word)
  PROVE  /\ Same /\ pics' = pics /\ intr' = intr /\ at' = Next1 /\ seen' = seen
         /\ IsSequence(stack')
         /\ Frame(0) => Framed(stack', Last(ledger), 1)
         /\ Frame(1) => Framed(stack', Last(ledger), 2)
<1>1. Pushes(stack', word, stack)
  BY DEF Pushes, Push
<1>2. /\ IsSequence(stack')
      /\ Framed(stack, Last(ledger), 0) => Framed(stack', Last(ledger), 1)
      /\ Framed(stack, Last(ledger), 1) => Framed(stack', Last(ledger), 2)
  BY <1>1, FramePushed
<1>3. Same /\ pics' = pics /\ intr' = intr /\ at' = Next1 /\ seen' = seen
  BY DEF Push, Same, devices
<1> QED BY <1>2, <1>3 DEF Frame

\* What an instruction that pops leaves alone.
LEMMA PopKeeps ==
  ASSUME IsSequence(stack), NEW op, Pop(op)
  PROVE  /\ Same /\ pics' = pics /\ intr' = intr /\ at' = Next1 /\ seen' = seen
         /\ Frame(1) => IsSequence(stack') /\ Framed(stack', Last(ledger), 0)
         /\ Frame(2) => IsSequence(stack') /\ Framed(stack', Last(ledger), 1)
<1>1. stack' = Tail(stack)
  BY DEF Pop
<1>2. /\ Framed(stack, Last(ledger), 1) => IsSequence(stack') /\ Framed(stack', Last(ledger), 0)
      /\ Framed(stack, Last(ledger), 2) => IsSequence(stack') /\ Framed(stack', Last(ledger), 1)
  BY <1>1, FramePopped
<1>3. Same /\ pics' = pics /\ intr' = intr /\ at' = Next1 /\ seen' = seen
  BY DEF Pop, Same, devices
<1> QED BY <1>2, <1>3 DEF Frame

\* What a call leaves alone.
LEMMA CallKeeps ==
  ASSUME IsSequence(stack), Call
  PROVE  /\ Same /\ pics' = pics /\ intr' = intr /\ seen' = seen
         /\ \E routine \in Op[2] : at' = <<routine, 1>>
         /\ IsSequence(stack') /\ stack'[1] = <<"ret", Next1>>
         /\ Frame(2) => Framed(stack', Last(ledger), 3)
<1>1. Pushes(stack', <<"ret", Next1>>, stack)
  BY DEF Pushes, Call
<1>2. /\ IsSequence(stack') /\ stack'[1] = <<"ret", Next1>>
      /\ Framed(stack, Last(ledger), 2) => Framed(stack', Last(ledger), 3)
  BY <1>1, FramePushed
<1>3. /\ Same /\ pics' = pics /\ intr' = intr /\ seen' = seen
      /\ \E routine \in Op[2] : at' = <<routine, 1>>
  BY DEF Call, Same, devices
<1> QED BY <1>2, <1>3 DEF Frame

\* What a return leaves alone.
LEMMA RetKeeps ==
  ASSUME IsSequence(stack), Ret
  PROVE  /\ Same /\ pics' = pics /\ intr' = intr /\ at' = stack[1][2] /\ seen' = seen
         /\ Frame(3) => IsSequence(stack') /\ Framed(stack', Last(ledger), 2)
<1>1. stack' = Tail(stack)
  BY DEF Ret
<1>2. Framed(stack, Last(ledger), 3) => IsSequence(stack') /\ Framed(stack', Last(ledger), 2)
  BY <1>1, FramePopped
<1>3. Same /\ pics' = pics /\ intr' = intr /\ at' = stack[1][2] /\ seen' = seen
  BY DEF Ret, Same, devices
<1> QED BY <1>2, <1>3 DEF Frame

\* An end of interrupt touches the lines in service only.
LEMMA EndOfInterrupt ==
  ASSUME NEW p \in PicType
  PROVE  LET q == CommandWrite(p, APIC_END_OF_INTERRUPT)
         IN  q \in PicType /\ q.base = p.base /\ q.mask = p.mask /\ q.expects = p.expects
<1>1. CASE p.isr # {}
  <2>1. CommandWrite(p, APIC_END_OF_INTERRUPT) = [p EXCEPT !.isr = @ \ {Lowest(@)}]
    BY <1>1 DEF CommandWrite, APIC_INIT, APIC_END_OF_INTERRUPT
  <2>2. p.isr \ {Lowest(p.isr)} \in SUBSET AllLines
    BY DEF PicType
  <2> QED BY <2>1, <2>2 DEF PicType
<1>2. CASE p.isr = {}
  <2>1. CommandWrite(p, APIC_END_OF_INTERRUPT) = p
    BY <1>2 DEF CommandWrite, APIC_INIT, APIC_END_OF_INTERRUPT
  <2> QED BY <2>1
<1> QED BY <1>1, <1>2

\* What a controller's change may not touch once it is initialised.
SameMask ==
  /\ pics' \in [Chips -> PicType]
  /\ pics'[1].base = pics[1].base /\ pics'[1].mask = pics[1].mask
  /\ pics'[1].expects = pics[1].expects

\* The statements of apictimer and ps2kbd_handler stay in the handler's frame.
LEMMA HandlerStep ==
  ASSUME pics \in [Chips -> PicType], Step,
         \/ Op = <<"tick">> \/ Op = <<"key">> \/ Op = <<"command", APIC_END_OF_INTERRUPT>>
  PROVE  Same /\ SameMask /\ intr' = intr /\ at' = Next1 /\ stack' = stack /\ seen' = seen
<1>1. CASE Op = <<"tick">>
  <2>1. Tick BY <1>1, StepIs
  <2> QED BY <2>1 DEF Tick, Same, SameMask
<1>2. CASE Op = <<"key">>
  <2>1. Key BY <1>2, StepIs
  <2> QED BY <2>1 DEF Key, Same, SameMask
<1>3. CASE Op = <<"command", APIC_END_OF_INTERRUPT>>
  <2>1. Out BY <1>3, StepIs
  <2>2. pics' = Command(pics, 1, APIC_END_OF_INTERRUPT)
    BY <1>3, <2>1 DEF Out, Runs
  <2>3. PICK q : q = CommandWrite(pics[1], APIC_END_OF_INTERRUPT)
    OBVIOUS
  <2>4. pics[1] \in PicType
    BY DEF Chips
  <2>5. /\ q \in PicType /\ q.base = pics[1].base
        /\ q.mask = pics[1].mask /\ q.expects = pics[1].expects
    BY <2>3, <2>4, EndOfInterrupt
  <2>6. pics' = [pics EXCEPT ![1] = q]
    BY <2>2, <2>3 DEF Command
  <2>7. pics'[1] = q /\ pics' \in [Chips -> PicType]
    BY <2>5, <2>6 DEF Chips
  <2>8. SameMask
    BY <2>5, <2>7 DEF SameMask
  <2> QED BY <2>1, <2>8 DEF Out, Same
<1> QED BY <1>1, <1>2, <1>3

\* The start stays where it is while a handler runs.
LEMMA StartKept ==
  ASSUME IInv, ledger # <<>>, Same, SameMask
  PROVE  /\ Levels' /\ Started' /\ IsSequence(ledger') /\ DOMAIN gates' = Vectors
         /\ \A i \in DOMAIN ledger' : ledger'[i].intr \in BOOLEAN
<1>1. MainAt' = MainAt /\ MainIntr' = MainIntr
  BY DEF MainAt, MainIntr, Same
<1>2. Initialized => Initialized'
  BY DEF Initialized, Same, SameMask
<1>3. (AbortHas => AbortHas') /\ \A k \in 2..9 : MainHas(k) => MainHas(k)'
  BY <1>1, <1>2 DEF AbortHas, MainHas, Same, SameMask
<1>4. Started'
  BY <1>1, <1>3 DEF IInv, Started
<1> QED BY <1>4 DEF IInv, Typed, Levels, Same

\* A step at an instruction of one word does it.
LEMMA StepDoes ==
  ASSUME Step
  PROVE  /\ Op = <<"cli">> => Cli
         /\ Op = <<"sti">> => Sti
         /\ Op = <<"ret">> => Ret
         /\ Op = <<"jmp">> => Jmp
         /\ Op = <<"iret">> => IRet
         /\ Op = <<"pusha">> => Push("pusha", <<"regs">>)
         /\ Op = <<"push esp">> => Push("push esp", <<"ptr">>)
         /\ Op = <<"pushfl">> => Push("pushfl", <<"flags", intr>>)
         /\ Op = <<"popa">> => Pop("popa")
         /\ Op = <<"add 4">> => Pop("add 4")
         /\ Op = <<"loadIDT">> => loadIDT
         /\ Op = <<"in">> => In
         /\ Op = <<"setup">> => Setup
         /\ Op # <<"hlt">>
<1>2. \A o : Op = <<o>> => Op[1] = o
  OBVIOUS
<1>4. PICK f : f = Op[1]
  OBVIOUS
<1>5. /\ Op = <<"cli">> => f = "cli"
      /\ Op = <<"sti">> => f = "sti"
      /\ Op = <<"ret">> => f = "ret"
      /\ Op = <<"jmp">> => f = "jmp"
      /\ Op = <<"iret">> => f = "iret"
  BY <1>2, <1>4
<1>6. /\ Op = <<"pusha">> => f = "pusha"
      /\ Op = <<"push esp">> => f = "push esp"
      /\ Op = <<"pushfl">> => f = "pushfl"
      /\ Op = <<"popa">> => f = "popa"
      /\ Op = <<"add 4">> => f = "add 4"
      /\ Op = <<"loadIDT">> => f = "loadIDT"
      /\ Op = <<"in">> => f = "in"
      /\ Op = <<"setup">> => f = "setup"
      /\ Op = <<"hlt">> => f = "hlt"
  BY <1>2, <1>4
<1> QED BY <1>4, <1>5, <1>6, StepIs

\* A step that stays in the handler keeps the invariant.
LEMMA Within ==
  ASSUME IInv, ledger # <<>>, Same, pics' = pics \/ SameMask, intr' \in BOOLEAN,
         IsSequence(stack'), Inside'
  PROVE  IInv'
<1>1. SameMask
  BY DEF SameMask, IInv, Typed
<1>2. /\ Levels' /\ Started' /\ IsSequence(ledger') /\ DOMAIN gates' = Vectors
      /\ \A i \in DOMAIN ledger' : ledger'[i].intr \in BOOLEAN
  BY <1>1, StartKept
<1>3. Typed'
  BY <1>1, <1>2 DEF Typed, SameMask
<1> QED BY <1>2, <1>3 DEF IInv

\* The innermost level, and which vectors it may be of.
LEMMA LastIs ==
  ASSUME IInv, ledger # <<>>
  PROVE  /\ Len(ledger) \in Nat \ {0} /\ DOMAIN ledger = 1..Len(ledger)
         /\ Last(ledger) = ledger[Len(ledger)]
         /\ Last(ledger).intr \in BOOLEAN
         /\ Last(ledger).vector \in FatalVectors \cup ReturningVectors
         /\ Last(ledger).vector \in ReturningVectors => Len(ledger) = 1
<1>1. PICK S : ledger \in Seq(S)
  BY DEF IInv, Typed, IsSequence
<1>2. Len(ledger) \in Nat \ {0} /\ DOMAIN ledger = 1..Len(ledger)
  BY <1>1
<1>3. Last(ledger) = ledger[Len(ledger)]
  BY DEF Last
<1>4. Len(ledger) \in DOMAIN ledger
  BY <1>2
<1>5. Last(ledger).intr \in BOOLEAN
  BY <1>3, <1>4 DEF IInv, Typed
<1>6. /\ Last(ledger).vector \in FatalVectors \cup ReturningVectors
      /\ Last(ledger).vector \in ReturningVectors => Len(ledger) = 1
  <2>1. \A v \in FatalVectors : v \notin ReturningVectors
    BY DEF FatalVectors, ReturningVectors
  <2>2. \/ Last(ledger).vector \in FatalVectors
        \/ Len(ledger) = 1 /\ Last(ledger).vector \in ReturningVectors
    BY <1>3, <1>4 DEF IInv, Levels
  <2> QED BY <2>1, <2>2
<1> QED BY <1>2, <1>3, <1>5, <1>6

\* iret at the frame goes back to what was interrupted.
LEMMA Returns ==
  ASSUME IInv, ledger # <<>>, Last(ledger).vector \in ReturningVectors, Frame(0), IRet
  PROVE  /\ IInv' /\ seen' = seen /\ ledger' = <<>>
         /\ at' = Last(ledger).at /\ intr' = Last(ledger).intr
<1>1. Len(ledger) = 1 /\ Last(ledger) = ledger[1] /\ Last(ledger).intr \in BOOLEAN
  BY LastIs
<1>2. Last(ledger).vector \notin ErrorVectors
  BY DEF ReturningVectors, ErrorVectors
<1>3. /\ Len(stack) >= 3 /\ stack[1] = <<"eip", Last(ledger).at>>
      /\ stack[3] = <<"flags", Last(ledger).intr>>
  BY <1>2 DEF Frame, Framed
<1>4. at' = Last(ledger).at
  BY <1>3 DEF IRet
<1>5. intr' = Last(ledger).intr
  BY <1>1, <1>3 DEF IRet
<1>6. ledger' = <<>>
  <2>1. ledger' = SubSeq(ledger, 1, 0)
    BY <1>1 DEF IRet, Front
  <2> QED BY <2>1, SubSeqEmpty
<1>7. IsSequence(stack')
  BY <1>3, FrameCut DEF IRet, IInv, Typed
<1>8. gates' = gates /\ byte' = byte /\ pics' = pics /\ seen' = seen
  BY DEF IRet, devices
<1>9. MainAt' = MainAt /\ MainIntr' = MainIntr
  BY <1>1, <1>4, <1>5, <1>6 DEF MainAt, MainIntr
<1>10. Initialized => Initialized'
  BY <1>8 DEF Initialized
<1>11. (AbortHas => AbortHas') /\ \A k \in 2..9 : MainHas(k) => MainHas(k)'
  BY <1>8, <1>9, <1>10 DEF AbortHas, MainHas
<1>12. Started'
  BY <1>9, <1>11 DEF IInv, Started
<1>13. /\ Levels' /\ Inside' /\ IsSequence(ledger')
       /\ \A i \in DOMAIN ledger' : ledger'[i].intr \in BOOLEAN
  BY <1>6 DEF Levels, Inside, IsSequence
<1>14. Typed'
  BY <1>1, <1>5, <1>7, <1>8, <1>13 DEF IInv, Typed
<1> QED BY <1>4, <1>5, <1>6, <1>8, <1>12, <1>13, <1>14 DEF IInv

\* The stub and the handler of a line.
LEMMA LineCode ==
  ASSUME NEW v \in {32, 33}
  PROVE  /\ at = <<StubOf(v), 1>> => Op = <<"cli">>
         /\ at = <<StubOf(v), 2>> => Op = <<"pusha">>
         /\ at = <<StubOf(v), 3>> => Op = <<"push esp">>
         /\ at = <<StubOf(v), 4>> => Op = <<"call", {HandlerOf(v)}>>
         /\ at = <<StubOf(v), 5>> => Op = <<"add 4">>
         /\ at = <<StubOf(v), 6>> => Op = <<"popa">>
         /\ at = <<StubOf(v), 7>> => Op = <<"sti">>
         /\ at = <<StubOf(v), 8>> => Op = <<"iret">>
         /\ at = <<HandlerOf(v), 1>> => Op = <<"tick">> \/ Op = <<"key">>
         /\ at = <<HandlerOf(v), 2>> => Op = <<"command", APIC_END_OF_INTERRUPT>>
         /\ at = <<HandlerOf(v), 3>> => Op = <<"ret">>
<1>1. /\ Code[StubOf(v)] = Stub(HandlerOf(v))
      /\ Code[HandlerOf(v)] \in {apictimer, ps2kbd_handler}
  BY RoutinesAre, StubsOf
<1>5. ASSUME at = <<StubOf(v), 1>> PROVE Op = <<"cli">>
  BY <1>1, <1>5, StubIs DEF Op
<1>6. ASSUME at = <<StubOf(v), 2>> PROVE Op = <<"pusha">>
  BY <1>1, <1>6, StubIs DEF Op
<1>7. ASSUME at = <<StubOf(v), 3>> PROVE Op = <<"push esp">>
  BY <1>1, <1>7, StubIs DEF Op
<1>8. ASSUME at = <<StubOf(v), 4>> PROVE Op = <<"call", {HandlerOf(v)}>>
  BY <1>1, <1>8, StubIs DEF Op
<1>9. ASSUME at = <<StubOf(v), 5>> PROVE Op = <<"add 4">>
  BY <1>1, <1>9, StubIs DEF Op
<1>10. ASSUME at = <<StubOf(v), 6>> PROVE Op = <<"popa">>
  BY <1>1, <1>10, StubIs DEF Op
<1>11. ASSUME at = <<StubOf(v), 7>> PROVE Op = <<"sti">>
  BY <1>1, <1>11, StubIs DEF Op
<1>12. ASSUME at = <<StubOf(v), 8>> PROVE Op = <<"iret">>
  BY <1>1, <1>12, StubIs DEF Op
<1>13. ASSUME at = <<HandlerOf(v), 1>> PROVE Op = <<"tick">> \/ Op = <<"key">>
  BY <1>1, <1>13, InstructionsAre DEF Op
<1>14. ASSUME at = <<HandlerOf(v), 2>> PROVE Op = <<"command", APIC_END_OF_INTERRUPT>>
  BY <1>1, <1>14, InstructionsAre DEF Op
<1>15. ASSUME at = <<HandlerOf(v), 3>> PROVE Op = <<"ret">>
  BY <1>1, <1>15, InstructionsAre DEF Op
<1> QED BY <1>5, <1>6, <1>7, <1>8, <1>9, <1>10, <1>11, <1>12, <1>13, <1>14, <1>15

-----------------------------------------------------------------------------
(* The steps of the stubs and the handlers.                                *)

\* A step keeps the invariant, and what it leaves is what was interrupted.
Kept ==
  /\ IInv'
  /\ \/ ledger' = ledger
     \/ at' = Last(ledger).at /\ intr' = Last(ledger).intr

\* A step in the stub or the handler of a line.
LEMMA LineStep ==
  ASSUME IInv, ledger # <<>>, NEW v \in {32, 33}, Last(ledger).vector = v, Step
  PROVE  Kept /\ seen' = seen
<1>1. InLine(v)
  BY DEF IInv, Inside, FatalVectors
<1>2. /\ IsSequence(stack) /\ intr \in BOOLEAN /\ pics \in [Chips -> PicType]
  BY DEF IInv, Typed
<1>3. ASSUME Same, pics' = pics \/ SameMask, intr' \in BOOLEAN, IsSequence(stack'), InLine(v)'
      PROVE  Kept
  <2>1. Inside'
    BY <1>3 DEF Inside, Same
  <2> QED BY <1>3, <2>1, Within DEF Kept, Same
<1>4. CASE at = <<StubOf(v), 1>> /\ ~intr /\ Frame(0)
  <2>1. Cli
    BY <1>4, LineCode, StepDoes
  <2>2. Next1 = <<StubOf(v), 2>>
    BY <1>4 DEF Next1
  <2>3. /\ Same /\ pics' = pics /\ intr' \in BOOLEAN /\ IsSequence(stack') /\ seen' = seen
        /\ at' = <<StubOf(v), 2>> /\ ~intr' /\ Framed(stack', Last(ledger), 0)
    BY <1>2, <1>4, <2>1, <2>2 DEF Cli, Same, devices, Frame
  <2>4. InLine(v)'
    BY <2>3 DEF InLine, Among, Frame, Same
  <2> QED BY <1>3, <2>3, <2>4
<1>5. CASE at = <<StubOf(v), 2>> /\ ~intr /\ Frame(0)
  <2>1. Push("pusha", <<"regs">>)
    BY <1>5, LineCode, StepDoes
  <2>2. Next1 = <<StubOf(v), 3>>
    BY <1>5 DEF Next1
  <2>3. /\ Same /\ pics' = pics /\ intr' \in BOOLEAN /\ IsSequence(stack') /\ seen' = seen
        /\ at' = <<StubOf(v), 3>> /\ ~intr' /\ Framed(stack', Last(ledger), 1)
    BY <1>2, <1>5, <2>1, <2>2, PushKeeps DEF Same
  <2>4. InLine(v)'
    BY <2>3 DEF InLine, Among, Frame, Same
  <2> QED BY <1>3, <2>3, <2>4
<1>6. CASE at = <<StubOf(v), 3>> /\ ~intr /\ Frame(1)
  <2>1. Push("push esp", <<"ptr">>)
    BY <1>6, LineCode, StepDoes
  <2>2. Next1 = <<StubOf(v), 4>>
    BY <1>6 DEF Next1
  <2>3. /\ Same /\ pics' = pics /\ intr' \in BOOLEAN /\ IsSequence(stack') /\ seen' = seen
        /\ at' = <<StubOf(v), 4>> /\ ~intr' /\ Framed(stack', Last(ledger), 2)
    BY <1>2, <1>6, <2>1, <2>2, PushKeeps DEF Same
  <2>4. InLine(v)'
    BY <2>3 DEF InLine, Among, Frame, Same
  <2> QED BY <1>3, <2>3, <2>4
<1>7. CASE at = <<StubOf(v), 4>> /\ ~intr /\ Frame(2)
  <2>0. Op = <<"call", {HandlerOf(v)}>>
    BY <1>7, LineCode
  <2>1. Op[1] = "call" /\ Op[2] = {HandlerOf(v)} /\ Call
    BY <2>0, StepIs
  <2>2. Next1 = <<StubOf(v), 5>>
    BY <1>7 DEF Next1
  <2>3. /\ Same /\ pics' = pics /\ intr' = intr /\ IsSequence(stack') /\ seen' = seen
        /\ \E routine \in Op[2] : at' = <<routine, 1>>
        /\ stack'[1] = <<"ret", Next1>> /\ Framed(stack', Last(ledger), 3)
    BY <1>2, <1>7, <2>1, CallKeeps
  <2>4. at' = <<HandlerOf(v), 1>>
    BY <2>1, <2>3
  <2>5. InLine(v)'
    BY <1>7, <2>2, <2>3, <2>4 DEF InLine, Among, Frame, Same
  <2> QED BY <1>2, <1>3, <2>3, <2>5
<1>8. CASE at = <<StubOf(v), 5>> /\ ~intr /\ Frame(2)
  <2>1. Pop("add 4")
    BY <1>8, LineCode, StepDoes
  <2>2. Next1 = <<StubOf(v), 6>>
    BY <1>8 DEF Next1
  <2>3. /\ Same /\ pics' = pics /\ intr' \in BOOLEAN /\ IsSequence(stack') /\ seen' = seen
        /\ at' = <<StubOf(v), 6>> /\ ~intr' /\ Framed(stack', Last(ledger), 1)
    BY <1>2, <1>8, <2>1, <2>2, PopKeeps DEF Same
  <2>4. InLine(v)'
    BY <2>3 DEF InLine, Among, Frame, Same
  <2> QED BY <1>3, <2>3, <2>4
<1>9. CASE at = <<StubOf(v), 6>> /\ ~intr /\ Frame(1)
  <2>1. Pop("popa")
    BY <1>9, LineCode, StepDoes
  <2>2. Next1 = <<StubOf(v), 7>>
    BY <1>9 DEF Next1
  <2>3. /\ Same /\ pics' = pics /\ intr' \in BOOLEAN /\ IsSequence(stack') /\ seen' = seen
        /\ at' = <<StubOf(v), 7>> /\ ~intr' /\ Framed(stack', Last(ledger), 0)
    BY <1>2, <1>9, <2>1, <2>2, PopKeeps DEF Same
  <2>4. InLine(v)'
    BY <2>3 DEF InLine, Among, Frame, Same
  <2> QED BY <1>3, <2>3, <2>4
<1>10. CASE at = <<StubOf(v), 7>> /\ ~intr /\ Frame(0)
  <2>1. Sti
    BY <1>10, LineCode, StepDoes
  <2>2. Next1 = <<StubOf(v), 8>>
    BY <1>10 DEF Next1
  <2>3. /\ Same /\ pics' = pics /\ intr' \in BOOLEAN /\ IsSequence(stack') /\ seen' = seen
        /\ at' = <<StubOf(v), 8>> /\ (intr' => shadow') /\ Framed(stack', Last(ledger), 0)
    BY <1>2, <1>10, <2>1, <2>2 DEF Sti, Same, devices, Frame
  <2>4. InLine(v)'
    BY <2>3 DEF InLine, Among, Frame, Same
  <2> QED BY <1>3, <2>3, <2>4
<1>11. CASE at = <<StubOf(v), 8>> /\ Frame(0)
  <2>1. IRet
    BY <1>11, LineCode, StepDoes
  <2> QED BY <1>11, <2>1, Returns DEF Kept, ReturningVectors
<1>12. CASE at = <<HandlerOf(v), 1>> /\ ~intr /\ Frame(3) /\ stack[1] = <<"ret", <<StubOf(v), 5>> >>
  <2>1. Op = <<"tick">> \/ Op = <<"key">>
    BY <1>12, LineCode
  <2>2. Next1 = <<HandlerOf(v), 2>>
    BY <1>12 DEF Next1
  <2>3. Same /\ SameMask /\ intr' = intr /\ at' = Next1 /\ stack' = stack /\ seen' = seen
    BY <1>2, <2>1, HandlerStep
  <2>4. InLine(v)'
    BY <1>12, <2>2, <2>3 DEF InLine, Among, Frame, Same
  <2> QED BY <1>2, <1>3, <2>3, <2>4
<1>13. CASE at = <<HandlerOf(v), 2>> /\ ~intr /\ Frame(3) /\ stack[1] = <<"ret", <<StubOf(v), 5>> >>
  <2>1. Op = <<"command", APIC_END_OF_INTERRUPT>>
    BY <1>13, LineCode
  <2>2. Next1 = <<HandlerOf(v), 3>>
    BY <1>13 DEF Next1
  <2>3. Same /\ SameMask /\ intr' = intr /\ at' = Next1 /\ stack' = stack /\ seen' = seen
    BY <1>2, <2>1, HandlerStep
  <2>4. InLine(v)'
    BY <1>13, <2>2, <2>3 DEF InLine, Among, Frame, Same
  <2> QED BY <1>2, <1>3, <2>3, <2>4
<1>14. CASE at = <<HandlerOf(v), 3>> /\ ~intr /\ Frame(3) /\ stack[1] = <<"ret", <<StubOf(v), 5>> >>
  <2>1. Ret
    BY <1>14, LineCode, StepDoes
  <2>2. /\ Same /\ pics' = pics /\ intr' = intr /\ at' = <<StubOf(v), 5>> /\ seen' = seen
        /\ IsSequence(stack') /\ Framed(stack', Last(ledger), 2)
    BY <1>2, <1>14, <2>1, RetKeeps
  <2>3. InLine(v)'
    BY <1>14, <2>2 DEF InLine, Among, Frame, Same
  <2> QED BY <1>2, <1>3, <2>2, <2>3
<1> QED
  BY <1>1, <1>4, <1>5, <1>6, <1>7, <1>8, <1>9, <1>10, <1>11, <1>12, <1>13, <1>14 DEF InLine, Among

\* The stub of the breakpoint.
LEMMA BreakpointCode ==
  /\ at = <<"int3_handler", 1>> => Op = <<"cli">>
  /\ at = <<"int3_handler", 2>> => Op = <<"pusha">>
  /\ at = <<"int3_handler", 3>> => Op = <<"push esp">>
  /\ at = <<"int3_handler", 4>> => Op = <<"add 4">>
  /\ at = <<"int3_handler", 5>> => Op = <<"popa">>
  /\ at = <<"int3_handler", 6>> => Op = <<"sti">>
  /\ at = <<"int3_handler", 7>> => Op = <<"iret">>
<1>1. ASSUME at = <<"int3_handler", 1>> PROVE Op = <<"cli">>
  BY <1>1, RoutinesAre, InstructionsAre DEF Op
<1>2. ASSUME at = <<"int3_handler", 2>> PROVE Op = <<"pusha">>
  BY <1>2, RoutinesAre, InstructionsAre DEF Op
<1>3. ASSUME at = <<"int3_handler", 3>> PROVE Op = <<"push esp">>
  BY <1>3, RoutinesAre, InstructionsAre DEF Op
<1>4. ASSUME at = <<"int3_handler", 4>> PROVE Op = <<"add 4">>
  BY <1>4, RoutinesAre, InstructionsAre DEF Op
<1>5. ASSUME at = <<"int3_handler", 5>> PROVE Op = <<"popa">>
  BY <1>5, RoutinesAre, InstructionsAre DEF Op
<1>6. ASSUME at = <<"int3_handler", 6>> PROVE Op = <<"sti">>
  BY <1>6, RoutinesAre, InstructionsAre DEF Op
<1>7. ASSUME at = <<"int3_handler", 7>> PROVE Op = <<"iret">>
  BY <1>7, RoutinesAre, InstructionsAre DEF Op
<1> QED BY <1>1, <1>2, <1>3, <1>4, <1>5, <1>6, <1>7

\* A step in the stub of the breakpoint.
LEMMA BreakpointStep ==
  ASSUME IInv, ledger # <<>>, Last(ledger).vector = 3, Step
  PROVE  Kept /\ seen' = seen
<1>1. InBreakpoint
  BY DEF IInv, Inside, FatalVectors
<1>2. /\ IsSequence(stack) /\ intr \in BOOLEAN /\ pics \in [Chips -> PicType]
  BY DEF IInv, Typed
<1>3. ASSUME Same, pics' = pics \/ SameMask, intr' \in BOOLEAN, IsSequence(stack'), InBreakpoint'
      PROVE  Kept
  <2>1. Inside'
    BY <1>3 DEF Inside, Same
  <2> QED BY <1>3, <2>1, Within DEF Kept, Same
<1>4. CASE at = <<"int3_handler", 1>> /\ ~intr /\ Frame(0)
  <2>1. Cli
    BY <1>4, BreakpointCode, StepDoes
  <2>2. Next1 = <<"int3_handler", 2>>
    BY <1>4 DEF Next1
  <2>3. /\ Same /\ pics' = pics /\ intr' \in BOOLEAN /\ IsSequence(stack') /\ seen' = seen
        /\ at' = <<"int3_handler", 2>> /\ ~intr' /\ Framed(stack', Last(ledger), 0)
    BY <1>2, <1>4, <2>1, <2>2 DEF Cli, Same, devices, Frame
  <2>4. InBreakpoint'
    BY <2>3 DEF InBreakpoint, Among, Frame, Same
  <2> QED BY <1>3, <2>3, <2>4
<1>5. CASE at = <<"int3_handler", 2>> /\ ~intr /\ Frame(0)
  <2>1. Push("pusha", <<"regs">>)
    BY <1>5, BreakpointCode, StepDoes
  <2>2. Next1 = <<"int3_handler", 3>>
    BY <1>5 DEF Next1
  <2>3. /\ Same /\ pics' = pics /\ intr' \in BOOLEAN /\ IsSequence(stack') /\ seen' = seen
        /\ at' = <<"int3_handler", 3>> /\ ~intr' /\ Framed(stack', Last(ledger), 1)
    BY <1>2, <1>5, <2>1, <2>2, PushKeeps DEF Same
  <2>4. InBreakpoint'
    BY <2>3 DEF InBreakpoint, Among, Frame, Same
  <2> QED BY <1>3, <2>3, <2>4
<1>6. CASE at = <<"int3_handler", 3>> /\ ~intr /\ Frame(1)
  <2>1. Push("push esp", <<"ptr">>)
    BY <1>6, BreakpointCode, StepDoes
  <2>2. Next1 = <<"int3_handler", 4>>
    BY <1>6 DEF Next1
  <2>3. /\ Same /\ pics' = pics /\ intr' \in BOOLEAN /\ IsSequence(stack') /\ seen' = seen
        /\ at' = <<"int3_handler", 4>> /\ ~intr' /\ Framed(stack', Last(ledger), 2)
    BY <1>2, <1>6, <2>1, <2>2, PushKeeps DEF Same
  <2>4. InBreakpoint'
    BY <2>3 DEF InBreakpoint, Among, Frame, Same
  <2> QED BY <1>3, <2>3, <2>4
<1>7. CASE at = <<"int3_handler", 4>> /\ ~intr /\ Frame(2)
  <2>1. Pop("add 4")
    BY <1>7, BreakpointCode, StepDoes
  <2>2. Next1 = <<"int3_handler", 5>>
    BY <1>7 DEF Next1
  <2>3. /\ Same /\ pics' = pics /\ intr' \in BOOLEAN /\ IsSequence(stack') /\ seen' = seen
        /\ at' = <<"int3_handler", 5>> /\ ~intr' /\ Framed(stack', Last(ledger), 1)
    BY <1>2, <1>7, <2>1, <2>2, PopKeeps DEF Same
  <2>4. InBreakpoint'
    BY <2>3 DEF InBreakpoint, Among, Frame, Same
  <2> QED BY <1>3, <2>3, <2>4
<1>8. CASE at = <<"int3_handler", 5>> /\ ~intr /\ Frame(1)
  <2>1. Pop("popa")
    BY <1>8, BreakpointCode, StepDoes
  <2>2. Next1 = <<"int3_handler", 6>>
    BY <1>8 DEF Next1
  <2>3. /\ Same /\ pics' = pics /\ intr' \in BOOLEAN /\ IsSequence(stack') /\ seen' = seen
        /\ at' = <<"int3_handler", 6>> /\ ~intr' /\ Framed(stack', Last(ledger), 0)
    BY <1>2, <1>8, <2>1, <2>2, PopKeeps DEF Same
  <2>4. InBreakpoint'
    BY <2>3 DEF InBreakpoint, Among, Frame, Same
  <2> QED BY <1>3, <2>3, <2>4
<1>9. CASE at = <<"int3_handler", 6>> /\ ~intr /\ Frame(0)
  <2>1. Sti
    BY <1>9, BreakpointCode, StepDoes
  <2>2. Next1 = <<"int3_handler", 7>>
    BY <1>9 DEF Next1
  <2>3. /\ Same /\ pics' = pics /\ intr' \in BOOLEAN /\ IsSequence(stack') /\ seen' = seen
        /\ at' = <<"int3_handler", 7>> /\ (intr' => shadow') /\ Framed(stack', Last(ledger), 0)
    BY <1>2, <1>9, <2>1, <2>2 DEF Sti, Same, devices, Frame
  <2>4. InBreakpoint'
    BY <2>3 DEF InBreakpoint, Among, Frame, Same
  <2> QED BY <1>3, <2>3, <2>4
<1>10. CASE at = <<"int3_handler", 7>> /\ Frame(0)
  <2>1. IRet
    BY <1>10, BreakpointCode, StepDoes
  <2> QED BY <1>10, <2>1, Returns DEF Kept, ReturningVectors
<1> QED
  BY <1>1, <1>4, <1>5, <1>6, <1>7, <1>8, <1>9, <1>10 DEF InBreakpoint, Among

\* The stub and the handler of a fault but the double fault.
LEMMA FaultCode ==
  ASSUME NEW v \in FatalVectors \ {8}
  PROVE  /\ at = <<StubOf(v), 1>> => Op = <<"cli">>
         /\ at = <<StubOf(v), 2>> => Op = <<"pusha">>
         /\ at = <<StubOf(v), 3>> => Op = <<"push esp">>
         /\ at = <<StubOf(v), 4>> => Op = <<"call", {HandlerOf(v)}>>
         /\ at = <<HandlerOf(v), 1>> => Op = <<"report", FrameOf(v)>>
         /\ at = <<HandlerOf(v), 2>> => Op = <<"call", {"kernelabort"}>>
<1>1. ASSUME at = <<StubOf(v), 1>> PROVE Op = <<"cli">>
  BY <1>1, FaultStubs, StubIs DEF Op
<1>2. ASSUME at = <<StubOf(v), 2>> PROVE Op = <<"pusha">>
  BY <1>2, FaultStubs, StubIs DEF Op
<1>3. ASSUME at = <<StubOf(v), 3>> PROVE Op = <<"push esp">>
  BY <1>3, FaultStubs, StubIs DEF Op
<1>4. ASSUME at = <<StubOf(v), 4>> PROVE Op = <<"call", {HandlerOf(v)}>>
  BY <1>4, FaultStubs, StubIs DEF Op
<1>5. ASSUME at = <<HandlerOf(v), 1>> PROVE Op = <<"report", FrameOf(v)>>
  BY <1>5, FaultHandlers, FatalIs DEF Op
<1>6. ASSUME at = <<HandlerOf(v), 2>> PROVE Op = <<"call", {"kernelabort"}>>
  BY <1>6, FaultHandlers, FatalIs DEF Op
<1> QED BY <1>1, <1>2, <1>3, <1>4, <1>5, <1>6

\* kernelabort, which halts.
LEMMA AbortCode ==
  /\ at = <<"kernelabort", 1>> => Op = <<"cli">>
  /\ at = <<"kernelabort", 2>> => Op = <<"hlt">>
<1>1. ASSUME at = <<"kernelabort", 1>> PROVE Op = <<"cli">>
  BY <1>1, RoutinesAre, InstructionsAre DEF Op
<1>2. ASSUME at = <<"kernelabort", 2>> PROVE Op = <<"hlt">>
  BY <1>2, RoutinesAre, InstructionsAre DEF Op
<1> QED BY <1>1, <1>2

\* Where a handler finds the words of its frame.
LEMMA WordsAre ==
  /\ Word(interrupt_frame_t, "address") = stack[4] /\ Word(interrupt_frame_t, "flags") = stack[6]
  /\ Word(interrupt_error_frame_t, "address") = stack[5]
  /\ Word(interrupt_error_frame_t, "flags") = stack[7]
<1>1. \A n \in DOMAIN interrupt_frame_t :
        /\ interrupt_frame_t[n] = "address" <=> n = 2
        /\ interrupt_frame_t[n] = "flags" <=> n = 4
  BY DEF interrupt_frame_t
<1>2. {2, 4} \subseteq DOMAIN interrupt_frame_t
  BY DEF interrupt_frame_t
<1>3. \A n \in DOMAIN interrupt_error_frame_t :
        /\ interrupt_error_frame_t[n] = "address" <=> n = 3
        /\ interrupt_error_frame_t[n] = "flags" <=> n = 5
  BY DEF interrupt_error_frame_t
<1>4. {3, 5} \subseteq DOMAIN interrupt_error_frame_t
  BY DEF interrupt_error_frame_t
<1>5. Word(interrupt_frame_t, "address") = stack[4]
  BY <1>1, <1>2 DEF Word
<1>6. Word(interrupt_frame_t, "flags") = stack[6]
  BY <1>1, <1>2 DEF Word
<1>7. Word(interrupt_error_frame_t, "address") = stack[5]
  BY <1>3, <1>4 DEF Word
<1>8. Word(interrupt_error_frame_t, "flags") = stack[7]
  BY <1>3, <1>4 DEF Word
<1> QED BY <1>5, <1>6, <1>7, <1>8

\* The report of a fault over its frame is the truth.
LEMMA ReportsTruth ==
  ASSUME NEW v \in FatalVectors \ {8}, Last(ledger).vector = v, Frame(3),
         Op = <<"report", FrameOf(v)>>, Report
  PROVE  seen' = Truth
<1>1. Op[2] = FrameOf(v)
  OBVIOUS
<1>2. seen' = <<Word(FrameOf(v), "address"), Word(FrameOf(v), "flags")>>
  BY <1>1 DEF Report
<1>3. CASE v \in ErrorVectors
  <2>1. FrameOf(v) = interrupt_error_frame_t
    BY <1>3 DEF FrameOf
  <2>2. stack[5] = <<"eip", Last(ledger).at>> /\ stack[7] = <<"flags", Last(ledger).intr>>
    BY <1>3 DEF Frame, Framed
  <2> QED BY <1>2, <2>1, <2>2, WordsAre DEF Truth
<1>4. CASE v \notin ErrorVectors
  <2>1. FrameOf(v) = interrupt_frame_t
    BY <1>4 DEF FrameOf
  <2>2. stack[4] = <<"eip", Last(ledger).at>> /\ stack[6] = <<"flags", Last(ledger).intr>>
    BY <1>4 DEF Frame, Framed
  <2> QED BY <1>2, <2>1, <2>2, WordsAre DEF Truth
<1> QED BY <1>3, <1>4

\* A step in the stub or the handler of a fault, or in kernelabort.
LEMMA FaultStep ==
  ASSUME IInv, ledger # <<>>, NEW v \in FatalVectors \ {8}, Last(ledger).vector = v, Step
  PROVE  Kept /\ (seen' = seen \/ seen' = Truth)
<1>1. InFault(v) /\ ~intr
  BY DEF IInv, Inside, FatalVectors
<1>2. IsSequence(stack) /\ intr = FALSE
  BY <1>1 DEF IInv, Typed
<1>3. ASSUME Same, pics' = pics, intr' = intr, IsSequence(stack'), InFault(v)'
      PROVE  Kept
  <2>1. Inside'
    BY <1>2, <1>3 DEF Inside, Same
  <2> QED BY <1>2, <1>3, <2>1, Within DEF Kept, Same
<1>4. CASE at = <<StubOf(v), 1>> /\ Frame(0)
  <2>1. Cli
    BY <1>4, FaultCode, StepDoes
  <2>2. Next1 = <<StubOf(v), 2>>
    BY <1>4 DEF Next1
  <2>3. /\ Same /\ pics' = pics /\ intr' = intr /\ IsSequence(stack') /\ seen' = seen
        /\ at' = <<StubOf(v), 2>> /\ Framed(stack', Last(ledger), 0)
    BY <1>1, <1>2, <1>4, <2>1, <2>2 DEF Cli, Same, devices, Frame
  <2>4. InFault(v)'
    BY <2>3 DEF InFault, Among, Frame, Same
  <2> QED BY <1>3, <2>3, <2>4
<1>5. CASE at = <<StubOf(v), 2>> /\ Frame(0)
  <2>1. Push("pusha", <<"regs">>)
    BY <1>5, FaultCode, StepDoes
  <2>2. Next1 = <<StubOf(v), 3>>
    BY <1>5 DEF Next1
  <2>3. /\ Same /\ pics' = pics /\ intr' = intr /\ IsSequence(stack') /\ seen' = seen
        /\ at' = <<StubOf(v), 3>> /\ Framed(stack', Last(ledger), 1)
    BY <1>1, <1>2, <1>5, <2>1, <2>2, PushKeeps DEF Same
  <2>4. InFault(v)'
    BY <2>3 DEF InFault, Among, Frame, Same
  <2> QED BY <1>3, <2>3, <2>4
<1>6. CASE at = <<StubOf(v), 3>> /\ Frame(1)
  <2>1. Push("push esp", <<"ptr">>)
    BY <1>6, FaultCode, StepDoes
  <2>2. Next1 = <<StubOf(v), 4>>
    BY <1>6 DEF Next1
  <2>3. /\ Same /\ pics' = pics /\ intr' = intr /\ IsSequence(stack') /\ seen' = seen
        /\ at' = <<StubOf(v), 4>> /\ Framed(stack', Last(ledger), 2)
    BY <1>1, <1>2, <1>6, <2>1, <2>2, PushKeeps DEF Same
  <2>4. InFault(v)'
    BY <2>3 DEF InFault, Among, Frame, Same
  <2> QED BY <1>3, <2>3, <2>4
<1>7. CASE at = <<StubOf(v), 4>> /\ Frame(2)
  <2>1. Op = <<"call", {HandlerOf(v)}>>
    BY <1>7, FaultCode
  <2>2. Op[2] = {HandlerOf(v)} /\ Call
    BY <2>1, StepIs
  <2>3. /\ Same /\ pics' = pics /\ intr' = intr /\ IsSequence(stack') /\ seen' = seen
        /\ \E routine \in Op[2] : at' = <<routine, 1>>
        /\ Framed(stack', Last(ledger), 3)
    BY <1>2, <1>7, <2>2, CallKeeps
  <2>4. at' = <<HandlerOf(v), 1>>
    BY <2>2, <2>3
  <2>5. InFault(v)'
    BY <2>3, <2>4 DEF InFault, Among, Frame, Same
  <2> QED BY <1>3, <2>3, <2>5
<1>8. CASE at = <<HandlerOf(v), 1>> /\ Frame(3)
  <2>1. Op = <<"report", FrameOf(v)>>
    BY <1>8, FaultCode
  <2>2. Report
    BY <2>1, StepIs
  <2>3. seen' = Truth
    BY <1>8, <2>1, <2>2, ReportsTruth
  <2>4. Next1 = <<HandlerOf(v), 2>>
    BY <1>8 DEF Next1
  <2>5. Same /\ pics' = pics /\ intr' = intr /\ stack' = stack /\ at' = <<HandlerOf(v), 2>>
    BY <2>2, <2>4 DEF Report, Same, devices
  <2>6. InFault(v)'
    BY <2>5 DEF InFault
  <2> QED BY <1>2, <1>3, <2>3, <2>5, <2>6
<1>9. CASE at = <<HandlerOf(v), 2>>
  <2>1. Op = <<"call", {"kernelabort"}>>
    BY <1>9, FaultCode
  <2>2. Op[2] = {"kernelabort"} /\ Call
    BY <2>1, StepIs
  <2>3. /\ Same /\ pics' = pics /\ intr' = intr /\ IsSequence(stack') /\ seen' = seen
        /\ \E routine \in Op[2] : at' = <<routine, 1>>
    BY <1>2, <2>2, CallKeeps
  <2>4. at' = <<"kernelabort", 1>>
    BY <2>2, <2>3
  <2>5. InFault(v)'
    BY <2>4 DEF InFault, Among
  <2> QED BY <1>3, <2>3, <2>5
<1>10. CASE at = <<"kernelabort", 1>>
  <2>1. Cli
    BY <1>10, AbortCode, StepDoes
  <2>2. Next1 = <<"kernelabort", 2>>
    BY <1>10 DEF Next1
  <2>3. /\ Same /\ pics' = pics /\ intr' = intr /\ stack' = stack /\ seen' = seen
        /\ at' = <<"kernelabort", 2>>
    BY <1>2, <2>1, <2>2 DEF Cli, Same, devices
  <2>4. InFault(v)'
    BY <2>3 DEF InFault, Among
  <2> QED BY <1>2, <1>3, <2>3, <2>4
<1>11. CASE at = <<"kernelabort", 2>>
  BY <1>11, AbortCode, StepDoes
<1> QED
  BY <1>1, <1>4, <1>5, <1>6, <1>7, <1>8, <1>9, <1>10, <1>11 DEF InFault, Among

\* The stub and the handler of the double fault.
LEMMA DoubleFaultCode ==
  /\ at = <<"int8_handler", 1>> => Op = <<"cli">>
  /\ at = <<"int8_handler", 2>> => Op = <<"pushfl">>
  /\ at = <<"int8_handler", 3>> => Op = <<"pusha">>
  /\ at = <<"int8_handler", 4>> => Op = <<"push esp">>
  /\ at = <<"int8_handler", 5>> => Op = <<"call", {"doublefault"}>>
  /\ at = <<"doublefault", 1>> => Op = <<"report", interrupt_error_frame_t>>
  /\ at = <<"doublefault", 2>> => Op = <<"call", {"kernelabort"}>>
<1>1. ASSUME at = <<"int8_handler", 1>> PROVE Op = <<"cli">>
  BY <1>1, RoutinesAre, InstructionsAre DEF Op
<1>2. ASSUME at = <<"int8_handler", 2>> PROVE Op = <<"pushfl">>
  BY <1>2, RoutinesAre, InstructionsAre DEF Op
<1>3. ASSUME at = <<"int8_handler", 3>> PROVE Op = <<"pusha">>
  BY <1>3, RoutinesAre, InstructionsAre DEF Op
<1>4. ASSUME at = <<"int8_handler", 4>> PROVE Op = <<"push esp">>
  BY <1>4, RoutinesAre, InstructionsAre DEF Op
<1>5. ASSUME at = <<"int8_handler", 5>> PROVE Op = <<"call", {"doublefault"}>>
  BY <1>5, RoutinesAre, InstructionsAre DEF Op
<1>6. ASSUME at = <<"doublefault", 1>> PROVE Op = <<"report", interrupt_error_frame_t>>
  BY <1>6, RoutinesAre, FatalIs DEF Op
<1>7. ASSUME at = <<"doublefault", 2>> PROVE Op = <<"call", {"kernelabort"}>>
  BY <1>7, RoutinesAre, FatalIs DEF Op
<1> QED BY <1>1, <1>2, <1>3, <1>4, <1>5, <1>6, <1>7

\* A step in those of the double fault.
LEMMA DoubleFaultStep ==
  ASSUME IInv, ledger # <<>>, Last(ledger).vector = 8, Step
  PROVE  Kept /\ (seen' = seen \/ at[1] = "doublefault")
<1>1. InDoubleFault /\ ~intr
  BY DEF IInv, Inside, FatalVectors
<1>2. IsSequence(stack) /\ intr = FALSE
  BY <1>1 DEF IInv, Typed
<1>3. ASSUME Same, pics' = pics, intr' = intr, IsSequence(stack'), InDoubleFault'
      PROVE  Kept
  <2>1. Inside'
    BY <1>2, <1>3 DEF Inside, Same
  <2> QED BY <1>2, <1>3, <2>1, Within DEF Kept, Same
<1>4. CASE at = <<"int8_handler", 1>>
  <2>1. Cli
    BY <1>4, DoubleFaultCode, StepDoes
  <2>2. Next1 = <<"int8_handler", 2>>
    BY <1>4 DEF Next1
  <2>3. /\ Same /\ pics' = pics /\ intr' = intr /\ IsSequence(stack') /\ seen' = seen
        /\ at' = <<"int8_handler", 2>>
    BY <1>2, <2>1, <2>2 DEF Cli, Same, devices
  <2>4. InDoubleFault'
    BY <2>3 DEF InDoubleFault, Among
  <2> QED BY <1>3, <2>3, <2>4
<1>5. CASE at = <<"int8_handler", 2>>
  <2>1. Push("pushfl", <<"flags", intr>>)
    BY <1>5, DoubleFaultCode, StepDoes
  <2>2. Next1 = <<"int8_handler", 3>>
    BY <1>5 DEF Next1
  <2>3. /\ Same /\ pics' = pics /\ intr' = intr /\ IsSequence(stack') /\ seen' = seen
        /\ at' = <<"int8_handler", 3>>
    BY <1>2, <2>1, <2>2, PushKeeps DEF Same
  <2>4. InDoubleFault'
    BY <2>3 DEF InDoubleFault, Among
  <2> QED BY <1>3, <2>3, <2>4
<1>6. CASE at = <<"int8_handler", 3>>
  <2>1. Push("pusha", <<"regs">>)
    BY <1>6, DoubleFaultCode, StepDoes
  <2>2. Next1 = <<"int8_handler", 4>>
    BY <1>6 DEF Next1
  <2>3. /\ Same /\ pics' = pics /\ intr' = intr /\ IsSequence(stack') /\ seen' = seen
        /\ at' = <<"int8_handler", 4>>
    BY <1>2, <2>1, <2>2, PushKeeps DEF Same
  <2>4. InDoubleFault'
    BY <2>3 DEF InDoubleFault, Among
  <2> QED BY <1>3, <2>3, <2>4
<1>7. CASE at = <<"int8_handler", 4>>
  <2>1. Push("push esp", <<"ptr">>)
    BY <1>7, DoubleFaultCode, StepDoes
  <2>2. Next1 = <<"int8_handler", 5>>
    BY <1>7 DEF Next1
  <2>3. /\ Same /\ pics' = pics /\ intr' = intr /\ IsSequence(stack') /\ seen' = seen
        /\ at' = <<"int8_handler", 5>>
    BY <1>2, <2>1, <2>2, PushKeeps DEF Same
  <2>4. InDoubleFault'
    BY <2>3 DEF InDoubleFault, Among
  <2> QED BY <1>3, <2>3, <2>4
<1>8. CASE at = <<"int8_handler", 5>>
  <2>1. Op = <<"call", {"doublefault"}>>
    BY <1>8, DoubleFaultCode
  <2>2. Op[2] = {"doublefault"} /\ Call
    BY <2>1, StepIs
  <2>3. /\ Same /\ pics' = pics /\ intr' = intr /\ IsSequence(stack') /\ seen' = seen
        /\ \E routine \in Op[2] : at' = <<routine, 1>>
    BY <1>2, <2>2, CallKeeps
  <2>4. at' = <<"doublefault", 1>>
    BY <2>2, <2>3
  <2>5. InDoubleFault'
    BY <2>4 DEF InDoubleFault, Among
  <2> QED BY <1>3, <2>3, <2>5
<1>9. CASE at = <<"doublefault", 1>>
  <2>0. Op = <<"report", interrupt_error_frame_t>>
    BY <1>9, DoubleFaultCode
  <2>1. Report
    BY <2>0, StepIs
  <2>2. Next1 = <<"doublefault", 2>>
    BY <1>9 DEF Next1
  <2>3. Same /\ pics' = pics /\ intr' = intr /\ stack' = stack /\ at' = <<"doublefault", 2>>
    BY <2>1, <2>2 DEF Report, Same, devices
  <2>4. InDoubleFault'
    BY <2>3 DEF InDoubleFault, Among
  <2> QED BY <1>2, <1>3, <1>9, <2>3, <2>4
<1>10. CASE at = <<"doublefault", 2>>
  <2>1. Op = <<"call", {"kernelabort"}>>
    BY <1>10, DoubleFaultCode
  <2>2. Op[2] = {"kernelabort"} /\ Call
    BY <2>1, StepIs
  <2>3. /\ Same /\ pics' = pics /\ intr' = intr /\ IsSequence(stack') /\ seen' = seen
        /\ \E routine \in Op[2] : at' = <<routine, 1>>
    BY <1>2, <2>2, CallKeeps
  <2>4. at' = <<"kernelabort", 1>>
    BY <2>2, <2>3
  <2>5. InDoubleFault'
    BY <2>4 DEF InDoubleFault, Among
  <2> QED BY <1>3, <2>3, <2>5
<1>11. CASE at = <<"kernelabort", 1>>
  <2>1. Cli
    BY <1>11, AbortCode, StepDoes
  <2>2. Next1 = <<"kernelabort", 2>>
    BY <1>11 DEF Next1
  <2>3. /\ Same /\ pics' = pics /\ intr' = intr /\ stack' = stack /\ seen' = seen
        /\ at' = <<"kernelabort", 2>>
    BY <1>2, <2>1, <2>2 DEF Cli, Same, devices
  <2>4. InDoubleFault'
    BY <2>3 DEF InDoubleFault, Among
  <2> QED BY <1>2, <1>3, <2>3, <2>4
<1>12. CASE at = <<"kernelabort", 2>>
  BY <1>12, AbortCode, StepDoes
<1> QED
  BY <1>1, <1>4, <1>5, <1>6, <1>7, <1>8, <1>9, <1>10, <1>11, <1>12 DEF InDoubleFault, Among

-----------------------------------------------------------------------------
(* The start: kernel_main and the controllers.                             *)

\* What runs at each place of kernel_main, and of abort.
LEMMA MainCode ==
  /\ at = <<"kernel_main", 1>> => Op = <<"loadIDT">>
  /\ at = <<"kernel_main", 2>> => Op = <<"gate", 32, "int32_handler">>
  /\ at = <<"kernel_main", 3>> => Op = <<"data", 254>>
  /\ at = <<"kernel_main", 4>> => Op = <<"sti">>
  /\ at = <<"kernel_main", 5>> => Op = <<"setup">>
  /\ at = <<"kernel_main", 6>> => Op = <<"gate", 33, "kbd_handler">>
  /\ at = <<"kernel_main", 7>> => Op = <<"in">>
  /\ at = <<"kernel_main", 8>> => Op = <<"data and", 253>>
  /\ at = <<"kernel_main", 9>> => Op = <<"jmp">>
  /\ at = <<"abort", 1>> => Op = <<"hlt">>
  /\ at = <<"abort", 2>> => Op = <<"jmp">>
<1>1. ASSUME at = <<"kernel_main", 1>> PROVE Op = <<"loadIDT">>
  BY <1>1, RoutinesAre, kernel_mainIs DEF Op
<1>2. ASSUME at = <<"kernel_main", 2>> PROVE Op = <<"gate", 32, "int32_handler">>
  BY <1>2, RoutinesAre, kernel_mainIs DEF Op
<1>3. ASSUME at = <<"kernel_main", 3>> PROVE Op = <<"data", 254>>
  BY <1>3, RoutinesAre, kernel_mainIs DEF Op
<1>4. ASSUME at = <<"kernel_main", 4>> PROVE Op = <<"sti">>
  BY <1>4, RoutinesAre, kernel_mainIs DEF Op
<1>5. ASSUME at = <<"kernel_main", 5>> PROVE Op = <<"setup">>
  BY <1>5, RoutinesAre, kernel_mainIs DEF Op
<1>6. ASSUME at = <<"kernel_main", 6>> PROVE Op = <<"gate", 33, "kbd_handler">>
  BY <1>6, RoutinesAre, kernel_mainIs DEF Op
<1>7. ASSUME at = <<"kernel_main", 7>> PROVE Op = <<"in">>
  BY <1>7, RoutinesAre, kernel_mainIs DEF Op
<1>8. ASSUME at = <<"kernel_main", 8>> PROVE Op = <<"data and", 253>>
  BY <1>8, RoutinesAre, kernel_mainIs DEF Op
<1>9. ASSUME at = <<"kernel_main", 9>> PROVE Op = <<"jmp">>
  BY <1>9, RoutinesAre, kernel_mainIs DEF Op
<1>10. ASSUME at = <<"abort", 1>> PROVE Op = <<"hlt">>
  BY <1>10, RoutinesAre, InstructionsAre DEF Op
<1>11. ASSUME at = <<"abort", 2>> PROVE Op = <<"jmp">>
  BY <1>11, RoutinesAre, InstructionsAre DEF Op
<1> QED BY <1>1, <1>2, <1>3, <1>4, <1>5, <1>6, <1>7, <1>8, <1>9, <1>10, <1>11

\* The values of the bits of a byte.
LEMMA BitValues ==
  /\ Bit[1] = 1 /\ Bit[2] = 2 /\ Bit[3] = 4 /\ Bit[4] = 8
  /\ Bit[5] = 16 /\ Bit[6] = 32 /\ Bit[7] = 64 /\ Bit[8] = 128
BY DEF Bit

\* The lines the masks of the start leave open.
LEMMA OpenLines ==
  /\ AllLines \ BitsOf(254) = {0}
  /\ AllLines \ BitsOf(252) = {0, 1}
  /\ And(254, 253) = 252
<1>1. /\ BitsOf(254) = {1, 2, 3, 4, 5, 6, 7}
      /\ BitsOf(253) = {0, 2, 3, 4, 5, 6, 7}
      /\ BitsOf(252) = {2, 3, 4, 5, 6, 7}
  BY BitValues DEF BitsOf, AllLines
<1>2. ASSUME NEW z \in 0..255, BitsOf(z) = {2, 3, 4, 5, 6, 7} PROVE z = 252
  <2>1. \A i \in 0..7 : i \in {2, 3, 4, 5, 6, 7} <=> (z \div Bit[i + 1]) % 2 = 1
    BY <1>2 DEF BitsOf, AllLines
  <2>2. /\ ((z \div Bit[1]) % 2 # 1) /\ ((z \div Bit[2]) % 2 # 1)
        /\ ((z \div Bit[3]) % 2 = 1) /\ ((z \div Bit[4]) % 2 = 1)
        /\ ((z \div Bit[5]) % 2 = 1) /\ ((z \div Bit[6]) % 2 = 1)
        /\ ((z \div Bit[7]) % 2 = 1) /\ ((z \div Bit[8]) % 2 = 1)
    BY <2>1
  <2>3. /\ ((z \div 1) % 2 # 1) /\ ((z \div 2) % 2 # 1)
        /\ ((z \div 4) % 2 = 1) /\ ((z \div 8) % 2 = 1)
        /\ ((z \div 16) % 2 = 1) /\ ((z \div 32) % 2 = 1)
        /\ ((z \div 64) % 2 = 1) /\ ((z \div 128) % 2 = 1)
    BY <2>2, BitValues
  <2>4. z \in Int /\ 0 <= z /\ z <= 255 OBVIOUS
  <2>5. QED BY <2>3, <2>4
<1>3. And(254, 253) = 252
  BY <1>1, <1>2 DEF And
<1>4. QED BY <1>1, <1>3 DEF AllLines

\* A controller after its initialisation command.
LEMMA ControllerReset ==
  ASSUME NEW p \in PicType
  PROVE  CommandWrite(p, APIC_INIT) \in PicType /\ CommandWrite(p, APIC_INIT).expects = "base"
<1>1. CommandWrite(p, APIC_INIT) =
        [p EXCEPT !.expects = "base", !.mask = 0, !.irr = {}, !.isr = {}]
  BY DEF CommandWrite, APIC_INIT, APIC_END_OF_INTERRUPT
<1> DEFINE p1 == [p EXCEPT !.expects = "base"]
           p2 == [p1 EXCEPT !.mask = 0]
           p3 == [p2 EXCEPT !.irr = {}]
           p4 == [p3 EXCEPT !.isr = {}]
<1>2. p1 \in PicType /\ p1.expects = "base"
  BY DEF PicType
<1> HIDE DEF p1
<1>3. p2 \in PicType /\ p2.expects = "base"
  BY <1>2 DEF PicType
<1> HIDE DEF p2
<1>4. p3 \in PicType /\ p3.expects = "base"
  BY <1>3 DEF PicType
<1> HIDE DEF p3
<1>5. p4 \in PicType /\ p4.expects = "base"
  BY <1>4 DEF PicType
<1>6. QED BY <1>1, <1>5 DEF p1, p2, p3

Byte == 0..255

\* A controller after a byte at its data port.
LEMMA DataWritten ==
  ASSUME NEW p \in PicType, NEW x \in Byte
  PROVE  /\ DataWrite(p, x) \in PicType
         /\ p.expects = "base" => DataWrite(p, x).expects = "cascade" /\ DataWrite(p, x).base = x
         /\ p.expects = "cascade" =>
              DataWrite(p, x).expects = "mode" /\ DataWrite(p, x).base = p.base
         /\ p.expects = "mode" =>
              DataWrite(p, x).expects = "mask" /\ DataWrite(p, x).base = p.base
         /\ p.expects = "mask" => DataWrite(p, x) = [p EXCEPT !.mask = x]
<1>1. CASE p.expects = "base"
  BY <1>1 DEF DataWrite, PicType, Byte
<1>2. CASE p.expects = "cascade"
  BY <1>2 DEF DataWrite, PicType, Byte
<1>3. CASE p.expects = "mode"
  BY <1>3 DEF DataWrite, PicType, Byte
<1>4. CASE p.expects = "mask"
  BY <1>4 DEF DataWrite, PicType, Byte
<1>5. QED BY <1>1, <1>2, <1>3, <1>4 DEF PicType

\* The controllers after an initialisation command.
LEMMA ControllerStarted ==
  ASSUME NEW q \in [Chips -> PicType]
  PROVE  /\ Command(q, 1, APIC_INIT) \in [Chips -> PicType]
         /\ Command(q, 1, APIC_INIT)[1].expects = "base"
         /\ Command(q, 2, APIC_INIT) \in [Chips -> PicType]
         /\ Command(q, 2, APIC_INIT)[1] = q[1]
BY ControllerReset DEF Command, Chips

\* The controllers after a byte at a data port.
LEMMA ControllerWritten ==
  ASSUME NEW q \in [Chips -> PicType], NEW x \in Byte
  PROVE  /\ Data(q, 1, x) \in [Chips -> PicType]
         /\ Data(q, 2, x) \in [Chips -> PicType] /\ Data(q, 2, x)[1] = q[1]
         /\ q[1].expects = "base" =>
              Data(q, 1, x)[1].expects = "cascade" /\ Data(q, 1, x)[1].base = x
         /\ q[1].expects = "cascade" =>
              Data(q, 1, x)[1].expects = "mode" /\ Data(q, 1, x)[1].base = q[1].base
         /\ q[1].expects = "mode" =>
              Data(q, 1, x)[1].expects = "mask" /\ Data(q, 1, x)[1].base = q[1].base
         /\ q[1].expects = "mask" =>
              /\ Data(q, 1, x)[1].mask = x /\ Data(q, 1, x)[1].base = q[1].base
              /\ Data(q, 1, x)[1].expects = "mask"
<1>1. PICK p \in PicType : p = q[1]
  BY DEF Chips
<1>2. PICK o \in PicType : o = q[2]
  BY DEF Chips
<1>3. PICK d : d = DataWrite(p, x)
  OBVIOUS
<1>4. /\ d \in PicType
      /\ p.expects = "base" => d.expects = "cascade" /\ d.base = x
      /\ p.expects = "cascade" => d.expects = "mode" /\ d.base = p.base
      /\ p.expects = "mode" => d.expects = "mask" /\ d.base = p.base
      /\ p.expects = "mask" => d = [p EXCEPT !.mask = x]
  BY <1>3, DataWritten
<1>5. p.expects = "mask" => d.mask = x /\ d.base = p.base /\ d.expects = "mask"
  BY <1>4 DEF PicType
<1>6. Data(q, 1, x) = [q EXCEPT ![1] = d]
  BY <1>1, <1>3 DEF Data
<1>7. Data(q, 1, x)[1] = d /\ Data(q, 1, x) \in [Chips -> PicType]
  BY <1>4, <1>6 DEF Chips
<1>8. DataWrite(o, x) \in PicType
  BY DataWritten
<1>9. Data(q, 2, x) = [q EXCEPT ![2] = DataWrite(o, x)]
  BY <1>2 DEF Data
<1>10. Data(q, 2, x) \in [Chips -> PicType] /\ Data(q, 2, x)[1] = q[1]
  BY <1>8, <1>9 DEF Chips
<1> QED BY <1>1, <1>4, <1>5, <1>7, <1>10

\* initAPIC leaves the first controller initialised, with its lines from vector 32.
LEMMA ControllersStart ==
  ASSUME NEW p \in [Chips -> PicType]
  PROVE  /\ initAPIC(p) \in [Chips -> PicType]
         /\ initAPIC(p)[1].expects = "mask"
         /\ initAPIC(p)[1].base = 32
<1>0. 1 \in Byte /\ 32 \in Byte /\ 40 \in Byte /\ 255 \in Byte
  BY DEF Byte
<1>1. PICK w1 \in [Chips -> PicType] : w1 = Command(p, 1, APIC_INIT) /\ w1[1].expects = "base"
  BY ControllerStarted
<1>2. PICK w2 \in [Chips -> PicType] : w2 = Command(w1, 2, APIC_INIT) /\ w2[1].expects = "base"
  BY <1>1, ControllerStarted
<1>3. PICK w3 \in [Chips -> PicType] :
        w3 = Data(w2, 1, 32) /\ w3[1].expects = "cascade" /\ w3[1].base = 32
  BY <1>0, <1>2, ControllerWritten
<1>4. PICK w4 \in [Chips -> PicType] :
        w4 = Data(w3, 2, 40) /\ w4[1].expects = "cascade" /\ w4[1].base = 32
  BY <1>0, <1>3, ControllerWritten
<1>5. PICK w5 \in [Chips -> PicType] :
        w5 = Data(w4, 1, 255) /\ w5[1].expects = "mode" /\ w5[1].base = 32
  BY <1>0, <1>4, ControllerWritten
<1>6. PICK w6 \in [Chips -> PicType] :
        w6 = Data(w5, 1, 1) /\ w6[1].expects = "mask" /\ w6[1].base = 32
  BY <1>0, <1>5, ControllerWritten
<1>7. PICK w7 \in [Chips -> PicType] :
        w7 = Data(w6, 2, 1) /\ w7[1].expects = "mask" /\ w7[1].base = 32
  BY <1>0, <1>6, ControllerWritten
<1>8. initAPIC(p) = w7
  BY <1>1, <1>2, <1>3, <1>4, <1>5, <1>6, <1>7 DEF initAPIC, APIC_MASK_ALL_PORTS
<1> QED BY <1>7, <1>8

\* The most urgent of some lines is one of them.
LEMMA LowestIsIn ==
  ASSUME NEW S \in SUBSET AllLines, S # {} PROVE Lowest(S) \in S
<1> DEFINE Less == {r \in Nat \X Nat : r[1] < r[2]}
<1>1. IsWellFoundedOn(Less, Nat)
  BY NatLessThanWellFounded DEF OpToRel
<1> HIDE DEF Less
<1>2. S \in SUBSET Nat
  BY DEF AllLines
<1>3. PICK n \in S : \A m \in S : <<m, n>> \notin Less
  BY <1>1, <1>2, WFMin
<1>4. ASSUME NEW m \in S PROVE n <= m
  <2>1. m \in Nat /\ n \in Nat /\ <<m, n>> \notin Less
    BY <1>2, <1>3
  <2>2. m < n => <<m, n>> \in Less
    BY <2>1 DEF Less
  <2> QED BY <2>1, <2>2
<1> QED BY <1>4 DEF Lowest

\* What the invariant says of each place of kernel_main.
LEMMA MainPlaces ==
  ASSUME IInv, ledger = <<>>
  PROVE  \/ at = <<"kernel_main", 1>> /\ ~intr /\ gates = [v \in Vectors |-> NoGate]
         \/ \E k \in 2..9 : at = <<"kernel_main", k>> /\ MainHas(k)
         \/ \E k \in 1..2 : at = <<"abort", k>> /\ AbortHas
<1>1. MainAt = at
  BY DEF MainAt
<1> QED BY <1>1 DEF IInv, Started

\* A step of kernel_main, or of abort below it.
LEMMA MainStep ==
  ASSUME IInv, ledger = <<>>, Step
  PROVE  Kept /\ seen' = seen
<1>1. /\ IsSequence(stack) /\ intr \in BOOLEAN /\ pics \in [Chips -> PicType]
      /\ DOMAIN gates = Vectors /\ MainIntr = intr
  BY DEF IInv, Typed, MainIntr
<1>2. pics[1] \in PicType
  BY <1>1 DEF Chips
<1>3. ASSUME ledger' = ledger, stack' = stack, intr' \in BOOLEAN, pics' \in [Chips -> PicType],
             DOMAIN gates' = Vectors,
             \/ \E k \in 2..9 : at' = <<"kernel_main", k>> /\ MainHas(k)'
             \/ \E k \in 1..2 : at' = <<"abort", k>> /\ AbortHas'
      PROVE  Kept
  <2>1. MainAt' = at'
    BY <1>3 DEF MainAt
  <2>2. Started'
    BY <1>3, <2>1 DEF Started
  <2>3. Typed' /\ Levels' /\ Inside'
    BY <1>1, <1>3 DEF IInv, Typed, Levels, Inside
  <2> QED BY <1>3, <2>2, <2>3 DEF IInv, Kept
<1>4. ASSUME ledger' = ledger PROVE MainIntr' = intr'
  BY <1>4 DEF MainIntr
<1>5. CASE at = <<"kernel_main", 1>> /\ ~intr /\ gates = [v \in Vectors |-> NoGate]
  <2>1. loadIDT
    BY <1>5, MainCode, StepDoes
  <2>2. Next1 = <<"kernel_main", 2>>
    BY <1>5 DEF Next1
  <2>3. /\ gates' = LoadedGates /\ pics' = initAPIC(pics) /\ at' = <<"kernel_main", 2>>
        /\ ledger' = ledger /\ stack' = stack /\ intr' = intr /\ seen' = seen
    BY <2>1, <2>2 DEF loadIDT
  <2>4. pics' \in [Chips -> PicType] /\ pics'[1].base = 32 /\ pics'[1].expects = "mask"
    BY <1>1, <2>3, ControllersStart
  <2>5. MainHas(2)'
    BY <1>4, <1>5, <2>3, <2>4 DEF MainHas, Initialized
  <2>6. DOMAIN gates' = Vectors
    BY <2>3, GatesLoaded
  <2>7. \E k \in 2..9 : at' = <<"kernel_main", k>> /\ MainHas(k)'
    BY <2>3, <2>5
  <2> QED BY <1>1, <1>3, <2>3, <2>4, <2>6, <2>7
<1>6. CASE at = <<"kernel_main", 2>> /\ MainHas(2)
  <2>1. Op = <<"gate", 32, "int32_handler">>
    BY <1>6, MainCode
  <2>2. SetGate /\ Op[2] = 32 /\ Op[3] = "int32_handler"
    BY <2>1, StepIs
  <2>3. Next1 = <<"kernel_main", 3>>
    BY <1>6 DEF Next1
  <2>4. /\ gates' = [gates EXCEPT ![32] = Gate("int32_handler")] /\ pics' = pics
        /\ at' = <<"kernel_main", 3>> /\ byte' = byte
        /\ ledger' = ledger /\ stack' = stack /\ intr' = intr /\ seen' = seen
    BY <2>2, <2>3 DEF SetGate, devices
  <2>5. /\ DOMAIN gates' = Vectors /\ gates'[32] = Gate("int32_handler")
        /\ \A u \in 0..33 : u # 32 => gates'[u] = gates[u]
    BY <1>1, <2>4 DEF Vectors
  <2>6. MainHas(3)'
    BY <1>1, <1>4, <1>6, <2>4, <2>5 DEF MainHas, Initialized
  <2>7. \E k \in 2..9 : at' = <<"kernel_main", k>> /\ MainHas(k)'
    BY <2>4, <2>6
  <2> QED BY <1>1, <1>3, <2>4, <2>5, <2>7
<1>7. CASE at = <<"kernel_main", 3>> /\ MainHas(3)
  <2>1. Op = <<"data", 254>>
    BY <1>7, MainCode
  <2>2. Out /\ Op[1] = "data" /\ Op[2] = 254
    BY <2>1, StepIs
  <2>3. Next1 = <<"kernel_main", 4>>
    BY <1>7 DEF Next1
  <2>4. /\ gates' = gates /\ at' = <<"kernel_main", 4>> /\ byte' = byte
        /\ ledger' = ledger /\ stack' = stack /\ intr' = intr /\ seen' = seen
    BY <2>2, <2>3 DEF Out
  <2>5. pics' = Data(pics, 1, 254)
    BY <2>2 DEF Out, Runs
  <2>6. 254 \in Byte /\ pics[1].expects = "mask" /\ pics[1].base = 32
    BY <1>7 DEF Byte, MainHas, Initialized
  <2>7. /\ pics' \in [Chips -> PicType] /\ pics'[1].mask = 254
        /\ pics'[1].base = 32 /\ pics'[1].expects = "mask"
    BY <1>1, <2>5, <2>6, ControllerWritten
  <2>8. MainHas(4)'
    BY <1>1, <1>4, <1>7, <2>4, <2>7 DEF MainHas, Initialized
  <2>9. \E k \in 2..9 : at' = <<"kernel_main", k>> /\ MainHas(k)'
    BY <2>4, <2>8
  <2> QED BY <1>1, <1>3, <2>4, <2>7, <2>9
<1>8. CASE at = <<"kernel_main", 4>> /\ MainHas(4)
  <2>1. Sti
    BY <1>8, MainCode, StepDoes
  <2>2. Next1 = <<"kernel_main", 5>>
    BY <1>8 DEF Next1
  <2>3. /\ gates' = gates /\ at' = <<"kernel_main", 5>> /\ byte' = byte /\ pics' = pics
        /\ ledger' = ledger /\ stack' = stack /\ intr' = TRUE /\ seen' = seen
    BY <2>1, <2>2 DEF Sti, devices
  <2>4. MainHas(5)'
    BY <1>8, <2>3 DEF MainHas, Initialized
  <2>5. \E k \in 2..9 : at' = <<"kernel_main", k>> /\ MainHas(k)'
    BY <2>3, <2>4
  <2> QED BY <1>1, <1>3, <2>3, <2>5
<1>9. CASE at = <<"kernel_main", 5>> /\ MainHas(5)
  <2>1. Setup
    BY <1>9, MainCode, StepDoes
  <2>2. Next1 = <<"kernel_main", 6>>
    BY <1>9 DEF Next1
  <2>3. /\ gates' = gates /\ byte' = byte /\ pics' = pics
        /\ ledger' = ledger /\ stack' = stack /\ intr' = intr /\ seen' = seen
    BY <2>1 DEF Setup, devices
  <2>4. at' \in {<<"kernel_main", 5>>, <<"kernel_main", 6>>, <<"abort", 1>>}
    <3>1. at' \in IF shadow THEN {at} ELSE {Next1, <<"abort", 1>>}
      BY <2>1 DEF Setup
    <3>2. CASE shadow
      BY <1>9, <3>1, <3>2
    <3>3. CASE ~shadow
      BY <2>2, <3>1, <3>3
    <3> QED BY <3>2, <3>3
  <2>5. MainHas(5)' /\ MainHas(6)' /\ AbortHas'
    BY <1>9, <2>3 DEF MainHas, AbortHas, Initialized
  <2>6. \/ \E k \in 2..9 : at' = <<"kernel_main", k>> /\ MainHas(k)'
        \/ \E k \in 1..2 : at' = <<"abort", k>> /\ AbortHas'
    BY <2>4, <2>5
  <2> QED BY <1>1, <1>3, <2>3, <2>6
<1>10. CASE at = <<"kernel_main", 6>> /\ MainHas(6)
  <2>1. Op = <<"gate", 33, "kbd_handler">>
    BY <1>10, MainCode
  <2>2. SetGate /\ Op[2] = 33 /\ Op[3] = "kbd_handler"
    BY <2>1, StepIs
  <2>3. Next1 = <<"kernel_main", 7>>
    BY <1>10 DEF Next1
  <2>4. /\ gates' = [gates EXCEPT ![33] = Gate("kbd_handler")] /\ pics' = pics
        /\ at' = <<"kernel_main", 7>> /\ byte' = byte
        /\ ledger' = ledger /\ stack' = stack /\ intr' = intr /\ seen' = seen
    BY <2>2, <2>3 DEF SetGate, devices
  <2>5. /\ DOMAIN gates' = Vectors /\ gates'[33] = Gate("kbd_handler")
        /\ \A u \in 0..33 : u # 33 => gates'[u] = gates[u]
    BY <1>1, <2>4 DEF Vectors
  <2>6. MainHas(7)'
    BY <1>1, <1>4, <1>10, <2>4, <2>5 DEF MainHas, Initialized
  <2>7. \E k \in 2..9 : at' = <<"kernel_main", k>> /\ MainHas(k)'
    BY <2>4, <2>6
  <2> QED BY <1>1, <1>3, <2>4, <2>5, <2>7
<1>11. CASE at = <<"kernel_main", 7>> /\ MainHas(7)
  <2>1. In
    BY <1>11, MainCode, StepDoes
  <2>2. Next1 = <<"kernel_main", 8>>
    BY <1>11 DEF Next1
  <2>3. /\ gates' = gates /\ at' = <<"kernel_main", 8>> /\ byte' = pics[1].mask /\ pics' = pics
        /\ ledger' = ledger /\ stack' = stack /\ intr' = intr /\ seen' = seen
    BY <2>1, <2>2 DEF In, devices
  <2>4. MainHas(8)'
    BY <1>11, <2>3 DEF MainHas, Initialized
  <2>5. \E k \in 2..9 : at' = <<"kernel_main", k>> /\ MainHas(k)'
    BY <2>3, <2>4
  <2> QED BY <1>1, <1>3, <2>3, <2>5
<1>12. CASE at = <<"kernel_main", 8>> /\ MainHas(8)
  <2>1. Op = <<"data and", 253>>
    BY <1>12, MainCode
  <2>2. Out /\ Op[1] = "data and" /\ Op[2] = 253
    BY <2>1, StepIs
  <2>3. Next1 = <<"kernel_main", 9>>
    BY <1>12 DEF Next1
  <2>4. /\ gates' = gates /\ at' = <<"kernel_main", 9>> /\ byte' = byte
        /\ ledger' = ledger /\ stack' = stack /\ intr' = intr /\ seen' = seen
    BY <2>2, <2>3 DEF Out
  <2>5. pics' = Data(pics, 1, 252)
    <3>1. pics' = Data(pics, 1, And(byte, 253))
      BY <2>2 DEF Out, Runs
    <3>2. byte = 254
      BY <1>12 DEF MainHas
    <3> QED BY <3>1, <3>2, OpenLines
  <2>6. 252 \in Byte /\ pics[1].expects = "mask" /\ pics[1].base = 32
    BY <1>12 DEF Byte, MainHas, Initialized
  <2>7. /\ pics' \in [Chips -> PicType] /\ pics'[1].mask = 252
        /\ pics'[1].base = 32 /\ pics'[1].expects = "mask"
    BY <1>1, <2>5, <2>6, ControllerWritten
  <2>8. MainHas(9)'
    BY <1>1, <1>4, <1>12, <2>4, <2>7 DEF MainHas, Initialized
  <2>9. \E k \in 2..9 : at' = <<"kernel_main", k>> /\ MainHas(k)'
    BY <2>4, <2>8
  <2> QED BY <1>1, <1>3, <2>4, <2>7, <2>9
<1>13. CASE at = <<"kernel_main", 9>> /\ MainHas(9)
  <2>1. Jmp
    BY <1>13, MainCode, StepDoes
  <2>2. at[1] = "kernel_main"
    BY <1>13
  <2>3. /\ gates' = gates /\ at' = <<"kernel_main", 9>> /\ byte' = byte /\ pics' = pics
        /\ ledger' = ledger /\ stack' = stack /\ intr' = intr /\ seen' = seen
    BY <1>13, <2>1, <2>2 DEF Jmp, devices
  <2>4. MainHas(9)'
    BY <1>13, <2>3 DEF MainHas, Initialized
  <2>5. \E k \in 2..9 : at' = <<"kernel_main", k>> /\ MainHas(k)'
    BY <2>3, <2>4
  <2> QED BY <1>1, <1>3, <2>3, <2>5
<1>14. CASE at = <<"abort", 1>>
  BY <1>14, MainCode, StepDoes
<1>15. CASE at = <<"abort", 2>> /\ AbortHas
  <2>1. Jmp
    BY <1>15, MainCode, StepDoes
  <2>2. at[1] = "abort"
    BY <1>15
  <2>3. /\ gates' = gates /\ at' = <<"abort", 1>> /\ pics' = pics
        /\ ledger' = ledger /\ stack' = stack /\ intr' = intr /\ seen' = seen
    BY <2>1, <2>2 DEF Jmp, devices
  <2>4. AbortHas'
    BY <1>15, <2>3 DEF AbortHas, Initialized
  <2>5. \E k \in 1..2 : at' = <<"abort", k>> /\ AbortHas'
    BY <2>3, <2>4
  <2> QED BY <1>1, <1>3, <2>3, <2>5
<1> QED
  <2>1. \/ at = <<"kernel_main", 1>> /\ ~intr /\ gates = [v \in Vectors |-> NoGate]
        \/ \E k \in 2..9 : at = <<"kernel_main", k>> /\ MainHas(k)
        \/ \E k \in 1..2 : at = <<"abort", k>> /\ AbortHas
    BY MainPlaces
  <2>2. ASSUME NEW k \in 2..9, at = <<"kernel_main", k>>, MainHas(k)
        PROVE  Kept /\ seen' = seen
    <3>1. k = 2 \/ k = 3 \/ k = 4 \/ k = 5 \/ k = 6 \/ k = 7 \/ k = 8 \/ k = 9
      OBVIOUS
    <3> QED BY <2>2, <3>1, <1>6, <1>7, <1>8, <1>9, <1>10, <1>11, <1>12, <1>13
  <2>3. ASSUME NEW k \in 1..2, at = <<"abort", k>>, AbortHas
        PROVE  Kept /\ seen' = seen
    BY <2>3, <1>14, <1>15
  <2> QED BY <2>1, <2>2, <2>3, <1>5

-----------------------------------------------------------------------------
(* Lines raised, vectors entered.                                          *)

\* A device's line, or nothing at all.
LEMMA IdleKeeps ==
  ASSUME IInv, UNCHANGED <<at, intr, shadow, stack, gates, byte, ledger>>, SameMask
  PROVE  IInv'
<1>1. MainAt' = MainAt /\ MainIntr' = MainIntr
  BY DEF MainAt, MainIntr
<1>2. Initialized => Initialized'
  BY DEF Initialized, SameMask
<1>3. (AbortHas => AbortHas') /\ \A k \in 2..9 : MainHas(k) => MainHas(k)'
  BY <1>1, <1>2 DEF AbortHas, MainHas, SameMask
<1>4. Started'
  BY <1>1, <1>3 DEF IInv, Started
<1>5. Typed' /\ Levels'
  BY DEF IInv, Typed, Levels, SameMask
<1>6. \A d : Frame(d)' = Frame(d)
  BY DEF Frame
<1>7. \A v : InLine(v)' = InLine(v) /\ InFault(v)' = InFault(v)
  BY <1>6 DEF InLine, InFault
<1>8. Inside'
  BY <1>6, <1>7 DEF IInv, Inside, InBreakpoint, InDoubleFault
<1> QED BY <1>4, <1>5, <1>8 DEF IInv

\* A device's line keeps the invariant.
LEMMA RaiseKeeps ==
  ASSUME IInv, NEW l \in Lines, Raise(l)
  PROVE  IInv' /\ ledger' = ledger /\ seen' = seen
<1>1. pics \in [Chips -> PicType] /\ pics[1] \in PicType /\ l \in AllLines
  BY InterruptsAssumption DEF IInv, Typed, Chips
<1>2. PICK p : p = [pics[1] EXCEPT !.irr = @ \cup {l}]
  OBVIOUS
<1>3. /\ p \in PicType /\ p.base = pics[1].base /\ p.mask = pics[1].mask
      /\ p.expects = pics[1].expects
  BY <1>1, <1>2 DEF PicType
<1>4. pics' = [pics EXCEPT ![1] = p]
  BY <1>2 DEF Raise
<1>5. SameMask
  BY <1>1, <1>3, <1>4 DEF SameMask, Chips
<1>6. UNCHANGED <<at, intr, shadow, stack, gates, byte, ledger>> /\ seen' = seen
  BY DEF Raise
<1> QED BY <1>5, <1>6, IdleKeeps

\* The vector that is entered for v.
Taken(v) == IF gates[v].selector = "kernel" THEN v ELSE 13

\* What entering a vector leaves on the stack and in the ledger.
LEMMA EnterIs ==
  ASSUME IsSequence(stack), IsSequence(ledger), NEW v, NEW back, Enter(v, back)
  PROVE  /\ IsSequence(stack') /\ IsSequence(ledger') /\ ledger' # <<>>
         /\ Last(ledger') = [vector |-> Taken(v), at |-> back, intr |-> intr]
         /\ Len(ledger) \in Nat /\ Len(ledger') = Len(ledger) + 1
         /\ \A i \in 1..Len(ledger) : ledger'[i] = ledger[i]
         /\ ledger'[Len(ledger) + 1] = [vector |-> Taken(v), at |-> back, intr |-> intr]
         /\ Framed(stack', Last(ledger'), 0)
         /\ at' = <<gates[Taken(v)].stub, 1>> /\ intr' = FALSE
         /\ gates' = gates /\ byte' = byte /\ seen' = seen
<1>0. PICK w : w = Taken(v)
  OBVIOUS
<1>1. /\ at' = <<gates[w].stub, 1>> /\ intr' = FALSE
      /\ gates' = gates /\ byte' = byte /\ seen' = seen
      /\ ledger' = Append(ledger, [vector |-> w, at |-> back, intr |-> intr])
  BY <1>0 DEF Enter, Taken
<1>2. PICK e : e = [vector |-> w, at |-> back, intr |-> intr]
  OBVIOUS
<1>3. PICK S : S = Range(ledger) \cup {e}
  OBVIOUS
<1>4. ledger \in Seq(S) /\ e \in S
  BY <1>3, Wider DEF IsSequence
<1>5. PICK t : t = ledger'
  OBVIOUS
<1>6. t = Append(ledger, e)
  BY <1>1, <1>2, <1>5
<1>7. /\ t \in Seq(S) /\ Len(t) = Len(ledger) + 1 /\ Len(ledger) \in Nat
      /\ \A i \in 1..Len(ledger) : t[i] = ledger[i]
  BY <1>4, <1>6
<1>8. t[Len(ledger) + 1] = e
  BY <1>4, <1>6
<1>9. t # <<>> /\ Last(t) = e
  BY <1>7, <1>8 DEF Last
<1>10. IsSequence(t)
  BY <1>7, Ranged
<1>11. PICK x : x = <<"eip", back>>
  OBVIOUS
<1>12. PICK z : z = <<"flags", intr>>
  OBVIOUS
<1>13. e.vector = w /\ e.at = back /\ e.intr = intr
  BY <1>2
<1>14. IsSequence(stack') /\ Framed(stack', e, 0)
  <2>1. CASE w \in ErrorVectors
    <3>1. stack' = << <<"error">> >> \o <<x, <<"cs">>, z>> \o stack
      BY <2>1, <1>0, <1>11, <1>12 DEF Enter, Taken
    <3>2. PICK s : s = stack'
      OBVIOUS
    <3>3. PICK S2 : S2 = Range(stack) \cup {<<"error">>, x, <<"cs">>, z}
      OBVIOUS
    <3>4. stack \in Seq(S2) /\ <<"error">> \in S2 /\ x \in S2 /\ <<"cs">> \in S2 /\ z \in S2
      BY <3>3, Wider DEF IsSequence
    <3>5. s \in Seq(S2) /\ Len(s) >= 4 /\ s[2] = x /\ s[4] = z
      BY ONLY <3>1, <3>2, <3>4, Pushed4
    <3>6. IsSequence(s)
      BY <3>5, Ranged
    <3>7. Framed(s, e, 0)
      BY <2>1, <3>5, <1>11, <1>12, <1>13 DEF Framed
    <3> QED BY <3>2, <3>6, <3>7
  <2>2. CASE w \notin ErrorVectors
    <3>1. stack' = <<>> \o <<x, <<"cs">>, z>> \o stack
      BY <2>2, <1>0, <1>11, <1>12 DEF Enter, Taken
    <3>2. PICK s : s = stack'
      OBVIOUS
    <3>3. PICK S2 : S2 = Range(stack) \cup {x, <<"cs">>, z}
      OBVIOUS
    <3>4. stack \in Seq(S2) /\ x \in S2 /\ <<"cs">> \in S2 /\ z \in S2
      BY <3>3, Wider DEF IsSequence
    <3>5. s \in Seq(S2) /\ Len(s) >= 3 /\ s[1] = x /\ s[3] = z
      BY ONLY <3>1, <3>2, <3>4, Entered
    <3>6. IsSequence(s)
      BY <3>5, Ranged
    <3>7. Framed(s, e, 0)
      BY <2>2, <3>5, <1>11, <1>12, <1>13 DEF Framed
    <3> QED BY <3>2, <3>6, <3>7
  <2> QED BY <2>1, <2>2
<1> QED BY <1>0, <1>1, <1>2, <1>5, <1>7, <1>8, <1>9, <1>10, <1>14

\* No handler runs in kernel_main, and none lets an interrupt in.
LEMMA InsideIs ==
  ASSUME IInv, ledger # <<>>
  PROVE  (intr => shadow) /\ at[1] # "kernel_main"
<1>1. PICK v : v = Last(ledger).vector
  OBVIOUS
<1>2. CASE v \in {32, 33} /\ InLine(v)
  <2>1. StubOf(v) # "kernel_main" /\ HandlerOf(v) # "kernel_main"
    BY <1>2, StubsOf
  <2> QED BY <1>2, <2>1 DEF InLine, Among
<1>3. CASE InBreakpoint
  BY <1>3 DEF InBreakpoint, Among
<1>4. CASE ~intr /\ InDoubleFault
  BY <1>4 DEF InDoubleFault, Among
<1>5. CASE v \in FatalVectors \ {8} /\ ~intr /\ InFault(v)
  <2>1. StubOf(v) # "kernel_main" /\ HandlerOf(v) # "kernel_main"
    BY <1>5, FaultStubs, FaultHandlers
  <2> QED BY <1>5, <2>1 DEF InFault, Among
<1> QED BY <1>1, <1>2, <1>3, <1>4, <1>5 DEF IInv, Inside

\* kernel_main never halts.
LEMMA MainRuns ==
  ASSUME NEW k \in 2..9, at = <<"kernel_main", k>> PROVE Op[1] # "hlt"
<1>1. CASE k = 2
  <2>1. Op = <<"gate", 32, "int32_handler">>
    BY <1>1, MainCode
  <2> QED BY <2>1
<1>2. CASE k = 3
  <2>1. Op = <<"data", 254>>
    BY <1>2, MainCode
  <2> QED BY <2>1
<1>3. CASE k = 4
  <2>1. Op = <<"sti">>
    BY <1>3, MainCode
  <2> QED BY <2>1
<1>4. CASE k = 5
  <2>1. Op = <<"setup">>
    BY <1>4, MainCode
  <2> QED BY <2>1
<1>5. CASE k = 6
  <2>1. Op = <<"gate", 33, "kbd_handler">>
    BY <1>5, MainCode
  <2> QED BY <2>1
<1>6. CASE k = 7
  <2>1. Op = <<"in">>
    BY <1>6, MainCode
  <2> QED BY <2>1
<1>7. CASE k = 8
  <2>1. Op = <<"data and", 253>>
    BY <1>7, MainCode
  <2> QED BY <2>1
<1>8. CASE k = 9
  <2>1. Op = <<"jmp">>
    BY <1>8, MainCode
  <2> QED BY <2>1
<1> QED BY <1>1, <1>2, <1>3, <1>4, <1>5, <1>6, <1>7, <1>8

\* Entering a vector leaves the start where it was.
LEMMA StartEntered ==
  ASSUME IInv, Initialized, NEW v, NEW back \in {at, Behind}, Enter(v, back), SameMask
  PROVE  Started' /\ Initialized'
<1>1. IsSequence(stack) /\ IsSequence(ledger)
  BY DEF IInv, Typed
<1>3. /\ ledger' # <<>> /\ Len(ledger) \in Nat /\ Len(ledger') = Len(ledger) + 1
      /\ \A i \in 1..Len(ledger) : ledger'[i] = ledger[i]
      /\ ledger'[Len(ledger) + 1] = [vector |-> Taken(v), at |-> back, intr |-> intr]
      /\ gates' = gates /\ byte' = byte
  BY <1>1, EnterIs
<1>4. Initialized'
  BY <1>3 DEF Initialized, SameMask
<1>5. MainIntr' = MainIntr
  <2>1. CASE ledger = <<>>
    BY <1>3, <2>1 DEF MainIntr
  <2>2. CASE ledger # <<>>
    <3>1. Len(ledger) >= 1
      BY <1>1, <2>2, <1>3, LastIs
    <3> QED BY <1>3, <2>2, <3>1 DEF MainIntr
  <2> QED BY <2>1, <2>2
<1>6. MainAt' = MainAt \/ (ledger = <<>> /\ MainAt' = back)
  <2>1. CASE ledger = <<>>
    BY <1>3, <2>1 DEF MainAt
  <2>2. CASE ledger # <<>>
    <3>1. Len(ledger) >= 1
      BY <1>1, <2>2, <1>3, LastIs
    <3> QED BY <1>3, <2>2, <3>1 DEF MainAt
  <2> QED BY <2>1, <2>2
<1>7. (AbortHas => AbortHas') /\ \A k \in 2..9 : MainHas(k) => MainHas(k)'
  BY <1>3, <1>4, <1>5 DEF AbortHas, MainHas, SameMask
<1>8. gates[13] # NoGate
  BY GatesLoaded DEF Initialized
<1>9. MainAt = <<"kernel_main", 1>> => gates[13] = NoGate
  <2>1. \A k \in 2..9 : <<"kernel_main", k>> # <<"kernel_main", 1>>
    OBVIOUS
  <2>2. \A k \in 1..2 : <<"abort", k>> # <<"kernel_main", 1>>
    OBVIOUS
  <2> QED BY <2>1, <2>2 DEF IInv, Started, Vectors
<1>10. \/ \E k \in 2..9 : MainAt = <<"kernel_main", k>> /\ MainHas(k)
       \/ \E k \in 1..2 : MainAt = <<"abort", k>> /\ AbortHas
  BY <1>8, <1>9 DEF IInv, Started
<1>11. CASE MainAt' = MainAt
  BY <1>4, <1>7, <1>10, <1>11 DEF Started
<1>12. CASE ledger = <<>> /\ MainAt' = back /\ back # at
  <2>1. back = Next1 /\ Op[1] = "hlt"
    BY <1>12 DEF Behind
  <2>2. MainAt = at
    BY <1>12 DEF MainAt
  <2>3. \A k \in 2..9 : at # <<"kernel_main", k>>
    <3>1. SUFFICES ASSUME NEW k \in 2..9, at = <<"kernel_main", k>> PROVE FALSE
      OBVIOUS
    <3>2. Op[1] # "hlt"
      BY <3>1, MainRuns
    <3> QED BY <3>2, <2>1
  <2>4. at # <<"abort", 2>>
    <3>1. at = <<"abort", 2>> => Op[1] = "jmp"
      BY MainCode
    <3> QED BY <2>1, <3>1
  <2>5. at = <<"abort", 1>> /\ AbortHas
    BY <1>10, <2>2, <2>3, <2>4
  <2>6. back = <<"abort", 2>>
    BY <2>1, <2>5 DEF Next1
  <2>7. \E k \in 1..2 : MainAt' = <<"abort", k>> /\ AbortHas'
    BY <1>7, <1>12, <2>5, <2>6
  <2> QED BY <1>4, <2>7 DEF Started
<1> QED
  <2>1. ledger = <<>> => MainAt = at
    BY DEF MainAt
  <2> QED BY <1>6, <1>11, <1>12, <2>1

\* Once the table has a gate for the protection fault it has them all.
LEMMA LoadedIs ==
  ASSUME IInv, gates[13] # NoGate
  PROVE  Initialized
<1>1. 13 \in Vectors
  BY DEF Vectors
<1>2. gates # [v \in Vectors |-> NoGate]
  BY <1>1
<1> QED BY <1>2 DEF IInv, Started, MainHas, AbortHas

\* Entering a vector begins its stub, over the frame of what it interrupts.
LEMMA EntryKeeps ==
  ASSUME IInv, Initialized, NEW v, NEW back \in {at, Behind}, Enter(v, back), SameMask,
         Taken(v) \in FatalVectors \/ (Taken(v) \in ReturningVectors /\ ledger = <<>>),
         gates[Taken(v)].stub = StubOf(Taken(v))
  PROVE  IInv' /\ Len(ledger') > Len(ledger) /\ seen' = seen
<1>1. /\ IsSequence(stack) /\ IsSequence(ledger) /\ intr \in BOOLEAN
      /\ \A i \in DOMAIN ledger : ledger[i].intr \in BOOLEAN
      /\ DOMAIN gates = Vectors
  BY DEF IInv, Typed
<1>2. PICK w : w = Taken(v)
  OBVIOUS
<1>3. w \in FatalVectors \/ (w \in ReturningVectors /\ ledger = <<>>)
  BY <1>2
<1>4. PICK e : e = [vector |-> w, at |-> back, intr |-> intr]
  OBVIOUS
<1>5. e.vector = w /\ e.intr = intr
  BY <1>4
<1>6. /\ IsSequence(stack') /\ IsSequence(ledger') /\ ledger' # <<>>
      /\ Last(ledger') = e
      /\ Len(ledger) \in Nat /\ Len(ledger') = Len(ledger) + 1
      /\ \A i \in 1..Len(ledger) : ledger'[i] = ledger[i]
      /\ ledger'[Len(ledger) + 1] = e
      /\ Framed(stack', Last(ledger'), 0)
      /\ at' = <<StubOf(w), 1>> /\ intr' = FALSE
      /\ gates' = gates /\ byte' = byte /\ seen' = seen
  BY <1>1, <1>2, <1>4, EnterIs
<1>7. DOMAIN ledger' = 1..(Len(ledger) + 1) /\ DOMAIN ledger = 1..Len(ledger)
  BY <1>1, <1>6 DEF IsSequence
<1>8. \A i \in DOMAIN ledger' :
        \/ i \in DOMAIN ledger /\ ledger'[i] = ledger[i]
        \/ i = Len(ledger) + 1 /\ ledger'[i] = e
  BY <1>6, <1>7
<1>9. Typed'
  <2>1. \A i \in DOMAIN ledger' : ledger'[i].intr \in BOOLEAN
    BY <1>1, <1>5, <1>8
  <2>2. DOMAIN gates' = Vectors /\ intr' \in BOOLEAN
    BY <1>1, <1>6
  <2> QED BY <1>6, <2>1, <2>2 DEF Typed, SameMask
<1>10. Levels'
  <2>1. SUFFICES ASSUME NEW i \in DOMAIN ledger'
                 PROVE  \/ ledger'[i].vector \in FatalVectors
                        \/ i = 1 /\ ledger'[i].vector \in ReturningVectors
    BY DEF Levels
  <2>2. CASE i \in DOMAIN ledger /\ ledger'[i] = ledger[i]
    BY <2>2 DEF IInv, Levels
  <2>3. CASE i = Len(ledger) + 1 /\ ledger'[i] = e
    <3>1. ledger = <<>> => Len(ledger) = 0
      OBVIOUS
    <3> QED BY <1>3, <1>5, <2>3, <3>1
  <2> QED BY <1>8, <2>1, <2>2, <2>3
<1>11. Started'
  BY StartEntered
<1>12. Frame(0)'
  BY <1>6 DEF Frame
<1>13. Inside'
  <2>1. Last(ledger').vector = w /\ intr' = FALSE /\ at' = <<StubOf(w), 1>>
    BY <1>5, <1>6
  <2>2. CASE w \in {32, 33}
    <3>1. InLine(w)'
      BY <1>12, <2>1 DEF InLine, Among
    <3> QED BY <2>1, <2>2, <3>1 DEF Inside
  <2>3. CASE w = 3
    <3>1. InBreakpoint'
      BY <1>12, <2>1, <2>3, StubsOf DEF InBreakpoint, Among
    <3> QED BY <2>1, <2>3, <3>1 DEF Inside
  <2>4. CASE w = 8
    <3>1. InDoubleFault'
      BY <2>1, <2>4, StubsOf DEF InDoubleFault, Among
    <3> QED BY <2>1, <2>4, <3>1 DEF Inside
  <2>5. CASE w \in FatalVectors \ {8}
    <3>1. InFault(w)'
      BY <1>12, <2>1 DEF InFault, Among
    <3> QED BY <2>1, <2>5, <3>1 DEF Inside
  <2> QED BY <1>3, <2>2, <2>3, <2>4, <2>5 DEF ReturningVectors
<1>14. Len(ledger') > Len(ledger)
  BY <1>6
<1> QED BY <1>6, <1>9, <1>10, <1>11, <1>13, <1>14 DEF IInv

\* A fault keeps the invariant.
LEMMA FaultKeeps ==
  ASSUME IInv, NEW v \in Faults, Fault(v)
  PROVE  IInv' /\ Len(ledger') > Len(ledger) /\ seen' = seen
<1>1. v \in 0..31
  BY InterruptsAssumption
<1>2. Initialized
  BY LoadedIs DEF Fault, Loaded
<1>3. gates[v] = LoadedGates[v] /\ gates[13] = LoadedGates[13]
  BY <1>1, <1>2 DEF Initialized
<1>4. PICK back \in {at, Behind} : Enter(v, back)
  BY DEF Fault
<1>5. SameMask
  BY DEF Fault, devices, SameMask, IInv, Typed
<1>6. Taken(v) \in FatalVectors \/ (Taken(v) = 3 /\ v = 3)
  <2>1. CASE gates[v].selector = "kernel"
    <3>1. v \in FatalVectors \cup {3}
      BY <1>1, <1>3, <2>1, GatesLoaded
    <3> QED BY <2>1, <3>1 DEF Taken
  <2>2. CASE gates[v].selector # "kernel"
    BY <2>2 DEF Taken, FatalVectors
  <2> QED BY <2>1, <2>2
<1>7. Taken(v) = 3 => ledger = <<>>
  <2>1. ASSUME v = 3 PROVE ledger = <<>>
    <3>1. at = <<"kernel_main", 9>>
      BY <2>1, kernel_mainIs DEF Fault
    <3> QED BY <3>1, InsideIs
  <2> QED BY <1>6, <2>1 DEF FatalVectors
<1>8. gates[Taken(v)].stub = StubOf(Taken(v))
  <2>1. Taken(v) \in {v, 13}
    BY DEF Taken
  <2>2. Taken(v) \in 0..31
    BY <1>1, <2>1
  <2>3. gates[Taken(v)] = LoadedGates[Taken(v)]
    BY <1>2, <2>2 DEF Initialized
  <2>4. Taken(v) \in Vectors \ {32, 33}
    BY <2>2 DEF Vectors
  <2> QED BY <2>3, <2>4, StubsOf
<1> QED BY <1>2, <1>4, <1>5, <1>6, <1>7, <1>8, EntryKeeps DEF ReturningVectors

\* The lines that may interrupt kernel_main where the flag is set.
LEMMA OpenHere ==
  ASSUME IInv, intr, ledger = <<>>
  PROVE  /\ Initialized
         /\ AllLines \ BitsOf(pics[1].mask) \subseteq {0, 1}
         /\ gates[32] = Gate("int32_handler")
         /\ 1 \notin BitsOf(pics[1].mask) => gates[33] = Gate("kbd_handler")
<1>1. MainIntr = intr
  BY DEF MainIntr
<1>2. CASE at = <<"kernel_main", 1>> /\ ~intr /\ gates = [v \in Vectors |-> NoGate]
  BY <1>2
<1>3. ASSUME NEW k \in 2..9, at = <<"kernel_main", k>>, MainHas(k)
      PROVE  /\ Initialized
             /\ gates[32] = Gate("int32_handler")
             /\ pics[1].mask = IF k = 9 THEN 252 ELSE 254
             /\ k = 9 => gates[33] = Gate("kbd_handler")
  <2>1. k > 4
    BY <1>1, <1>3 DEF MainHas
  <2> QED BY <1>3, <2>1 DEF MainHas
<1>4. CASE \E k \in 2..9 : at = <<"kernel_main", k>> /\ MainHas(k)
  <2>1. PICK k \in 2..9 : at = <<"kernel_main", k>> /\ MainHas(k)
    BY <1>4
  <2>2. /\ Initialized
        /\ gates[32] = Gate("int32_handler")
        /\ pics[1].mask = IF k = 9 THEN 252 ELSE 254
        /\ k = 9 => gates[33] = Gate("kbd_handler")
    BY <2>1, <1>3
  <2>3. CASE k = 9
    BY <2>2, <2>3, OpenLines
  <2>4. CASE k # 9
    <3>1. AllLines \ BitsOf(pics[1].mask) = {0}
      BY <2>2, <2>4, OpenLines
    <3>2. 1 \in AllLines
      BY DEF AllLines
    <3>3. 1 \in BitsOf(pics[1].mask)
      BY <3>1, <3>2
    <3> QED BY <2>2, <3>1, <3>3
  <2> QED BY <2>3, <2>4
<1>5. CASE \E k \in 1..2 : at = <<"abort", k>> /\ AbortHas
  <2>1. Initialized /\ gates[32] = Gate("int32_handler") /\ pics[1].mask = 254
    BY <1>5 DEF AbortHas
  <2>2. AllLines \ BitsOf(pics[1].mask) = {0}
    BY <2>1, OpenLines
  <2>3. 1 \in AllLines
    BY DEF AllLines
  <2> QED BY <2>1, <2>2, <2>3
<1> QED BY <1>2, <1>4, <1>5, MainPlaces

\* A controller that passes a line on keeps its mask.
LEMMA AcknowledgeKeeps ==
  ASSUME pics \in [Chips -> PicType], NEW l \in AllLines,
         pics' = [pics EXCEPT ![1] = Acknowledge(@, l)]
  PROVE  SameMask
<1>1. pics[1] \in PicType
  BY DEF Chips
<1>2. PICK p : p = Acknowledge(pics[1], l)
  OBVIOUS
<1>3. /\ p \in PicType /\ p.base = pics[1].base /\ p.mask = pics[1].mask
      /\ p.expects = pics[1].expects
  BY <1>1, <1>2 DEF PicType, Acknowledge
<1>4. pics' = [pics EXCEPT ![1] = p]
  BY <1>2
<1> QED BY <1>3, <1>4 DEF SameMask, Chips

\* An interrupt line keeps the invariant: it comes to kernel_main only, and has its gate.
LEMMA InterruptKeeps ==
  ASSUME IInv, Interrupt
  PROVE  IInv' /\ Len(ledger') > Len(ledger) /\ seen' = seen
<1>1. PICK l \in Lines : InterruptBy(l)
  BY DEF Interrupt
<1>2. /\ intr /\ ~shadow /\ Offered(pics[1]) # {}
      /\ l = Lowest(Offered(pics[1])) /\ Enter(pics[1].base + l, Behind)
      /\ pics' = [pics EXCEPT ![1] = Acknowledge(@, l)]
  BY <1>1 DEF InterruptBy, IrqWaiting
<1>3. ledger = <<>>
  BY <1>2, InsideIs
<1>4. pics \in [Chips -> PicType] /\ pics[1].irr \subseteq AllLines
  BY DEF IInv, Typed, Chips, PicType
<1>5. PICK S : S = Offered(pics[1])
  OBVIOUS
<1>6. S \in SUBSET AllLines /\ S # {}
  BY <1>2, <1>4, <1>5 DEF Offered
<1>7. l \in Offered(pics[1])
  BY <1>2, <1>5, <1>6, LowestIsIn
<1>8. l \in AllLines /\ l \notin BitsOf(pics[1].mask)
  BY <1>4, <1>7 DEF Offered
<1>9. /\ Initialized /\ l \in {0, 1} /\ gates[32] = Gate("int32_handler")
      /\ l = 1 => gates[33] = Gate("kbd_handler")
  BY <1>2, <1>3, <1>8, OpenHere
<1>10. SameMask
  BY <1>2, <1>4, <1>8, AcknowledgeKeeps
<1>11. PICK v : v = pics[1].base + l
  OBVIOUS
<1>12. v \in {32, 33} /\ gates[v].selector = "kernel" /\ gates[v].stub = StubOf(v)
  <2>1. pics[1].base = 32
    BY <1>9 DEF Initialized
  <2>2. CASE l = 0
    <3>1. v = 32
      BY <1>11, <2>1, <2>2
    <3> QED BY <1>9, <3>1, StubsOf DEF Gate
  <2>3. CASE l = 1
    <3>1. v = 33
      BY <1>11, <2>1, <2>3
    <3> QED BY <1>9, <2>3, <3>1, StubsOf DEF Gate
  <2> QED BY <1>9, <2>2, <2>3
<1>13. Taken(v) = v
  BY <1>12 DEF Taken
<1>14. Enter(v, Behind)
  BY <1>2, <1>11
<1>15. Taken(v) \in ReturningVectors /\ gates[Taken(v)].stub = StubOf(Taken(v))
  BY <1>12, <1>13 DEF ReturningVectors
<1> QED BY <1>3, <1>9, <1>10, <1>14, <1>15, EntryKeeps

-----------------------------------------------------------------------------
(* The theorems.                                                           *)

\* The invariant holds at the start.
LEMMA InitIInv == Init => IInv
<1> SUFFICES ASSUME Init PROVE IInv
  OBVIOUS
<1>1. /\ at = <<"kernel_main", 1>> /\ intr = FALSE /\ stack = <<>> /\ ledger = <<>>
      /\ gates = [v \in Vectors |-> NoGate]
  BY DEF Init
<1>2. pics \in [Chips -> PicType]
  <2>1. PICK mask \in {0, 255}, early \in BOOLEAN :
          /\ pics = [c \in Chips |->
               [expects |-> "mask", base |-> 8, mask |-> mask, isr |-> {},
                irr |-> IF early /\ c = 1 THEN {1} ELSE {}]]
          /\ typed = early
    BY Zenon DEF Init
  <2>2. \A c \in Chips :
          [expects |-> "mask", base |-> 8, mask |-> mask, isr |-> {},
           irr |-> IF early /\ c = 1 THEN {1} ELSE {}] \in PicType
    BY DEF PicType, AllLines
  <2> QED BY <2>1, <2>2
<1>3. IsSequence(stack) /\ IsSequence(ledger)
  BY <1>1 DEF IsSequence
<1>4. Typed
  <2>1. \A i \in DOMAIN ledger : ledger[i].intr \in BOOLEAN
    BY <1>1
  <2>2. DOMAIN gates = Vectors
    BY <1>1
  <2>3. intr \in BOOLEAN
    BY <1>1
  <2> QED BY <1>2, <1>3, <2>1, <2>2, <2>3 DEF Typed
<1>5. Levels /\ Inside
  BY <1>1 DEF Levels, Inside
<1>6. Started
  BY <1>1 DEF Started, MainAt
<1> QED BY <1>4, <1>5, <1>6 DEF IInv

\* Every step keeps the invariant; one that leaves a level returns to what it
\* interrupted, and one that reports a fault reports what it interrupted.
LEMMA NextIInv ==
  ASSUME IInv, Next
  PROVE  /\ IInv'
         /\ \/ Len(ledger') >= Len(ledger)
            \/ at' = Last(ledger).at /\ intr' = Last(ledger).intr
         /\ seen' = seen \/ seen' = Truth \/ at[1] = "doublefault"
<1>0. Len(ledger) \in Nat
  BY DEF IInv, Typed, IsSequence
<1>1. ASSUME Step
      PROVE  Kept /\ (seen' = seen \/ seen' = Truth \/ at[1] = "doublefault")
  <2>1. CASE ledger = <<>>
    BY <1>1, <2>1, MainStep
  <2>2. CASE ledger # <<>>
    <3>1. PICK v : v = Last(ledger).vector
      OBVIOUS
    <3>2. v \in FatalVectors \cup ReturningVectors
      BY <2>2, <3>1, LastIs
    <3>3. CASE v \in {32, 33}
      BY <1>1, <2>2, <3>1, <3>3, LineStep
    <3>4. CASE v = 3
      BY <1>1, <2>2, <3>1, <3>4, BreakpointStep
    <3>5. CASE v = 8
      BY <1>1, <2>2, <3>1, <3>5, DoubleFaultStep
    <3>6. CASE v \in FatalVectors \ {8}
      BY <1>1, <2>2, <3>1, <3>6, FaultStep
    <3> QED BY <3>2, <3>3, <3>4, <3>5, <3>6 DEF ReturningVectors
  <2> QED BY <2>1, <2>2
<1>2. CASE Step
  BY <1>0, <1>1, <1>2 DEF Kept
<1>3. CASE Interrupt
  BY <1>0, <1>3, InterruptKeeps
<1>4. CASE \E v \in Faults : Fault(v)
  BY <1>0, <1>4, FaultKeeps
<1>5. CASE \E l \in Lines : Raise(l)
  BY <1>0, <1>5, RaiseKeeps
<1> QED BY <1>2, <1>3, <1>4, <1>5 DEF Next

\* At every step of every run the levels, the start and the stack are as the code
\* needs them: the inductive invariant.
THEOREM Invariance == Spec => []IInv
<1>1. IInv /\ UNCHANGED ivars => IInv'
  <2> SUFFICES ASSUME IInv, UNCHANGED ivars PROVE IInv'
    OBVIOUS
  <2>1. UNCHANGED <<at, intr, shadow, stack, gates, byte, ledger>> /\ pics' = pics
    BY DEF ivars
  <2>2. SameMask
    BY <2>1 DEF SameMask, IInv, Typed
  <2> QED BY <2>1, <2>2, IdleKeeps
<1>2. IInv /\ [Next]_ivars => IInv'
  BY <1>1, NextIInv
<1> QED BY <1>2, InitIInv, PTL DEF Spec

\* Interrupt lines do not nest: apictimer and ps2kbd_handler never run inside each
\* other, whatever faults come and however deep they go.
THEOREM LinesDoNotNestHolds == Spec => []LinesDoNotNest
<1>1. IInv => LinesDoNotNest
  <2> SUFFICES ASSUME IInv PROVE LinesDoNotNest
    OBVIOUS
  <2>1. PICK S : S = {i \in DOMAIN ledger : ledger[i].vector >= 32}
    OBVIOUS
  <2>2. S \subseteq {1}
    BY <2>1 DEF IInv, Levels, FatalVectors
  <2>3. Cardinality({1}) = 1 /\ IsFiniteSet({1})
    BY FS_Singleton
  <2>4. Cardinality(S) <= 1
    BY <2>2, <2>3, FS_Subset
  <2> QED BY <2>1, <2>4 DEF LinesDoNotNest
<1> QED BY <1>1, Invariance, PTL

\* No device reaches an empty descriptor: whenever an interrupt may come, at any
\* point of the start, every line that is not masked has its gate.
THEOREM UnmaskedHasGateHolds == Spec => []UnmaskedHasGate
<1>1. IInv => UnmaskedHasGate
  <2> SUFFICES ASSUME IInv, intr, ~shadow, NEW l \in AllLines \ BitsOf(pics[1].mask)
               PROVE  l < 2 /\ gates[pics[1].base + l] = Gate(LineHandler[l + 1])
    BY DEF UnmaskedHasGate
  <2>1. ledger = <<>>
    BY InsideIs
  <2>2. /\ l \in {0, 1} /\ pics[1].base = 32
        /\ gates[32] = Gate("int32_handler")
        /\ l = 1 => gates[33] = Gate("kbd_handler")
    BY <2>1, OpenHere DEF Initialized
  <2>3. LineHandler[1] = "int32_handler" /\ LineHandler[2] = "kbd_handler"
    BY DEF LineHandler
  <2> QED BY <2>2, <2>3
<1> QED BY <1>1, Invariance, PTL

\* Every stub that returns goes back to what was interrupted, with the interrupt
\* flag it had.
THEOREM ReturnsToInterruptedHolds == Spec => ReturnsToInterrupted
<1>1. IInv /\ [Next]_ivars =>
        [Len(ledger') < Len(ledger) =>
           at' = Last(ledger).at /\ intr' = Last(ledger).intr]_ivars
  <2> SUFFICES ASSUME IInv, Next, Len(ledger') < Len(ledger)
               PROVE  at' = Last(ledger).at /\ intr' = Last(ledger).intr
    OBVIOUS
  <2>1. \/ Len(ledger') >= Len(ledger)
        \/ at' = Last(ledger).at /\ intr' = Last(ledger).intr
    BY NextIInv
  <2>2. IInv'
    BY NextIInv
  <2>3. Len(ledger) \in Nat /\ Len(ledger') \in Nat
    BY <2>2 DEF IInv, Typed, IsSequence
  <2> QED BY <2>1, <2>3
<1> QED BY <1>1, Invariance, PTL DEF Spec, ReturnsToInterrupted

\* What a handler reports is the place and the flags of the fault, for every fault
\* but the double fault.
THEOREM ReportsTheFaultHolds == Spec => ReportsTheFault
<1>1. IInv /\ [Next]_ivars =>
        [seen' # seen => seen' = Truth \/ at[1] = "doublefault"]_ivars
  BY NextIInv
<1> QED BY <1>1, Invariance, PTL DEF Spec, ReportsTheFault
=============================================================================
