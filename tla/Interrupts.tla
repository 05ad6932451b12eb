----------------------------- MODULE Interrupts -----------------------------
(***************************************************************************)
(* Interrupts and faults (src/libintr): kernel_main's start, the stubs the *)
(* gates lead to, the C handlers they call and the processor's stack, one  *)
(* machine instruction or C statement a step.  An interrupt line, a fault  *)
(* or a non-maskable interrupt may come between any two of them.           *)
(*                                                                         *)
(* The eight registers of pusha are one word, all the code runs at the     *)
(* kernel's privilege (the kernel has no user code yet), and what the      *)
(* handlers print is left out but for the words of the frame they report.  *)
(***************************************************************************)
EXTENDS Pic, FiniteSets

CONSTANTS
  Faults,       \* vectors the processor may raise in the code it runs
  Lines,        \* lines the devices of the first controller use
  MaxFrames,    \* bound: interrupts and faults in progress
  TickLimit     \* values of the tick counter (2^64 in the code)

ASSUME InterruptsAssumption ==
  /\ Faults \subseteq 0..31
  /\ Lines \subseteq AllLines /\ {0, 1} \subseteq Lines
  /\ MaxFrames \in Nat \ {0}
  /\ TickLimit \in Nat \ {0}

VARIABLES
  at,           \* what runs next: <<routine, place>>
  intr,         \* the interrupt flag
  shadow,       \* the instruction before was sti: no interrupt comes yet
  stack,        \* words pushed, the last one first
  gates,        \* the descriptor table: a stub and a code selector for each vector
  pics,         \* the interrupt controllers
  byte,         \* initKbd's local variable
  ticks,        \* apictimer's counter
  typed,        \* the keyboard controller holds a byte nobody has read
  seen,         \* what the last fault handler reported
  ledger        \* history: what was interrupted, and by which vector

ivars == <<at, intr, shadow, stack, gates, pics, byte, ticks, typed, seen, ledger>>
devices == <<pics, ticks, typed>>

\* The vectors anything here uses; the table has 256.
Vectors == 0..33
NoGate == [stub |-> "none", selector |-> "none"]
Gate(stub) == [stub |-> stub, selector |-> "kernel"]
NoReport == <<>>

-----------------------------------------------------------------------------
(* The stubs.                                                              *)

Stub(handler) ==
  << <<"cli">>, <<"pusha">>, <<"push esp">>, <<"call", {handler}>>,
     <<"add 4">>, <<"popa">>, <<"sti">>, <<"iret">> >>
int0_handler == Stub("dividebyzero")
int2_handler == Stub("NMI_handler")
int5_handler == Stub("indexoutofrange")
int6_handler == Stub("invalidopcode")
int7_handler == Stub("devicenotavail")
int9_handler == Stub("coprocoverrun")
int10_handler == Stub("invalidTSS")
int11_handler == Stub("segnotpresent")
int12_handler == Stub("stacksegflt")
int13_handler == Stub("gpfault")
int14_handler == Stub("pagefault")
int16_handler == Stub("fpuerror")
int17_handler == Stub("alignmentcheck")
int18_handler == Stub("machinecheck")
int19_handler == Stub("floatptexc")
int20_handler == Stub("virtexcp")
int21_handler == Stub("ctlprotexc")
\* Fault: interrupts are let in before the registers are back.
int32_handler_EarlySti ==
  << <<"cli">>, <<"pusha">>, <<"push esp">>, <<"call", {"apictimer"}>>, <<"sti">>,
     <<"add 4">>, <<"popa">>, <<"iret">> >>
int32_handler == Stub("apictimer")
kbd_handler == Stub("ps2kbd_handler")
\* The breakpoint calls nothing.
int3_handler ==
  << <<"cli">>, <<"pusha">>, <<"push esp">>, <<"add 4">>, <<"popa">>, <<"sti">>, <<"iret">> >>
\* The double fault pushes the flags once more, and nothing takes them off.
int8_handler ==
  << <<"cli">>, <<"pushfl">>, <<"pusha">>, <<"push esp">>, <<"call", {"doublefault"}>>,
     <<"add 4">>, <<"popa">>, <<"sti">>, <<"iret">> >>

-----------------------------------------------------------------------------
(* The handlers, and the two ways to stop.                                 *)

\* The words a handler takes its frame to be made of, from its first up.
interrupt_frame_t == <<"regs", "address", "segment", "flags">>
interrupt_error_frame_t == <<"regs", "error", "address", "segment", "flags">>

\* It reports and ends in kernelabort.
Fatal(frame) == << <<"report", frame>>, <<"call", {"kernelabort"}>>, <<"ret">> >>
dividebyzero == Fatal(interrupt_frame_t)
indexoutofrange == Fatal(interrupt_frame_t)
invalidopcode == Fatal(interrupt_frame_t)
devicenotavail == Fatal(interrupt_frame_t)
doublefault == Fatal(interrupt_error_frame_t)
coprocoverrun == Fatal(interrupt_frame_t)
invalidTSS == Fatal(interrupt_error_frame_t)
segnotpresent == Fatal(interrupt_error_frame_t)
stacksegflt == Fatal(interrupt_error_frame_t)
gpfault == Fatal(interrupt_error_frame_t)
\* Fault: the handler takes a frame without an error code.
pagefault_NoCode == Fatal(interrupt_frame_t)
pagefault == Fatal(interrupt_error_frame_t)
fpuerror == Fatal(interrupt_frame_t)
alignmentcheck == Fatal(interrupt_error_frame_t)
machinecheck == Fatal(interrupt_frame_t)
floatptexc == Fatal(interrupt_frame_t)
virtexcp == Fatal(interrupt_frame_t)
ctlprotexc == Fatal(interrupt_error_frame_t)
\* Memory and bus errors abort; anything else is fatal too.
NMI_handler ==
  << <<"report", interrupt_frame_t>>, <<"call", {"abort", "kernelabort"}>>, <<"ret">> >>

\* Fault: the fault is reported and the handler returns.
kernelabort_Returns == << <<"ret">> >>
kernelabort == << <<"cli">>, <<"hlt">>, <<"jmp">> >>
abort == << <<"hlt">>, <<"jmp">> >>

apictimer == << <<"tick">>, <<"command", APIC_END_OF_INTERRUPT>>, <<"ret">> >>
\* What processKeypress does with the byte is Ps2Kbd's.
ps2kbd_handler == << <<"key">>, <<"command", APIC_END_OF_INTERRUPT>>, <<"ret">> >>

-----------------------------------------------------------------------------
(* kernel_main.                                                            *)

initAPICtimer == << <<"gate", 32, "int32_handler">>, <<"data", 254>> >>
EnableInterrupts == <<"sti">>
\* Fault: the mask opens the line after the keyboard's.
initKbd_WrongLine == << <<"gate", 33, "kbd_handler">>, <<"in">>, <<"data and", 251>> >>
initKbd == << <<"gate", 33, "kbd_handler">>, <<"in">>, <<"data and", 253>> >>
\* Fault: interrupts are turned on before the timer is set up.
kernel_main_Early ==
  << <<"loadIDT">>, EnableInterrupts, initAPICtimer[1], initAPICtimer[2],
     <<"setup">>, initKbd[1], initKbd[2], initKbd[3], <<"jmp">> >>
\* What is set up in between may abort, or never return; the command loop is one
\* step for ever.
kernel_main ==
  << <<"loadIDT">>, initAPICtimer[1], initAPICtimer[2], EnableInterrupts,
     <<"setup">>, initKbd[1], initKbd[2], initKbd[3], <<"jmp">> >>

Code ==
  [kernel_main |-> kernel_main, abort |-> abort, kernelabort |-> kernelabort,
   int0_handler |-> int0_handler, int2_handler |-> int2_handler,
   int3_handler |-> int3_handler, int5_handler |-> int5_handler,
   int6_handler |-> int6_handler, int7_handler |-> int7_handler,
   int8_handler |-> int8_handler, int9_handler |-> int9_handler,
   int10_handler |-> int10_handler, int11_handler |-> int11_handler,
   int12_handler |-> int12_handler, int13_handler |-> int13_handler,
   int14_handler |-> int14_handler, int16_handler |-> int16_handler,
   int17_handler |-> int17_handler, int18_handler |-> int18_handler,
   int19_handler |-> int19_handler, int20_handler |-> int20_handler,
   int21_handler |-> int21_handler, int32_handler |-> int32_handler,
   kbd_handler |-> kbd_handler,
   dividebyzero |-> dividebyzero, NMI_handler |-> NMI_handler,
   indexoutofrange |-> indexoutofrange, invalidopcode |-> invalidopcode,
   devicenotavail |-> devicenotavail, doublefault |-> doublefault,
   coprocoverrun |-> coprocoverrun, invalidTSS |-> invalidTSS,
   segnotpresent |-> segnotpresent, stacksegflt |-> stacksegflt,
   gpfault |-> gpfault, pagefault |-> pagefault, fpuerror |-> fpuerror,
   alignmentcheck |-> alignmentcheck, machinecheck |-> machinecheck,
   floatptexc |-> floatptexc, virtexcp |-> virtexcp, ctlprotexc |-> ctlprotexc,
   apictimer |-> apictimer, ps2kbd_handler |-> ps2kbd_handler]

\* The gates loadIDT sets; the non-maskable interrupt gets the user's selector.
LoadedGates ==
  [v \in Vectors |->
     CASE v = 0 -> Gate("int0_handler")   [] v = 2 -> [stub |-> "int2_handler", selector |-> "user"]
       [] v = 3 -> Gate("int3_handler")   [] v = 5 -> Gate("int5_handler")
       [] v = 6 -> Gate("int6_handler")   [] v = 7 -> Gate("int7_handler")
       [] v = 8 -> Gate("int8_handler")   [] v = 9 -> Gate("int9_handler")
       [] v = 10 -> Gate("int10_handler") [] v = 11 -> Gate("int11_handler")
       [] v = 12 -> Gate("int12_handler") [] v = 13 -> Gate("int13_handler")
       [] v = 14 -> Gate("int14_handler") [] v = 16 -> Gate("int16_handler")
       [] v = 17 -> Gate("int17_handler") [] v = 18 -> Gate("int18_handler")
       [] v = 19 -> Gate("int19_handler") [] v = 20 -> Gate("int20_handler")
       [] v = 21 -> Gate("int21_handler") [] OTHER -> NoGate]

Init ==
  /\ at = <<"kernel_main", 1>>
  /\ intr = FALSE /\ shadow = FALSE
  /\ stack = <<>> /\ ledger = <<>>
  /\ gates = [v \in Vectors |-> NoGate]
  /\ \E mask \in {0, 255}, early \in BOOLEAN :
       /\ pics = [c \in Chips |->
            [expects |-> "mask", base |-> 8, mask |-> mask, isr |-> {},
             irr |-> IF early /\ c = 1 THEN {1} ELSE {}]]
       /\ typed = early
  /\ byte = 0 /\ ticks = 0 /\ seen = NoReport

-----------------------------------------------------------------------------
(* The processor.                                                          *)

\* Vectors whose fault comes with an error code.
ErrorVectors == {8, 10, 11, 12, 13, 14, 17, 21}

\* An interrupt line is taken before the next instruction.
IrqWaiting == intr /\ ~shadow /\ Offered(pics[1]) # {}

\* Entering a vector: the frame is pushed and the stub begins.  Without a gate,
\* or through one to code of less privilege, it is a protection fault instead.
Enter(v, back) ==
  LET vector == IF gates[v].selector = "kernel" THEN v ELSE 13
      code   == IF vector \in ErrorVectors THEN << <<"error">> >> ELSE <<>>
  IN /\ stack' = code \o << <<"eip", back>>, <<"cs">>, <<"flags", intr>> >> \o stack
     /\ at' = <<gates[vector].stub, 1>>
     /\ intr' = FALSE /\ shadow' = FALSE
     /\ ledger' = Append(ledger, [vector |-> vector, at |-> back, intr |-> intr])
     /\ UNCHANGED <<gates, byte, seen>>

Loaded == gates[13] # NoGate
Known == at[1] \in DOMAIN Code
Next1 == <<at[1], at[2] + 1>>
Op == Code[at[1]][at[2]]
Runs(op) == Known /\ ~IrqWaiting /\ Op[1] = op

\* hlt goes on behind itself once an interrupt has been served.
Behind == IF Known /\ Op[1] = "hlt" THEN Next1 ELSE at

InterruptBy(l) ==
  /\ IrqWaiting /\ Len(ledger) < MaxFrames
  /\ l = Lowest(Offered(pics[1]))
  /\ Enter(pics[1].base + l, Behind)
  /\ pics' = [pics EXCEPT ![1] = Acknowledge(@, l)]
  /\ UNCHANGED <<ticks, typed>>
Interrupt == \E l \in Lines : InterruptBy(l)

\* A breakpoint is met in the command loop: no code under src/ has one.
Fault(v) ==
  /\ Loaded /\ Known /\ ~IrqWaiting /\ Len(ledger) < MaxFrames
  /\ v = 3 => at = <<"kernel_main", Len(kernel_main)>>
  /\ v # 2 => Op[1] # "hlt"
  /\ Enter(v, IF v = 2 THEN Behind ELSE at)
  /\ UNCHANGED devices

-----------------------------------------------------------------------------
(* Instructions.                                                           *)

\* Those that change the flag, the stack or the place only.
Cli == Runs("cli") /\ intr' = FALSE /\ at' = Next1 /\ shadow' = FALSE
       /\ UNCHANGED <<stack, ledger, gates, byte, seen, devices>>
Sti == Runs("sti") /\ intr' = TRUE /\ at' = Next1 /\ shadow' = ~intr
       /\ UNCHANGED <<stack, ledger, gates, byte, seen, devices>>
Push(op, word) ==
  /\ Runs(op) /\ stack' = <<word>> \o stack
  /\ at' = Next1 /\ shadow' = FALSE
  /\ UNCHANGED <<intr, ledger, gates, byte, seen, devices>>
Pop(op) ==
  /\ Runs(op) /\ stack' = Tail(stack)
  /\ at' = Next1 /\ shadow' = FALSE
  /\ UNCHANGED <<intr, ledger, gates, byte, seen, devices>>
Call ==
  /\ Runs("call")
  /\ \E routine \in Op[2] : at' = <<routine, 1>>
  /\ stack' = << <<"ret", Next1>> >> \o stack /\ shadow' = FALSE
  /\ UNCHANGED <<intr, ledger, gates, byte, seen, devices>>
Ret ==
  /\ Runs("ret") /\ at' = stack[1][2] /\ stack' = Tail(stack) /\ shadow' = FALSE
  /\ UNCHANGED <<intr, ledger, gates, byte, seen, devices>>
Jmp ==
  /\ Runs("jmp") /\ shadow' = FALSE
  /\ at' = IF at[1] = "kernel_main" THEN at ELSE <<at[1], 1>>
  /\ UNCHANGED <<intr, stack, ledger, gates, byte, seen, devices>>
\* iret takes what is on top for an address, code segment and flags.
IRet ==
  /\ Runs("iret")
  /\ at' = IF stack[1][1] = "eip" THEN stack[1][2] ELSE <<"lost", 1>>
  /\ intr' = (stack[3][1] = "flags" /\ stack[3][2])
  /\ stack' = SubSeq(stack, 4, Len(stack)) /\ shadow' = FALSE
  /\ ledger' = Front(ledger)
  /\ UNCHANGED <<gates, byte, seen, devices>>

\* The handler's argument lies under its return address, and points to the word
\* pushed before it; the frame's words follow upwards.
Word(frame, field) ==
  LET k == CHOOSE n \in DOMAIN frame : frame[n] = field IN stack[2 + k]
Report ==
  /\ Runs("report")
  /\ seen' = <<Word(Op[2], "address"), Word(Op[2], "flags")>>
  /\ at' = Next1 /\ shadow' = FALSE
  /\ UNCHANGED <<intr, stack, ledger, gates, byte, devices>>

\* Gates, ports and the devices.
SetGate ==
  /\ Runs("gate") /\ gates' = [gates EXCEPT ![Op[2]] = Gate(Op[3])]
  /\ at' = Next1 /\ shadow' = FALSE
  /\ UNCHANGED <<intr, stack, ledger, byte, seen, devices>>
loadIDT ==
  /\ Runs("loadIDT") /\ gates' = LoadedGates /\ pics' = initAPIC(pics)
  /\ at' = Next1 /\ shadow' = FALSE
  /\ UNCHANGED <<intr, stack, ledger, byte, seen, ticks, typed>>
Out ==
  /\ \/ Runs("command") /\ pics' = Command(pics, 1, Op[2])
     \/ Runs("data") /\ pics' = Data(pics, 1, Op[2])
     \/ Runs("data and") /\ pics' = Data(pics, 1, And(byte, Op[2]))
  /\ at' = Next1 /\ shadow' = FALSE
  /\ UNCHANGED <<intr, stack, ledger, gates, byte, seen, ticks, typed>>
In ==
  /\ Runs("in") /\ byte' = pics[1].mask
  /\ at' = Next1 /\ shadow' = FALSE
  /\ UNCHANGED <<intr, stack, ledger, gates, seen, devices>>
Tick ==
  /\ Runs("tick") /\ ticks' = (ticks + 1) % TickLimit
  /\ at' = Next1 /\ shadow' = FALSE
  /\ UNCHANGED <<intr, stack, ledger, gates, byte, seen, pics, typed>>
Key ==
  /\ Runs("key") /\ typed' = FALSE
  /\ at' = Next1 /\ shadow' = FALSE
  /\ UNCHANGED <<intr, stack, ledger, gates, byte, seen, pics, ticks>>
\* The first instruction after sti, and at some time, perhaps, the last of the set-up.
Setup ==
  /\ Runs("setup") /\ shadow' = FALSE
  /\ at' \in IF shadow THEN {at} ELSE {Next1, <<"abort", 1>>}
  /\ UNCHANGED <<intr, stack, ledger, gates, byte, seen, devices>>

Step ==
  \/ Cli \/ Sti \/ Call \/ Ret \/ Jmp \/ IRet \/ Report
  \/ Push("pusha", <<"regs">>) \/ Push("push esp", <<"ptr">>) \/ Push("pushfl", <<"flags", intr>>)
  \/ Pop("popa") \/ Pop("add 4")
  \/ SetGate \/ loadIDT \/ Out \/ In \/ Tick \/ Key \/ Setup

-----------------------------------------------------------------------------
(* The devices: a line is raised for the timer, whose period is longer     *)
(* than its handler, or for a key that finds the keyboard's buffer empty.  *)

Raise(l) ==
  /\ l \notin pics[1].irr
  /\ l = 0 => \A i \in DOMAIN ledger : ledger[i].vector # 32
  /\ l = 1 => ~typed
  /\ typed' = (typed \/ l = 1)
  /\ pics' = [pics EXCEPT ![1].irr = @ \cup {l}]
  /\ UNCHANGED <<at, intr, shadow, stack, gates, byte, ticks, seen, ledger>>

Next ==
  \/ Step \/ Interrupt
  \/ \E v \in Faults : Fault(v)
  \/ \E l \in Lines : Raise(l)

\* The set-up need not end: loadMultibootInfo does not get past a tag of size 0
\* (multiboot.c:191), nor initPMM past a map whose first region is not available
\* (pmm.c:182).  Interrupts are served meanwhile.
InSetup(place) == place[1] = "kernel_main" /\ kernel_main[place[2]] = <<"setup">>
Endless == InSetup(at) /\ ~shadow

\* The processor goes on running; between two ticks there is time for a key's
\* interrupt and for an instruction of kernel_main.  Devices, faults and the end of
\* the set-up are owed to nobody.
Run == Interrupt \/ (~Endless /\ Step)
KeyTurn == InterruptBy(1)
MainTurn == at[1] = "kernel_main" /\ ~Endless /\ Step
Fairness == WF_ivars(Run) /\ SF_ivars(KeyTurn) /\ SF_ivars(MainTurn)
Spec == Init /\ [][Next]_ivars /\ Fairness

-----------------------------------------------------------------------------
(* Properties.                                                             *)

\* The kernel has stopped for good: kernelabort, or abort from kernel_main.
Stopped ==
  \/ at[1] \in {"kernelabort", "abort"}
  \/ \E i \in DOMAIN ledger : ledger[i].at[1] \in {"kernelabort", "abort"}

\* Interrupt lines do not nest: between a stub's cli and its iret no other line
\* is served, so that apictimer and ps2kbd_handler, which share the controller
\* and the key ring, never run inside each other.  The sti of a stub lets
\* nothing in before its iret.
LinesDoNotNest ==
  Cardinality({i \in DOMAIN ledger : ledger[i].vector >= 32}) <= 1

\* Whenever an interrupt may come, a line that is not masked has its gate: no
\* device reaches an empty descriptor at any point of the start, although initAPIC
\* leaves every line of both controllers unmasked.
LineHandler == <<"int32_handler", "kbd_handler">>
UnmaskedHasGate ==
  intr /\ ~shadow => \A l \in AllLines \ BitsOf(pics[1].mask) :
    l < 2 /\ gates[pics[1].base + l] = Gate(LineHandler[l + 1])

\* A stub that returns, at whatever depth, returns to what was interrupted, with
\* the interrupt flag it had.  It would not for a fault with an error code, whose
\* stub leaves the code on the stack: those never get there.
ReturnsToInterrupted ==
  [][Len(ledger') < Len(ledger) =>
       at' = Last(ledger).at /\ intr' = Last(ledger).intr]_ivars

\* What a fault handler reports is the place and the flags of the fault, for
\* every one but the double fault: its stub's pushfl moves its frame by a word.
Truth == <<<<"eip", Last(ledger).at>>, <<"flags", Last(ledger).intr>>>>
ReportsTheFault ==
  [][seen' # seen => seen' = Truth \/ at[1] = "doublefault"]_ivars

\* kernel_main is in the middle of setting up, whatever runs on top of it.
SettingUp == InSetup(at) \/ \E i \in DOMAIN ledger : InSetup(ledger[i].at)

\* While the kernel runs, a timer interrupt that is raised is counted, also when the
\* set-up never ends; and a key whose interrupt is known is read, however early its
\* line was raised and whatever else interrupts, unless kernel_main sets up for ever,
\* before initKbd opens the line.  A key typed before initAPIC is not read:
\* initialisation forgets its line, and the full buffer raises no other.
TimerCounted ==
  \A t \in 0..(TickLimit - 1) :
    (ticks = t /\ 0 \in pics[1].irr /\ intr) ~> (ticks # t \/ Stopped)
KeyRead == (typed /\ 1 \in pics[1].irr /\ Loaded) ~> (~typed \/ Stopped \/ SettingUp)
LinesServed == TimerCounted /\ KeyRead
=============================================================================
