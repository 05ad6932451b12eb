------------------------------ MODULE KbdInput ------------------------------
(***************************************************************************)
(* Line input, libkbd/source/kbd.c, running on the keyboard driver, in the *)
(* command loop of kernel_main: a busy wait for a key, kbdGetKey, one step *)
(* of editing, until enter, escape or a full buffer ends the call.  What   *)
(* is echoed on the screen is the subject of Console.                      *)
(***************************************************************************)
EXTENDS Ps2Kbd

CONSTANTS
  BuffLen,          \* bufflen (kernel_main passes 256)
  NUL,              \* '\0'
  Exit,             \* the line that ends kernel_main's loop ("exit")
  Residue           \* what kernel_main's uninitialised `command' may hold at first

Chars == BOOLEAN \X Byte \X BOOLEAN

ASSUME KbdInputAssumption ==
  /\ BuffLen \in Nat /\ BuffLen >= 3 /\ NUL \notin Chars
  /\ Exit \in Seq(Chars) /\ Len(Exit) < BuffLen
  /\ Residue \subseteq [0 .. BuffLen - 1 -> Chars \cup {NUL}]

VARIABLES
  buffer,           \* the caller's buffer, [0 .. BuffLen-1 -> Chars or NUL]
  cmdidx,           \* characters in it
  result            \* how the last call ended, and the count it returned

line  == <<buffer, cmdidx, result>>
ivars == <<vars, line>>

Places == 0 .. BuffLen - 1

IInit ==
  /\ InitAt("prompt")
  /\ buffer \in Residue /\ cmdidx = 0
  /\ result = [how |-> "none", count |-> 0]

-----------------------------------------------------------------------------
IsEnter     == key.key[2] = \h1C
IsEsc       == key.key[2] = \h01
IsBackspace == key.key[2] = \h0E

\* "minus 2 because we need space for the null"
HasRoom(n) == n < BuffLen - 2

rest == <<user, wire, driver, kbdTail, taken, key>>

\* strncmp(sizeof(command), command, "exit") == 0
IsExit ==
  /\ \A i \in 1 .. Len(Exit) : buffer[i - 1] = Exit[i]
  /\ buffer[Len(Exit)] = NUL

\* kernel_main calls again after the last line was handled, ...
Call ==
  /\ pc = "prompt" /\ ~IsExit
  /\ pc' = "wait" /\ cmdidx' = 0
  /\ UNCHANGED <<rest, buffer, result>>

\* ... unless it was "exit": then it spins for ever, and nobody reads keys.
Leave ==
  /\ pc = "prompt" /\ IsExit
  /\ pc' = "exited"
  /\ UNCHANGED <<rest, line>>

\* Fault: kbdGetKey is called without waiting for a key.
Wait_Never == pc = "wait" /\ pc' = "get" /\ UNCHANGED <<rest, line>>
\* Fault: the wait looks for a head beyond the tail, not for a different one.
Wait_Beyond ==
  /\ pc = "wait" \/ (pc = "got" /\ key = NoKey)
  /\ kbdHead > kbdTail /\ pc' = "get"
  /\ UNCHANGED <<rest, line>>
\* while (kbdBufferEmpty()); also after a kbdGetKey that found nothing.
Wait ==
  /\ pc = "wait" \/ (pc = "got" /\ key = NoKey)
  /\ ~kbdBufferEmpty /\ pc' = "get"
  /\ UNCHANGED <<rest, line>>

GetKey == kbdGetKey /\ UNCHANGED line

\* Fault: the line is returned without its terminator.
Terminated_NoNul(b, n, how) ==
  /\ buffer' = b /\ cmdidx' = n
  /\ result' = [how |-> how, count |-> n]
  /\ pc' = "prompt"
\* The end of a call that was not escaped: terminate and return the count.
Terminated(b, n, how) ==
  /\ buffer' = [b EXCEPT ![n] = NUL] /\ cmdidx' = n
  /\ result' = [how |-> how, count |-> n]
  /\ pc' = "prompt"

\* Fault: enter is stored like any other character.
EditEnter_Stored ==
  /\ pc = "got" /\ key # NoKey /\ IsEnter
  /\ pc' = "wait" /\ UNCHANGED <<rest, line>>
EditEnter ==
  /\ pc = "got" /\ key # NoKey /\ IsEnter
  /\ Terminated(buffer, cmdidx, "enter")
  /\ UNCHANGED rest

\* Escape empties the buffer and returns the count it had.
EditEsc ==
  /\ pc = "got" /\ key # NoKey /\ IsEsc
  /\ buffer' = [buffer EXCEPT ![0] = NUL]
  /\ result' = [how |-> "esc", count |-> cmdidx]
  /\ pc' = "prompt"
  /\ UNCHANGED <<rest, cmdidx>>

\* Fault: backspace at the start of the line is not ignored.
EditBackspace_Always ==
  /\ pc = "got" /\ key # NoKey /\ IsBackspace
  /\ LET n == IF cmdidx > 0 THEN cmdidx - 1 ELSE BuffLen - 1
     IN  buffer' = [buffer EXCEPT ![n] = NUL] /\ cmdidx' = n
  /\ pc' = "wait"
  /\ UNCHANGED <<rest, result>>
EditBackspace ==
  /\ pc = "got" /\ key # NoKey /\ IsBackspace
  /\ IF cmdidx > 0
     THEN buffer' = [buffer EXCEPT ![cmdidx - 1] = NUL] /\ cmdidx' = cmdidx - 1
     ELSE UNCHANGED <<buffer, cmdidx>>
  /\ pc' = "wait"
  /\ UNCHANGED <<rest, result>>

\* Every other key is stored, printable or not; the flags are dropped.
EditChar ==
  /\ pc = "got" /\ key # NoKey /\ ~IsEnter /\ ~IsEsc /\ ~IsBackspace
  /\ LET stored == [buffer EXCEPT ![cmdidx] = key.key]
     IN  IF HasRoom(cmdidx + 1)
         THEN /\ buffer' = stored /\ cmdidx' = cmdidx + 1
              /\ pc' = "wait" /\ UNCHANGED result
         ELSE Terminated(stored, cmdidx + 1, "full")
  /\ UNCHANGED rest

Edit == EditEnter \/ EditEsc \/ EditBackspace \/ EditChar

Main == Call \/ Leave \/ Wait \/ GetKey \/ Edit

Typing == \E k \in PhysKeys : Press(k) \/ Repeat(k) \/ Release(k)

INext ==
  \/ Typing /\ UNCHANGED line
  \/ Handler /\ UNCHANGED line
  \/ Main

\* An interrupt handler returns: the main thread always gets on.
ISpec == IInit /\ [][INext]_ivars /\ WF_ivars(Main)

-----------------------------------------------------------------------------
(* Properties.                                                             *)

\* Types of the line input's state.
ITypeOK ==
  /\ TypeOK
  /\ buffer \in [Places -> Chars \cup {NUL}] /\ cmdidx \in Places
  /\ pc \in {"prompt", "wait", "get", "read", "roll", "got", "exited"}

\* kbdInput waits for a key and kbdGetKey looks again: nothing takes the key in
\* between, so kbdInput is never told that there is none.
NeverToldEmpty == pc = "got" => key # NoKey

\* While a call runs there is room for the next character and its terminator.
RoomForNext == pc \in {"wait", "get", "read", "roll", "got"} => HasRoom(cmdidx)

\* After a call ended by enter or a full buffer, the buffer holds a C string of
\* exactly the length that was returned.
StringReturned ==
  pc = "prompt" /\ result.how \in {"enter", "full"} =>
    /\ buffer[result.count] = NUL
    /\ \A i \in 0 .. result.count - 1 : buffer[i] # NUL

\* Enter ends the call: an enter that is queued is eventually seen by the caller,
\* unless kernel_main has left its loop (kernel.c:174).
EnterQueued == ~NothingQueued /\ kbdBuffer[Rolled(kbdTail)].key[2] = \h1C
EnterReturns == EnterQueued ~> pc \in {"prompt", "exited"}

\* Every queued key is eventually read, unless kernel_main has left its loop.
KeysAreRead == ~NothingQueued ~> pc \in {"read", "exited"}

\* While a call runs, the line in the buffer is edited at its end and nowhere
\* else, whatever the caller's buffer held before.
LineText ==
  IF pc \in {"prompt", "exited"} THEN <<>> ELSE [i \in 1 .. cmdidx |-> buffer[i - 1]]
Editor == INSTANCE LineEditor WITH Max <- BuffLen - 2, text <- LineText
RefinesEditor == Editor!Spec
=============================================================================
