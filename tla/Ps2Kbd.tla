------------------------------- MODULE Ps2Kbd -------------------------------
(***************************************************************************)
(* The PS/2 keyboard driver, libkbd/source/ps2kbd.c.                       *)
(*                                                                         *)
(* Scan codes travel over a wire; each raises an interrupt whose handler   *)
(* runs to its end with interrupts off, so it is one action, and it may    *)
(* come between any two steps of the main thread.  The main thread reads   *)
(* the ring with kbdGetKey, which stores the advanced tail, reads the      *)
(* entry, and only then rolls the tail over: three steps, because the      *)
(* handler reads the tail too.                                             *)
(*                                                                         *)
(* A key in the ring is <<extended, code, level>>: which key it was and    *)
(* which of its two meanings was chosen; the ASCII table is left out.      *)
(***************************************************************************)
EXTENDS Integers, Sequences

CONSTANTS
  KBD_BUFFER_SIZE,  \* entries of the ring (32)
  KBD_MAX_ERRORS,   \* errors tolerated (10)
  PhysKeys,         \* keys of the keyboard that are pressed
  Make, Break,      \* [PhysKeys -> Seq(Byte)]: what a key sends
  Typematic,        \* [PhysKeys -> Seq(Byte)]: what it sends again and again while held
  Late,             \* may the byte after E0 be late?
  MaxWire,          \* bound on the bytes on the wire
  NoKey             \* 0: a slot never written, and kbdGetKey's empty answer

Byte  == 0 .. 255
Slots == 0 .. KBD_BUFFER_SIZE - 1

\* A key of the ring with the flags it was put with.
Entries == [key : BOOLEAN \X Byte \X BOOLEAN, alt : BOOLEAN, ctrl : BOOLEAN]

ASSUME KbdAssumption ==
  /\ KBD_BUFFER_SIZE \in Nat /\ KBD_BUFFER_SIZE >= 2
  /\ KBD_MAX_ERRORS \in Nat
  /\ Make \in [PhysKeys -> Seq(Byte)]
  /\ Break \in [PhysKeys -> Seq(Byte)]
  /\ Typematic \in [PhysKeys -> Seq(Byte)]
  /\ Late \in BOOLEAN
  /\ NoKey \notin Entries

VARIABLES
  down,             \* keys held by the user
  capsOn,           \* whether caps lock's code was sent an odd number of times
  wire,             \* bytes sent by the keyboard and not yet read
  kbdBuffer, kbdHead, kbdTail,
  mods,             \* ctrlLeft, ctrlRight, ctrl, altLeft, ..., numLock
  errorCount, keyboardDisabled,
  pc,               \* main thread: where it is in kbdGetKey
  taken,            \* main thread: the slot kbdGetKey reads
  key               \* main thread: what kbdGetKey returned

user   == <<down, capsOn>>
ring   == <<kbdBuffer, kbdHead>>
driver == <<kbdBuffer, kbdHead, mods, errorCount, keyboardDisabled>>
reader == <<kbdTail, pc, taken, key>>
vars   == <<user, wire, driver, reader>>

Modifiers ==
  [ctrlLeft : BOOLEAN, ctrlRight : BOOLEAN, ctrl : BOOLEAN,
   altLeft : BOOLEAN, altRight : BOOLEAN, alt : BOOLEAN,
   shiftLeft : BOOLEAN, shiftRight : BOOLEAN, shift : BOOLEAN,
   capsLock : BOOLEAN, numLock : BOOLEAN]

\* The driver's static data, and a main thread that is at p.
InitAt(p) ==
  /\ down = {} /\ capsOn = FALSE /\ wire = <<>>
  /\ kbdBuffer = [i \in Slots |-> NoKey]
  /\ kbdHead = 0 /\ kbdTail = 0
  /\ mods = [ctrlLeft |-> FALSE, ctrlRight |-> FALSE, ctrl |-> FALSE,
             altLeft |-> FALSE, altRight |-> FALSE, alt |-> FALSE,
             shiftLeft |-> FALSE, shiftRight |-> FALSE, shift |-> FALSE,
             capsLock |-> FALSE, numLock |-> FALSE]
  /\ errorCount = 0 /\ keyboardDisabled = FALSE
  /\ pc = p /\ taken = 0 /\ key = NoKey

Init == InitAt("get")

-----------------------------------------------------------------------------
(* The user and the keyboard, external.                                    *)

Press(k) ==
  /\ k \notin down /\ Len(wire) + Len(Make[k]) <= MaxWire
  /\ down' = down \cup {k}
  /\ capsOn' = IF k = "caps" THEN ~capsOn ELSE capsOn
  /\ wire' = wire \o Make[k]
  /\ UNCHANGED <<driver, reader>>

\* A held key repeats, caps lock too.  Of the keys that are held a keyboard repeats
\* the one pressed last; here it may be any of them.
Repeat(k) ==
  /\ k \in down /\ Typematic[k] # <<>> /\ Len(wire) + Len(Typematic[k]) <= MaxWire
  /\ capsOn' = IF k = "caps" THEN ~capsOn ELSE capsOn
  /\ wire' = wire \o Typematic[k]
  /\ UNCHANGED <<down, driver, reader>>

Release(k) ==
  /\ k \in down /\ Len(wire) + Len(Break[k]) <= MaxWire
  /\ down' = down \ {k}
  /\ wire' = wire \o Break[k]
  /\ UNCHANGED <<capsOn, driver, reader>>

-----------------------------------------------------------------------------
(* The ring.                                                               *)

kbdBufferEmpty == kbdHead = kbdTail

\* The test asks whether the head is one past the tail, which is so as soon
\* as one key is queued.
IsFull(head) ==
  IF head > kbdTail THEN head - 1 = kbdTail
                    ELSE head + KBD_BUFFER_SIZE - 1 = kbdTail

Rolled(i) == IF i >= KBD_BUFFER_SIZE THEN 0 ELSE i

Entry(ext, c, level) ==
  [key |-> <<ext, c, level>>, alt |-> mods.alt, ctrl |-> mods.ctrl]

\* putKeypressInBuffer on a ring r: nothing is stored when it is full.
Stored(r, e) ==
  IF IsFull(r.head) THEN r
  ELSE [buffer |-> [r.buffer EXCEPT ![r.head] = e], head |-> Rolled(r.head + 1)]

\* The entries es (one or two) are put one after the other.
Put(es) ==
  LET before == [buffer |-> kbdBuffer, head |-> kbdHead]
      once   == Stored(before, es[1])
      after  == IF Len(es) = 1 THEN once ELSE Stored(once, es[2])
  IN  kbdBuffer' = after.buffer /\ kbdHead' = after.head

-----------------------------------------------------------------------------
(* Scan codes of processKeypress and processExtendedKeypress.              *)

\* Codes that put one key, whatever the modifiers.
PlainKeys  == {\h01, \h0E, \h1C, \h37, \h39, \h4A, \h4E}
\* F3 and F5: when shifted they put both their keys.
DoubleKeys == {\h3D, \h3F}
\* Codes that put one of two keys, by shift.
ShiftKeys  == (\h02 .. \h0D) \cup (\h0F .. \h1B) \cup (\h1E .. \h29)
              \cup (\h2B .. \h35) \cup (\h3B .. \h44) \cup {\h57, \h58}
\* Keypad codes that put one of two keys, by num lock.
NumKeys    == (\h47 .. \h49) \cup {\h4B, \h4D} \cup (\h4F .. \h53)
KeyCodes   == PlainKeys \cup ShiftKeys \cup NumKeys \cup {\h4C}
\* Codes that put a key when they follow E0.
ExtKeys    == {\h1C, \h2A, \h35} \cup (\h47 .. \h49) \cup {\h4B, \h4D} \cup (\h4F .. \h53)

ModCodes == {\h1D, \h9D, \h2A, \hAA, \h36, \hB6, \h38, \hB8, \h3A, \h45}
ExtMods  == {\h38, \h9D, \h8B}
E0       == \hE0

\* Codes that decrementErrorCount counts as a good key: all but the error, the
\* E0 prefix, the release of shift and alt, and the unknown ones.
GoodCodes == KeyCodes \cup {\h1D, \h2A, \h36, \h38, \h3A, \h45, \h46, \h9D}

setShift(m) == [m EXCEPT !.shift = (m.shiftLeft \/ m.shiftRight) # m.capsLock]
setCtrl(m)  == [m EXCEPT !.ctrl = m.ctrlLeft \/ m.ctrlRight]
setAlt(m)   == [m EXCEPT !.alt = m.altLeft \/ m.altRight]

\* Fault: the release of right shift is not told from that of left shift.
Modified_OneShift(m, c) ==
  CASE c \in {\h2A, \h36} -> setShift([m EXCEPT !.shiftLeft = TRUE])
    [] c \in {\hAA, \hB6} -> setShift([m EXCEPT !.shiftLeft = FALSE])
    [] c = \h3A           -> setShift([m EXCEPT !.capsLock = ~@])
    [] OTHER              -> m
\* Releasing left control recomputes alt, not ctrl.
Modified(m, c) ==
  CASE c = \h1D -> setCtrl([m EXCEPT !.ctrlLeft = TRUE])
    [] c = \h9D -> setAlt([m EXCEPT !.ctrlLeft = FALSE])
    [] c = \h2A -> setShift([m EXCEPT !.shiftLeft = TRUE])
    [] c = \hAA -> setShift([m EXCEPT !.shiftLeft = FALSE])
    [] c = \h36 -> setShift([m EXCEPT !.shiftRight = TRUE])
    [] c = \hB6 -> setShift([m EXCEPT !.shiftRight = FALSE])
    [] c = \h38 -> setAlt([m EXCEPT !.altLeft = TRUE])
    [] c = \hB8 -> setAlt([m EXCEPT !.altLeft = FALSE])
    [] c = \h3A -> setShift([m EXCEPT !.capsLock = ~@])
    [] c = \h45 -> [m EXCEPT !.numLock = ~@]

\* The release of right alt is looked for at 8B.
ExtModified(m, c) ==
  CASE c = \h38 -> setAlt([m EXCEPT !.altRight = TRUE])
    [] c = \h8B -> setAlt([m EXCEPT !.altRight = FALSE])
    [] c = \h9D -> setCtrl([m EXCEPT !.ctrlRight = FALSE])

\* What code c puts in the ring: nothing for keypad 5 without num lock.
KeysOf(c) ==
  IF c \in DoubleKeys /\ mods.shift
  THEN <<Entry(FALSE, c, TRUE), Entry(FALSE, c, FALSE)>>
  ELSE IF c = \h4C /\ ~mods.numLock THEN <<>>
  ELSE <<Entry(FALSE, c, \/ c \in ShiftKeys /\ mods.shift
                         \/ c \in NumKeys \cup {\h4C} /\ mods.numLock)>>

-----------------------------------------------------------------------------
(* The interrupt handler.                                                  *)

Reads(n) == wire' = SubSeq(wire, n + 1, Len(wire))

\* The interrupt for a byte of S; `code' is that byte.
code == Head(wire)
Interrupt(S) == wire # <<>> /\ ~keyboardDisabled /\ code \in S

\* decrementErrorCount
Forgiven ==
  IF code \in GoodCodes /\ errorCount > 0 THEN errorCount - 1 ELSE errorCount

\* A disabled keyboard: the byte is read and dropped.
HandleDisabled ==
  /\ wire # <<>> /\ keyboardDisabled
  /\ Reads(1) /\ UNCHANGED <<user, driver, reader>>

\* Fault: the keyboard is disabled one error early.
HandleError_Early ==
  /\ Interrupt({0}) /\ Reads(1)
  /\ errorCount' = errorCount + 1
  /\ keyboardDisabled' = (errorCount' >= KBD_MAX_ERRORS)
  /\ UNCHANGED <<user, ring, mods, reader>>
\* handleKbdError
HandleError ==
  /\ Interrupt({0}) /\ Reads(1)
  /\ errorCount' = errorCount + 1
  /\ keyboardDisabled' = (errorCount' > KBD_MAX_ERRORS)
  /\ UNCHANGED <<user, ring, mods, reader>>

HandleKey ==
  /\ Interrupt(KeyCodes) /\ Reads(1)
  /\ errorCount' = Forgiven
  /\ IF KeysOf(code) = <<>> THEN UNCHANGED ring ELSE Put(KeysOf(code))
  /\ UNCHANGED <<user, mods, keyboardDisabled, reader>>

HandleModifier ==
  /\ Interrupt(ModCodes) /\ Reads(1)
  /\ errorCount' = Forgiven
  /\ mods' = Modified(mods, code)
  /\ UNCHANGED <<user, ring, keyboardDisabled, reader>>

\* Scroll lock (46) and the codes with no case.
HandleIgnored ==
  /\ Interrupt(Byte \ (KeyCodes \cup ModCodes \cup {0, E0})) /\ Reads(1)
  /\ errorCount' = Forgiven
  /\ UNCHANGED <<user, ring, mods, keyboardDisabled, reader>>

(* E0: the handler polls for the second byte and, if it is there, reads it *)
(* in the same interrupt.                                                  *)
extcode == wire[2]
Extended(S) == Interrupt({E0}) /\ Len(wire) >= 2 /\ extcode \in S

HandleExtKey ==
  /\ Extended(ExtKeys) /\ Reads(2)
  /\ Put(<<Entry(TRUE, extcode, FALSE)>>)
  /\ UNCHANGED <<user, mods, errorCount, keyboardDisabled, reader>>

HandleExtModifier ==
  /\ Extended(ExtMods) /\ Reads(2)
  /\ mods' = ExtModified(mods, extcode)
  /\ UNCHANGED <<user, ring, errorCount, keyboardDisabled, reader>>

\* 1D after E0 is right control, unless a third byte is there already: then it
\* is taken for the pause key.
HandleRightCtrl ==
  /\ Extended({\h1D}) /\ Reads(2) /\ (Len(wire) = 2 \/ Late)
  /\ mods' = setCtrl([mods EXCEPT !.ctrlRight = TRUE])
  /\ UNCHANGED <<user, ring, errorCount, keyboardDisabled, reader>>
HandlePause ==
  /\ Extended({\h1D}) /\ Reads(2) /\ Len(wire) >= 3
  /\ Put(<<Entry(TRUE, \h1D, mods.shift)>>)
  /\ UNCHANGED <<user, mods, errorCount, keyboardDisabled, reader>>

HandleExtIgnored ==
  /\ Extended(Byte \ (ExtKeys \cup ExtMods \cup {\h1D}))
  /\ Reads(2) /\ UNCHANGED <<user, driver, reader>>

\* The second byte is not there yet: the prefix is dropped, and the next
\* interrupt reads the second byte as an ordinary code.
HandleSplit ==
  /\ Interrupt({E0}) /\ Reads(1) /\ (Len(wire) = 1 \/ Late)
  /\ UNCHANGED <<user, driver, reader>>

Handler ==
  \/ HandleDisabled \/ HandleError \/ HandleKey \/ HandleModifier \/ HandleIgnored
  \/ HandleExtKey \/ HandleExtModifier \/ HandleRightCtrl \/ HandlePause
  \/ HandleExtIgnored \/ HandleSplit

-----------------------------------------------------------------------------
(* kbdGetKey, in the main thread.                                          *)

GetKeyCheck ==
  /\ pc = "get"
  /\ IF kbdBufferEmpty
     THEN /\ key' = NoKey /\ pc' = "got"
          /\ UNCHANGED <<kbdTail, taken>>
     ELSE /\ taken' = kbdTail /\ kbdTail' = kbdTail + 1 /\ pc' = "read"
          /\ UNCHANGED key
  /\ UNCHANGED <<user, wire, driver>>

\* Fault: the entry is read where the tail points now.
GetKeyRead_AtTail ==
  /\ pc = "read"
  /\ key' = kbdBuffer[Rolled(kbdTail)] /\ pc' = "roll"
  /\ UNCHANGED <<user, wire, driver, kbdTail, taken>>
GetKeyRead ==
  /\ pc = "read"
  /\ key' = kbdBuffer[taken] /\ pc' = "roll"
  /\ UNCHANGED <<user, wire, driver, kbdTail, taken>>

GetKeyRoll ==
  /\ pc = "roll"
  /\ kbdTail' = Rolled(kbdTail) /\ pc' = "got"
  /\ UNCHANGED <<user, wire, driver, taken, key>>

kbdGetKey == GetKeyCheck \/ GetKeyRead \/ GetKeyRoll

\* A main thread that does nothing but read keys.
Again == pc = "got" /\ pc' = "get" /\ UNCHANGED <<user, wire, driver, kbdTail, taken, key>>

Next ==
  \/ \E k \in PhysKeys : Press(k) \/ Repeat(k) \/ Release(k)
  \/ Handler
  \/ kbdGetKey
  \/ Again

Spec == Init /\ [][Next]_vars

-----------------------------------------------------------------------------
(* Properties.                                                             *)

\* Types of the driver's state.
TypeOK ==
  /\ down \in SUBSET PhysKeys /\ capsOn \in BOOLEAN /\ wire \in Seq(Byte)
  /\ kbdBuffer \in [Slots -> Entries \cup {NoKey}]
  /\ kbdHead \in Slots /\ kbdTail \in 0 .. KBD_BUFFER_SIZE
  /\ mods \in Modifiers
  /\ errorCount \in 0 .. KBD_MAX_ERRORS + 1 /\ keyboardDisabled \in BOOLEAN
  /\ taken \in Slots /\ key \in Entries \cup {NoKey}

\* The ring as it will be once the tail has rolled over.
NothingQueued == kbdHead = Rolled(kbdTail)

\* The driver is a box for one key, whatever the handler interrupts and
\* wherever the tail is in its roll-over.
Mailbox == INSTANCE KeyMailbox WITH
  Keys <- Entries,
  box  <- IF NothingQueued THEN NoKey ELSE kbdBuffer[Rolled(kbdTail)],
  got  <- IF pc = "read" THEN kbdBuffer[taken] ELSE key
RefinesMailbox == Mailbox!Spec

\* The codes that shift and caps lock go by; after E0 they are other keys'.
ShiftCodes == {\h2A, \hAA, \h36, \hB6, \h3A}

\* Whether the byte i of the codes s is the second of an extended one.
Prefixed(s, i) == i > 1 /\ s[i - 1] = E0

\* Every prefix is followed by its second byte, and by none of the codes of a shift
\* key where that byte may be late.
WholeCodes(s, late) ==
  \A i \in 1 .. Len(s) :
    /\ s[i] = E0 => i < Len(s) /\ s[i + 1] # E0
    /\ late /\ Prefixed(s, i) => s[i] \notin ShiftCodes

\* Codes that change no shift key and no caps lock.
Silent(s) == \A i \in 1 .. Len(s) : s[i] \in ShiftCodes => Prefixed(s, i)

\* A keyboard whose shift keys and caps lock, and no other key, send their codes.
Layout(keys, late) ==
  /\ \A k \in keys : /\ WholeCodes(Make[k], late) /\ WholeCodes(Break[k], late)
                     /\ WholeCodes(Typematic[k], late)
  /\ "lshift" \in keys => Make["lshift"] = <<\h2A>> /\ Break["lshift"] = <<\hAA>>
  /\ "rshift" \in keys => Make["rshift"] = <<\h36>> /\ Break["rshift"] = <<\hB6>>
  /\ "caps" \in keys => Make["caps"] = <<\h3A>> /\ Silent(Break["caps"])
  /\ \A k \in keys \cap {"lshift", "rshift", "caps"} : Typematic[k] = Make[k]
  /\ \A k \in keys \ {"lshift", "rshift", "caps"} :
       Silent(Make[k]) /\ Silent(Break[k]) /\ Silent(Typematic[k])

\* With nothing left on the wire, shift agrees with the shift keys the user
\* holds and with the times caps lock was sent, in whatever order they were pressed,
\* repeated and released, and although print screen sends the codes of left shift
\* after E0.  Each repeat of a held caps lock toggles it (ps2kbd.c:651), as each
\* press does: whether it ends up on is up to how long the user holds it.
ShiftFollowsKeys ==
  wire = <<>> /\ ~keyboardDisabled =>
    mods.shift = (({"lshift", "rshift"} \cap down # {}) # capsOn)

\* The keyboard is off exactly when more errors are outstanding than tolerated.
DisabledByErrors == keyboardDisabled <=> errorCount > KBD_MAX_ERRORS
=============================================================================
