-------------------------- MODULE KbdInput_proofs --------------------------
(***************************************************************************)
(* Proofs about the keyboard driver and the line input on top of it.  The  *)
(* driver, for a ring of any size and for every keyboard: its types, when  *)
(* it disables itself, that the ring is a box for one key, and that shift  *)
(* follows the user.  Line input, for buffers of any size: kbdInput never  *)
(* finds the ring empty after its wait, never runs out of room, and returns*)
(* a C string of the length it says.                                       *)
(***************************************************************************)
EXTENDS KbdInput, SequenceTheorems, TLAPS

-----------------------------------------------------------------------------
(* The keyboard driver.                                                    *)

(* What the ring holds is at most one key, which the tail points at once   *)
(* it has rolled over; the tail is out of range only between the two       *)
(* stores of kbdGetKey.                                                    *)
RingOK ==
  /\ kbdHead \in {Rolled(kbdTail), Rolled(Rolled(kbdTail) + 1)}
  /\ kbdTail = KBD_BUFFER_SIZE => pc \in {"read", "roll"}
  /\ pc = "read" => kbdTail = taken + 1 /\ kbdBuffer[taken] \in Entries
  /\ ~NothingQueued => kbdBuffer[Rolled(kbdTail)] \in Entries

IInv == TypeOK /\ RingOK /\ DisabledByErrors

-----------------------------------------------------------------------------
(* Modifier flags and entries keep their types.                            *)

\* Each modifier flag is a Boolean.
LEMMA FieldTypes ==
  ASSUME NEW m \in Modifiers, NEW b \in BOOLEAN
  PROVE  /\ [m EXCEPT !.ctrlLeft = b] \in Modifiers
         /\ [m EXCEPT !.ctrlRight = b] \in Modifiers
         /\ [m EXCEPT !.ctrl = b] \in Modifiers
         /\ [m EXCEPT !.altLeft = b] \in Modifiers
         /\ [m EXCEPT !.altRight = b] \in Modifiers
         /\ [m EXCEPT !.alt = b] \in Modifiers
         /\ [m EXCEPT !.shiftLeft = b] \in Modifiers
         /\ [m EXCEPT !.shiftRight = b] \in Modifiers
         /\ [m EXCEPT !.shift = b] \in Modifiers
         /\ [m EXCEPT !.capsLock = b] \in Modifiers
         /\ [m EXCEPT !.numLock = b] \in Modifiers
BY DEF Modifiers

\* A Boolean is TRUE or FALSE.
LEMMA BooleanValues ==
  ASSUME NEW P, NEW Q
  PROVE  (P \/ Q) \in BOOLEAN /\ (P # Q) \in BOOLEAN /\ (~P) \in BOOLEAN
OBVIOUS

\* setShift, setCtrl and setAlt return modifiers.
LEMMA SetterTypes ==
  ASSUME NEW m \in Modifiers
  PROVE  setShift(m) \in Modifiers /\ setCtrl(m) \in Modifiers /\ setAlt(m) \in Modifiers
<1>1. setShift(m) \in Modifiers
  BY FieldTypes, BooleanValues DEF setShift
<1>2. setCtrl(m) \in Modifiers
  BY FieldTypes, BooleanValues DEF setCtrl
<1>3. setAlt(m) \in Modifiers
  BY FieldTypes, BooleanValues DEF setAlt
<1>4. QED  BY <1>1, <1>2, <1>3

\* Every modifier code of processKeypress leaves modifiers of the right type.
LEMMA ModifiedType ==
  ASSUME NEW m \in Modifiers, NEW c \in ModCodes
  PROVE  Modified(m, c) \in Modifiers
<1>1. [m EXCEPT !.capsLock = ~@] \in Modifiers
  BY FieldTypes, BooleanValues
<1>2. [m EXCEPT !.numLock = ~@] \in Modifiers
  BY FieldTypes, BooleanValues
<1>3. setShift([m EXCEPT !.capsLock = ~@]) \in Modifiers
  BY <1>1, SetterTypes
<1>4. \A b \in BOOLEAN : /\ setCtrl([m EXCEPT !.ctrlLeft = b]) \in Modifiers
                         /\ setAlt([m EXCEPT !.ctrlLeft = b]) \in Modifiers
                         /\ setShift([m EXCEPT !.shiftLeft = b]) \in Modifiers
                         /\ setShift([m EXCEPT !.shiftRight = b]) \in Modifiers
                         /\ setAlt([m EXCEPT !.altLeft = b]) \in Modifiers
  BY FieldTypes, SetterTypes
<1>5. QED
  <2>1. CASE c = \h45  BY <2>1, <1>2 DEF Modified
  <2>2. CASE c = \h3A  BY <2>2, <1>3 DEF Modified
  <2>3. CASE c = \h1D
    <3>1. Modified(m, c) = setCtrl([m EXCEPT !.ctrlLeft = TRUE])  BY <2>3 DEF Modified
    <3>2. QED  BY <3>1, <1>4
  <2>4. CASE c = \h9D
    <3>1. Modified(m, c) = setAlt([m EXCEPT !.ctrlLeft = FALSE])  BY <2>4 DEF Modified
    <3>2. QED  BY <3>1, <1>4
  <2>5. CASE c = \h2A
    <3>1. Modified(m, c) = setShift([m EXCEPT !.shiftLeft = TRUE])  BY <2>5 DEF Modified
    <3>2. QED  BY <3>1, <1>4
  <2>6. CASE c = \hAA
    <3>1. Modified(m, c) = setShift([m EXCEPT !.shiftLeft = FALSE])  BY <2>6 DEF Modified
    <3>2. QED  BY <3>1, <1>4
  <2>7. CASE c = \h36
    <3>1. Modified(m, c) = setShift([m EXCEPT !.shiftRight = TRUE])  BY <2>7 DEF Modified
    <3>2. QED  BY <3>1, <1>4
  <2>8. CASE c = \hB6
    <3>1. Modified(m, c) = setShift([m EXCEPT !.shiftRight = FALSE])  BY <2>8 DEF Modified
    <3>2. QED  BY <3>1, <1>4
  <2>9. CASE c = \h38
    <3>1. Modified(m, c) = setAlt([m EXCEPT !.altLeft = TRUE])  BY <2>9 DEF Modified
    <3>2. QED  BY <3>1, <1>4
  <2>10. CASE c = \hB8
    <3>1. Modified(m, c) = setAlt([m EXCEPT !.altLeft = FALSE])  BY <2>10 DEF Modified
    <3>2. QED  BY <3>1, <1>4
  <2>11. QED  BY <2>1, <2>2, <2>3, <2>4, <2>5, <2>6, <2>7, <2>8, <2>9, <2>10 DEF ModCodes

\* So does every modifier code that follows E0.
LEMMA ExtModifiedType ==
  ASSUME NEW m \in Modifiers, NEW c \in ExtMods
  PROVE  ExtModified(m, c) \in Modifiers
<1>1. \A b \in BOOLEAN : /\ setAlt([m EXCEPT !.altRight = b]) \in Modifiers
                         /\ setCtrl([m EXCEPT !.ctrlRight = b]) \in Modifiers
  BY FieldTypes, SetterTypes
<1>2. QED  BY <1>1 DEF ExtModified, ExtMods

\* A key put with the current flags is an entry of the ring.
LEMMA EntryType ==
  ASSUME mods \in Modifiers, NEW ext \in BOOLEAN, NEW c \in Byte, NEW level \in BOOLEAN
  PROVE  Entry(ext, c, level) \in Entries
BY DEF Entry, Entries, Modifiers

\* The elements of sequences of length one and two.
LEMMA ShortSequences ==
  ASSUME NEW S, NEW a \in S, NEW b \in S
  PROVE  /\ Len(<<a>>) \in 1 .. 2 /\ \A i \in 1 .. Len(<<a>>) : <<a>>[i] \in S
         /\ Len(<<a, b>>) \in 1 .. 2 /\ \A i \in 1 .. Len(<<a, b>>) : <<a, b>>[i] \in S
OBVIOUS

\* A code puts no key, one, or two.
LEMMA KeysOfType ==
  ASSUME mods \in Modifiers, NEW c \in KeyCodes
  PROVE  /\ KeysOf(c) # <<>> => Len(KeysOf(c)) \in 1 .. 2
         /\ \A i \in 1 .. Len(KeysOf(c)) : KeysOf(c)[i] \in Entries
<1> DEFINE level == (c \in ShiftKeys /\ mods.shift) \/ (c \in NumKeys \cup {\h4C} /\ mods.numLock)
<1>1. c \in Byte
  BY DEF KeyCodes, PlainKeys, ShiftKeys, NumKeys, Byte
<1>2. level \in BOOLEAN
  BY BooleanValues
<1>3. /\ Entry(FALSE, c, level) \in Entries
      /\ Entry(FALSE, c, TRUE) \in Entries /\ Entry(FALSE, c, FALSE) \in Entries
  BY <1>1, <1>2, EntryType
<1>4. QED
  <2>1. CASE c \in DoubleKeys /\ mods.shift
    <3>1. KeysOf(c) = <<Entry(FALSE, c, TRUE), Entry(FALSE, c, FALSE)>>
      BY <2>1 DEF KeysOf
    <3>2. QED  BY <3>1, <1>3, ShortSequences
  <2>2. CASE ~(c \in DoubleKeys /\ mods.shift) /\ c = \h4C /\ ~mods.numLock
    <3>1. KeysOf(c) = <<>>
      BY <2>2 DEF KeysOf
    <3>2. QED  BY <3>1
  <2>3. CASE ~(c \in DoubleKeys /\ mods.shift) /\ ~(c = \h4C /\ ~mods.numLock)
    <3>1. KeysOf(c) = <<Entry(FALSE, c, level)>>
      BY <2>3 DEF KeysOf
    <3>2. PICK e \in Entries : KeysOf(c) = <<e>>
      BY <3>1, <1>3
    <3>3. QED  BY <3>2, ShortSequences
  <2>4. QED  BY <2>1, <2>2, <2>3

-----------------------------------------------------------------------------
(* The ring.                                                               *)

\* What any interrupt does to the ring: nothing, or one key into an empty ring.
RingStep ==
  \/ UNCHANGED ring
  \/ /\ NothingQueued
     /\ \E e \in Entries : kbdBuffer' = [kbdBuffer EXCEPT ![kbdHead] = e]
     /\ kbdHead' = Rolled(kbdHead + 1)

\* The handler's test for a full ring finds it full with one key in it, also
\* while the tail is about to roll over.
LEMMA FullIsOneKey ==
  ASSUME TypeOK, RingOK
  PROVE  /\ IsFull(kbdHead) <=> ~NothingQueued
         /\ NothingQueued => IsFull(Rolled(kbdHead + 1))
<1>1. /\ kbdHead \in 0 .. KBD_BUFFER_SIZE - 1 /\ kbdTail \in 0 .. KBD_BUFFER_SIZE
      /\ KBD_BUFFER_SIZE \in Nat /\ KBD_BUFFER_SIZE >= 2
  BY KbdAssumption DEF TypeOK, Slots
<1>2. CASE kbdTail = KBD_BUFFER_SIZE
  BY <1>1, <1>2 DEF RingOK, IsFull, Rolled, NothingQueued
<1>3. CASE kbdTail = KBD_BUFFER_SIZE - 1
  BY <1>1, <1>3 DEF RingOK, IsFull, Rolled, NothingQueued
<1>4. CASE kbdTail < KBD_BUFFER_SIZE - 1
  BY <1>1, <1>4 DEF RingOK, IsFull, Rolled, NothingQueued
<1>5. QED  BY <1>1, <1>2, <1>3, <1>4

\* Putting one or two keys stores at most one, and only in an empty ring.
LEMMA PutEffect ==
  ASSUME TypeOK, RingOK, NEW es, Len(es) \in 1 .. 2,
         \A i \in 1 .. Len(es) : es[i] \in Entries, Put(es)
  PROVE  RingStep
<1> DEFINE before == [buffer |-> kbdBuffer, head |-> kbdHead]
           once   == Stored(before, es[1])
           after  == IF Len(es) = 1 THEN once ELSE Stored(once, es[2])
<1>1. kbdBuffer' = after.buffer /\ kbdHead' = after.head
  BY DEF Put
<1>2. es[1] \in Entries
  OBVIOUS
<1>3. CASE NothingQueued
  <2>1. once = [buffer |-> [kbdBuffer EXCEPT ![kbdHead] = es[1]],
                head   |-> Rolled(kbdHead + 1)]
    BY <1>3, FullIsOneKey DEF Stored
  <2>2. Stored(once, es[2]) = once
    BY <1>3, <2>1, FullIsOneKey DEF Stored
  <2>3. after = once
    BY <2>2
  <2>4. QED  BY <1>1, <1>2, <1>3, <2>1, <2>3 DEF RingStep
<1>4. CASE ~NothingQueued
  <2>1. once = before
    BY <1>4, FullIsOneKey DEF Stored
  <2>2. Stored(before, es[2]) = before
    BY <1>4, FullIsOneKey DEF Stored
  <2>3. after = before
    BY <2>1, <2>2
  <2>4. QED  BY <1>1, <2>3 DEF RingStep, ring
<1>5. QED  BY <1>3, <1>4

\* Storing a key in an empty ring keeps at most one key queued.
LEMMA RingStepPreserves ==
  ASSUME TypeOK, RingOK, RingStep, UNCHANGED reader
  PROVE  /\ RingOK'
         /\ kbdBuffer' \in [Slots -> Entries \cup {NoKey}] /\ kbdHead' \in Slots
         /\ [Mailbox!Next]_(Mailbox!mvars)
<1>1. /\ kbdHead \in 0 .. KBD_BUFFER_SIZE - 1 /\ kbdTail \in 0 .. KBD_BUFFER_SIZE
      /\ KBD_BUFFER_SIZE \in Nat /\ KBD_BUFFER_SIZE >= 2
      /\ kbdBuffer \in [Slots -> Entries \cup {NoKey}]
      /\ taken \in 0 .. KBD_BUFFER_SIZE - 1
  BY KbdAssumption DEF TypeOK, Slots
<1>2. CASE UNCHANGED ring
  BY <1>1, <1>2 DEF ring, reader, RingOK, NothingQueued, Rolled, Slots,
                    Mailbox!Next, Mailbox!mvars
<1>3. CASE /\ NothingQueued
           /\ \E e \in Entries : kbdBuffer' = [kbdBuffer EXCEPT ![kbdHead] = e]
           /\ kbdHead' = Rolled(kbdHead + 1)
  <2>1. PICK e \in Entries : kbdBuffer' = [kbdBuffer EXCEPT ![kbdHead] = e]
    BY <1>3
  <2>2. /\ kbdHead = Rolled(kbdTail) /\ kbdHead' = Rolled(Rolled(kbdTail) + 1)
        /\ kbdTail' = kbdTail /\ pc' = pc /\ taken' = taken /\ key' = key
    BY <1>3 DEF NothingQueued, reader
  <2>3. kbdBuffer' \in [Slots -> Entries \cup {NoKey}] /\ kbdHead' \in Slots
    BY <1>1, <1>3, <2>1 DEF Slots, Rolled
  <2>4. kbdBuffer'[Rolled(kbdTail)] = e
    BY <1>1, <2>1, <2>2 DEF Slots
  <2>5. kbdHead' # Rolled(kbdTail)
    BY <1>1, <2>2 DEF Rolled
  <2>6. pc = "read" => kbdBuffer'[taken] = kbdBuffer[taken]
    BY <1>1, <2>1, <2>2 DEF RingOK, Rolled, Slots
  <2>7. RingOK'
    BY <2>2, <2>4, <2>6 DEF RingOK, Rolled, NothingQueued
  <2>8. Mailbox!Put
    BY <1>3, <2>2, <2>4, <2>5, <2>6 DEF Mailbox!Put, NothingQueued, Rolled
  <2>9. QED  BY <2>3, <2>7, <2>8 DEF Mailbox!Next
<1>4. QED  BY <1>2, <1>3 DEF RingStep

-----------------------------------------------------------------------------
(* The interrupt handler.                                                  *)

\* Reading bytes off the wire leaves a sequence of bytes.
LEMMA ReadsType ==
  ASSUME wire \in Seq(Byte), NEW n \in Nat, Reads(n)
  PROVE  wire' \in Seq(Byte)
BY SubSeqProperties, ElementOfSeq DEF Reads

\* decrementErrorCount never takes the count below zero.
LEMMA ForgivenType ==
  ASSUME errorCount \in 0 .. KBD_MAX_ERRORS + 1
  PROVE  Forgiven \in 0 .. KBD_MAX_ERRORS + 1 /\ Forgiven <= errorCount
BY KbdAssumption DEF Forgiven

\* What an interrupt does to the state the reader depends on.
LEMMA HandlerEffect ==
  ASSUME IInv, Handler
  PROVE  /\ UNCHANGED <<user, reader>>
         /\ RingStep
         /\ wire' \in Seq(Byte) /\ mods' \in Modifiers
         /\ errorCount' \in 0 .. KBD_MAX_ERRORS + 1 /\ keyboardDisabled' \in BOOLEAN
         /\ DisabledByErrors'
<1> USE DEF IInv
<1>1. /\ wire \in Seq(Byte) /\ mods \in Modifiers
      /\ errorCount \in 0 .. KBD_MAX_ERRORS + 1 /\ keyboardDisabled \in BOOLEAN
      /\ KBD_MAX_ERRORS \in Nat /\ TypeOK /\ RingOK /\ DisabledByErrors
  BY KbdAssumption DEF TypeOK
<1>2. CASE HandleDisabled
  BY <1>1, <1>2, ReadsType DEF HandleDisabled, driver, ring, RingStep, DisabledByErrors
<1>3. CASE HandleError
  <2>1. /\ wire' \in Seq(Byte) /\ UNCHANGED <<user, ring, mods, reader>>
        /\ errorCount' = errorCount + 1 /\ ~keyboardDisabled
        /\ keyboardDisabled' = (errorCount' > KBD_MAX_ERRORS)
    BY <1>1, <1>3, ReadsType DEF HandleError, Interrupt
  <2>2. errorCount' \in 0 .. KBD_MAX_ERRORS + 1
    BY <1>1, <2>1 DEF DisabledByErrors
  <2>3. keyboardDisabled' \in BOOLEAN /\ DisabledByErrors'
    <3>1. keyboardDisabled' \in BOOLEAN
      <4>1. CASE errorCount' > KBD_MAX_ERRORS  BY <2>1, <4>1
      <4>2. CASE ~(errorCount' > KBD_MAX_ERRORS)  BY <2>1, <4>2
      <4>3. QED  BY <4>1, <4>2
    <3>2. DisabledByErrors'
      BY <2>1, <3>1, Zenon DEF DisabledByErrors
    <3>3. QED  BY <3>1, <3>2
  <2>4. QED  BY <1>1, <2>1, <2>2, <2>3 DEF RingStep
<1>4. CASE HandleKey
  <2>1. /\ wire' \in Seq(Byte) /\ UNCHANGED <<user, mods, keyboardDisabled, reader>>
        /\ errorCount' = Forgiven /\ ~keyboardDisabled /\ code \in KeyCodes
    BY <1>1, <1>4, ReadsType DEF HandleKey, Interrupt
  <2>2. RingStep
    <3>1. CASE KeysOf(code) = <<>>
      BY <1>4, <3>1 DEF HandleKey, RingStep
    <3>2. CASE KeysOf(code) # <<>>
      <4>1. Put(KeysOf(code))
        BY <1>4, <3>2 DEF HandleKey
      <4>2. QED  BY <1>1, <2>1, <3>2, <4>1, KeysOfType, PutEffect
    <3>3. QED  BY <3>1, <3>2
  <2>3. QED  BY <1>1, <2>1, <2>2, ForgivenType DEF DisabledByErrors
<1>5. CASE HandleModifier
  <2>1. /\ wire' \in Seq(Byte) /\ UNCHANGED <<user, ring, keyboardDisabled, reader>>
        /\ errorCount' = Forgiven /\ ~keyboardDisabled /\ code \in ModCodes
        /\ mods' = Modified(mods, code)
    BY <1>1, <1>5, ReadsType DEF HandleModifier, Interrupt
  <2>2. mods' \in Modifiers
    BY <1>1, <2>1, ModifiedType
  <2>3. QED  BY <1>1, <2>1, <2>2, ForgivenType DEF DisabledByErrors, RingStep
<1>6. CASE HandleIgnored
  <2>1. /\ wire' \in Seq(Byte) /\ UNCHANGED <<user, ring, mods, keyboardDisabled, reader>>
        /\ errorCount' = Forgiven /\ ~keyboardDisabled
    BY <1>1, <1>6, ReadsType DEF HandleIgnored, Interrupt
  <2>2. QED  BY <1>1, <2>1, ForgivenType DEF DisabledByErrors, RingStep
<1>7. CASE HandleExtKey
  <2>1. /\ wire' \in Seq(Byte)
        /\ UNCHANGED <<user, mods, errorCount, keyboardDisabled, reader>>
        /\ extcode \in ExtKeys /\ Put(<<Entry(TRUE, extcode, FALSE)>>)
    BY <1>1, <1>7, ReadsType DEF HandleExtKey, Extended
  <2>2. Entry(TRUE, extcode, FALSE) \in Entries
    <3>1. extcode \in Byte
      BY <2>1 DEF ExtKeys, Byte
    <3>2. QED  BY <1>1, <3>1, EntryType
  <2>3. RingStep
    BY <1>1, <2>1, <2>2, ShortSequences, PutEffect
  <2>4. QED  BY <1>1, <2>1, <2>3 DEF DisabledByErrors
<1>8. CASE HandleExtModifier
  <2>1. /\ wire' \in Seq(Byte)
        /\ UNCHANGED <<user, ring, errorCount, keyboardDisabled, reader>>
        /\ extcode \in ExtMods /\ mods' = ExtModified(mods, extcode)
    BY <1>1, <1>8, ReadsType DEF HandleExtModifier, Extended
  <2>2. mods' \in Modifiers
    BY <1>1, <2>1, ExtModifiedType
  <2>3. QED  BY <1>1, <2>1, <2>2 DEF DisabledByErrors, RingStep
<1>9. CASE HandleRightCtrl
  <2>1. /\ wire' \in Seq(Byte)
        /\ UNCHANGED <<user, ring, errorCount, keyboardDisabled, reader>>
        /\ mods' = setCtrl([mods EXCEPT !.ctrlRight = TRUE])
    BY <1>1, <1>9, ReadsType DEF HandleRightCtrl
  <2>2. mods' \in Modifiers
    BY <1>1, <2>1, FieldTypes, SetterTypes
  <2>3. QED  BY <1>1, <2>1, <2>2 DEF DisabledByErrors, RingStep
<1>10. CASE HandlePause
  <2>1. /\ wire' \in Seq(Byte)
        /\ UNCHANGED <<user, mods, errorCount, keyboardDisabled, reader>>
        /\ Put(<<Entry(TRUE, \h1D, mods.shift)>>)
    BY <1>1, <1>10, ReadsType DEF HandlePause
  <2>2. mods.shift \in BOOLEAN
    BY <1>1 DEF Modifiers
  <2>3. Entry(TRUE, \h1D, mods.shift) \in Entries
    <3>1. \h1D \in Byte
      BY DEF Byte
    <3>2. QED  BY <1>1, <2>2, <3>1, EntryType
  <2>4. RingStep
    BY <1>1, <2>1, <2>3, ShortSequences, PutEffect
  <2>5. QED  BY <1>1, <2>1, <2>4 DEF DisabledByErrors
<1>11. CASE HandleExtIgnored
  BY <1>1, <1>11, ReadsType
  DEF HandleExtIgnored, driver, ring, RingStep, DisabledByErrors
<1>12. CASE HandleSplit
  BY <1>1, <1>12, ReadsType DEF HandleSplit, driver, ring, RingStep, DisabledByErrors
<1>13. QED
  BY <1>2, <1>3, <1>4, <1>5, <1>6, <1>7, <1>8, <1>9, <1>10, <1>11, <1>12 DEF Handler

\* Every interrupt preserves the invariant, wherever the reader is.
LEMMA HandlerPreserves ==
  ASSUME IInv, Handler
  PROVE  IInv' /\ [Mailbox!Next]_(Mailbox!mvars)
<1>1. /\ UNCHANGED <<user, reader>> /\ RingStep
      /\ wire' \in Seq(Byte) /\ mods' \in Modifiers
      /\ errorCount' \in 0 .. KBD_MAX_ERRORS + 1 /\ keyboardDisabled' \in BOOLEAN
      /\ DisabledByErrors'
  BY HandlerEffect
<1>2. /\ RingOK'
      /\ kbdBuffer' \in [Slots -> Entries \cup {NoKey}] /\ kbdHead' \in Slots
      /\ [Mailbox!Next]_(Mailbox!mvars)
  BY <1>1, RingStepPreserves DEF IInv
<1>3. TypeOK'
  BY <1>1, <1>2 DEF IInv, TypeOK, user, reader
<1>4. QED  BY <1>1, <1>2, <1>3 DEF IInv

-----------------------------------------------------------------------------
(* The user and the main thread.                                           *)

\* Keys pressed, repeated and released only put bytes on the wire.
LEMMA TypingPreserves ==
  ASSUME IInv, NEW k \in PhysKeys, Press(k) \/ Repeat(k) \/ Release(k)
  PROVE  IInv' /\ UNCHANGED Mailbox!mvars
<1>1. /\ UNCHANGED <<driver, reader>> /\ down' \in SUBSET PhysKeys /\ capsOn' \in BOOLEAN
      /\ \E s \in Seq(Byte) : wire' = wire \o s
  <2>1. Make[k] \in Seq(Byte) /\ Break[k] \in Seq(Byte) /\ Typematic[k] \in Seq(Byte)
    BY KbdAssumption
  <2>2. CASE Press(k) \/ Repeat(k)
    <3>1. capsOn' \in BOOLEAN
      <4>1. capsOn \in BOOLEAN /\ (~capsOn) \in BOOLEAN
        BY BooleanValues DEF IInv, TypeOK
      <4>2. QED  BY <2>2, <4>1 DEF Press, Repeat
    <3>2. QED  BY <2>1, <2>2, <3>1 DEF Press, Repeat, IInv, TypeOK
  <2>3. CASE Release(k)
    BY <2>1, <2>3 DEF Release, IInv, TypeOK
  <2>4. QED  BY <2>2, <2>3
<1>2. wire' \in Seq(Byte)
  BY <1>1, ConcatProperties DEF IInv, TypeOK
<1>3. QED
  BY <1>1, <1>2 DEF IInv, TypeOK, RingOK, DisabledByErrors, NothingQueued, Rolled,
                    driver, reader, Mailbox!mvars

\* Each store of kbdGetKey preserves the invariant.
LEMMA GetKeyPreserves ==
  ASSUME IInv, kbdGetKey
  PROVE  /\ IInv' /\ [Mailbox!Next]_(Mailbox!mvars)
         /\ pc \in {"get", "read", "roll"} /\ pc' \in {"read", "roll", "got"}
<1> USE DEF IInv
<1>1. /\ kbdHead \in 0 .. KBD_BUFFER_SIZE - 1 /\ kbdTail \in 0 .. KBD_BUFFER_SIZE
      /\ KBD_BUFFER_SIZE \in Nat /\ KBD_BUFFER_SIZE >= 2
      /\ kbdBuffer \in [Slots -> Entries \cup {NoKey}]
      /\ taken \in 0 .. KBD_BUFFER_SIZE - 1 /\ key \in Entries \cup {NoKey}
      /\ NoKey \notin Entries
  BY KbdAssumption DEF TypeOK, Slots
<1>2. CASE GetKeyCheck
  <2>1. UNCHANGED <<user, wire, driver>> /\ pc = "get"
    BY <1>2 DEF GetKeyCheck
  <2>2. kbdTail # KBD_BUFFER_SIZE /\ Rolled(kbdTail) = kbdTail
    BY <1>1, <2>1 DEF RingOK, Rolled
  <2>3. CASE kbdBufferEmpty
    <3>1. key' = NoKey /\ pc' = "got" /\ kbdTail' = kbdTail /\ taken' = taken
      BY <1>2, <2>3 DEF GetKeyCheck
    <3>2. NothingQueued
      BY <2>2, <2>3 DEF kbdBufferEmpty, NothingQueued
    <3>3. TypeOK'
      BY <1>1, <2>1, <3>1 DEF TypeOK, user, driver, Slots
    <3>4. RingOK' /\ DisabledByErrors'
      BY <2>1, <2>2, <3>1, <3>2
      DEF RingOK, DisabledByErrors, NothingQueued, Rolled, driver
    <3>5. Mailbox!Nothing
      BY <2>1, <2>2, <3>1, <3>2 DEF Mailbox!Nothing, NothingQueued, Rolled, driver
    <3>6. QED  BY <2>1, <3>1, <3>3, <3>4, <3>5 DEF Mailbox!Next
  <2>4. CASE ~kbdBufferEmpty
    <3>1. /\ taken' = kbdTail /\ kbdTail' = kbdTail + 1 /\ pc' = "read" /\ key' = key
          /\ kbdBuffer' = kbdBuffer /\ kbdHead' = kbdHead
      BY <1>2, <2>4 DEF GetKeyCheck, driver
    <3>2. ~NothingQueued /\ kbdHead = Rolled(kbdTail + 1)
      BY <2>2, <2>4 DEF kbdBufferEmpty, NothingQueued, RingOK
    <3>3. kbdBuffer[kbdTail] \in Entries
      BY <2>2, <3>2 DEF RingOK
    <3>4. TypeOK'
      BY <1>1, <2>1, <2>2, <3>1 DEF TypeOK, user, driver, Slots
    <3>5. NothingQueued'
      BY <3>1, <3>2 DEF NothingQueued, Rolled
    <3>6. RingOK' /\ DisabledByErrors'
      BY <2>1, <3>1, <3>3, <3>5 DEF RingOK, DisabledByErrors, NothingQueued, driver
    <3>7. Mailbox!Take
      BY <1>1, <2>1, <2>2, <3>1, <3>2, <3>3, <3>5 DEF Mailbox!Take
    <3>8. QED  BY <2>1, <3>1, <3>4, <3>6, <3>7 DEF Mailbox!Next
  <2>5. QED  BY <2>3, <2>4
<1>3. CASE GetKeyRead
  <2>1. /\ UNCHANGED <<user, wire, driver, kbdTail, taken>> /\ pc = "read"
        /\ key' = kbdBuffer[taken] /\ pc' = "roll"
    BY <1>3 DEF GetKeyRead
  <2>2. TypeOK'
    BY <1>1, <2>1 DEF TypeOK, user, driver, Slots
  <2>3. RingOK' /\ DisabledByErrors'
    BY <1>1, <2>1 DEF RingOK, DisabledByErrors, NothingQueued, Rolled, driver
  <2>4. UNCHANGED Mailbox!mvars
    BY <2>1 DEF Mailbox!mvars, NothingQueued, Rolled, driver
  <2>5. QED  BY <2>1, <2>2, <2>3, <2>4
<1>4. CASE GetKeyRoll
  <2>1. /\ UNCHANGED <<user, wire, driver, taken, key>> /\ pc = "roll"
        /\ kbdTail' = Rolled(kbdTail) /\ pc' = "got"
    BY <1>4 DEF GetKeyRoll
  <2>2. kbdTail' \in 0 .. KBD_BUFFER_SIZE - 1 /\ Rolled(kbdTail') = Rolled(kbdTail)
    BY <1>1, <2>1 DEF Rolled
  <2>3. TypeOK'
    BY <1>1, <2>1, <2>2 DEF TypeOK, user, driver, Slots
  <2>4. NothingQueued' <=> NothingQueued
    BY <2>1, <2>2 DEF NothingQueued, driver
  <2>5. RingOK' /\ DisabledByErrors'
    BY <1>1, <2>1, <2>2, <2>4 DEF RingOK, DisabledByErrors, driver
  <2>6. UNCHANGED Mailbox!mvars
    BY <2>1, <2>2, <2>4 DEF Mailbox!mvars, driver
  <2>7. QED  BY <2>1, <2>3, <2>5, <2>6
<1>5. QED  BY <1>2, <1>3, <1>4 DEF kbdGetKey

-----------------------------------------------------------------------------
(* Theorems.                                                               *)

\* The driver's static data satisfies the invariant.
LEMMA InitOK ==
  ASSUME NEW p \in {"get", "prompt"}, InitAt(p)
  PROVE  IInv /\ Mailbox!Init
<1>1. KBD_BUFFER_SIZE \in Nat /\ KBD_BUFFER_SIZE >= 2 /\ KBD_MAX_ERRORS \in Nat
  BY KbdAssumption
<1>2. mods \in Modifiers
  BY DEF InitAt, Modifiers
<1>3. TypeOK
  <2>1. wire \in Seq(Byte)
    BY EmptySeq DEF InitAt
  <2>2. kbdBuffer \in [Slots -> Entries \cup {NoKey}]
    BY DEF InitAt
  <2>3. QED  BY <1>1, <1>2, <2>1, <2>2 DEF InitAt, TypeOK, Slots
<1>4. NothingQueued
  BY <1>1 DEF InitAt, NothingQueued, Rolled
<1>5. RingOK /\ DisabledByErrors
  BY <1>1, <1>4 DEF InitAt, RingOK, DisabledByErrors, Rolled, NothingQueued
<1>6. QED  BY <1>3, <1>4, <1>5 DEF IInv, Mailbox!Init, InitAt

\* Every step preserves the invariant.
LEMMA StepOK ==
  ASSUME IInv, [Next]_vars
  PROVE  IInv' /\ [Mailbox!Next]_(Mailbox!mvars)
<1>1. ASSUME NEW k \in PhysKeys, Press(k) \/ Repeat(k) \/ Release(k)
      PROVE  IInv' /\ [Mailbox!Next]_(Mailbox!mvars)
  BY <1>1, TypingPreserves
<1>2. CASE Handler
  BY <1>2, HandlerPreserves
<1>3. CASE kbdGetKey
  BY <1>3, GetKeyPreserves
<1>4. CASE Again \/ UNCHANGED vars
  <2>1. /\ UNCHANGED <<user, wire, driver, kbdTail, taken, key>>
        /\ pc' = pc \/ (pc = "got" /\ pc' = "get")
    BY <1>4 DEF Again, vars, reader
  <2>2. QED
    BY <2>1 DEF IInv, TypeOK, RingOK, DisabledByErrors, NothingQueued, Rolled,
                user, driver, Mailbox!mvars
<1>5. QED  BY <1>1, <1>2, <1>3, <1>4 DEF Next

\* The inductive invariant of the driver holds in every state.
THEOREM Invariance == Spec => []IInv
<1>1. Init => IInv
  BY InitOK DEF Init
<1>2. IInv /\ [Next]_vars => IInv'
  BY StepOK
<1>3. QED  BY <1>1, <1>2, PTL DEF Spec

\* The driver's state keeps its types: head and tail index the ring, whatever
\* bytes arrive between the two stores of kbdGetKey.
THEOREM TypeCorrect == Spec => []TypeOK
BY Invariance, PTL DEF IInv

\* handleKbdError disables the keyboard exactly when the errors outstanding
\* exceed KBD_MAX_ERRORS.
THEOREM DisabledCorrect == Spec => []DisabledByErrors
BY Invariance, PTL DEF IInv

\* For every size of the ring the driver holds one key at most: it implements a
\* box for one key, which is never overwritten and whose content is read once.
THEOREM ImplementsMailbox == Spec => RefinesMailbox
<1>1. Init => Mailbox!Init
  BY InitOK DEF Init
<1>2. IInv /\ [Next]_vars => [Mailbox!Next]_(Mailbox!mvars)
  BY StepOK
<1>3. QED  BY <1>1, <1>2, Invariance, PTL DEF Spec, RefinesMailbox, Mailbox!Spec

-----------------------------------------------------------------------------
(* What is on the wire turns the shift keys and caps lock as the driver has *)
(* them into those the user has: a path from the one to the other.          *)

Toggles == {"lshift", "rshift", "caps"}

\* As the driver has them, and as the user has.
Heard == {k \in Toggles : \/ k = "lshift" /\ mods.shiftLeft
                          \/ k = "rshift" /\ mods.shiftRight
                          \/ k = "caps" /\ mods.capsLock}
Held == {k \in Toggles : IF k = "caps" THEN capsOn ELSE k \in down}

\* What a code makes of them.
Pressed(st, c) ==
  CASE c = \h2A -> st \cup {"lshift"}
    [] c = \hAA -> st \ {"lshift"}
    [] c = \h36 -> st \cup {"rshift"}
    [] c = \hB6 -> st \ {"rshift"}
    [] c = \h3A -> (st \ {"caps"}) \cup ({"caps"} \ st)
    [] OTHER -> st

After(st, s, i) == IF Prefixed(s, i) THEN st ELSE Pressed(st, s[i])

Path(f, s, a, b) ==
  /\ DOMAIN f = 0 .. Len(s) /\ f[0] = a /\ f[Len(s)] = b
  /\ \A i \in 1 .. Len(s) : f[i] = After(f[i - 1], s, i)
Leads(s, a, b) == \E f : Path(f, s, a, b)

\* Their codes, one by one.
LEMMA TheirCodes ==
  ASSUME NEW st
  PROVE  /\ Pressed(st, \h2A) = st \cup {"lshift"} /\ Pressed(st, \hAA) = st \ {"lshift"}
         /\ Pressed(st, \h36) = st \cup {"rshift"} /\ Pressed(st, \hB6) = st \ {"rshift"}
         /\ Pressed(st, \h3A) = (st \ {"caps"}) \cup ({"caps"} \ st)
BY DEF Pressed

\* A code that is none of theirs changes nothing.
LEMMA OtherCode == ASSUME NEW st, NEW c, c \notin ShiftCodes PROVE Pressed(st, c) = st
BY DEF Pressed, ShiftCodes

\* Nothing sent, nothing changed.
LEMMA NoCodes ==
  /\ \A a : Leads(<<>>, a, a)
  /\ \A a, b : Leads(<<>>, a, b) => a = b
<1>1. ASSUME NEW a PROVE Leads(<<>>, a, a)
  <2>1. Path([i \in 0 .. 0 |-> a], <<>>, a, a)
    BY DEF Path
  <2> QED BY <2>1 DEF Leads
<1>2. ASSUME NEW a, NEW b, Leads(<<>>, a, b) PROVE a = b
  BY <1>2 DEF Leads, Path
<1> QED BY <1>1, <1>2

\* One code leads where it turns them.
LEMMA OneCode ==
  ASSUME NEW c, NEW a PROVE Leads(<<c>>, a, Pressed(a, c))
<1> DEFINE b == Pressed(a, c)
           f == [i \in 0 .. 1 |-> IF i = 0 THEN a ELSE b]
<1>1. f[0] = a /\ f[1] = b /\ DOMAIN f = 0 .. Len(<<c>>)
  OBVIOUS
<1>2. After(f[0], <<c>>, 1) = b
  BY DEF After, Prefixed
<1> HIDE DEF f, b
<1>3. Path(f, <<c>>, a, b)
  BY <1>1, <1>2 DEF Path
<1> QED BY <1>3 DEF Leads, b

\* Codes of other keys lead nowhere.
LEMMA SilentCodes ==
  ASSUME NEW s \in Seq(Byte), Silent(s), NEW a PROVE Leads(s, a, a)
<1> DEFINE f == [i \in 0 .. Len(s) |-> a]
<1>1. ASSUME NEW i \in 1 .. Len(s) PROVE After(a, s, i) = a
  BY OtherCode DEF After, Silent
<1>2. Path(f, s, a, a)
  BY <1>1 DEF Path
<1> QED BY <1>2 DEF Leads

\* The bytes of a concatenation.
LEMMA ConcatAt ==
  ASSUME NEW s \in Seq(Byte), NEW u \in Seq(Byte)
  PROVE  /\ Len(s \o u) = Len(s) + Len(u)
         /\ \A i \in 1 .. Len(s) : (s \o u)[i] = s[i]
         /\ \A j \in 1 .. Len(u) : (s \o u)[Len(s) + j] = u[j]
OBVIOUS

\* Codes sent after others.
LEMMA Sent ==
  ASSUME NEW late, NEW s \in Seq(Byte), NEW u \in Seq(Byte), NEW a, NEW b, NEW c,
         WholeCodes(s, late), Leads(s, a, b), Leads(u, b, c)
  PROVE  Leads(s \o u, a, c)
<1>1. PICK f : Path(f, s, a, b)
  BY DEF Leads
<1>2. PICK h : Path(h, u, b, c)
  BY DEF Leads
<1>3. PICK w \in Seq(Byte) : w = s \o u
  BY ConcatProperties
<1>4. PICK n \in Nat : n = Len(s)
  OBVIOUS
<1>5. PICK m \in Nat : m = Len(u)
  OBVIOUS
<1>6. /\ Len(w) = n + m
      /\ \A i \in 1 .. n : w[i] = s[i]
      /\ \A j \in 1 .. m : w[n + j] = u[j]
  BY <1>3, <1>4, <1>5, ConcatAt
<1>7. PICK g : g = [i \in 0 .. n + m |-> IF i <= n THEN f[i] ELSE h[i - n]]
  OBVIOUS
<1>8. ASSUME NEW i \in 1 .. n + m PROVE g[i] = After(g[i - 1], w, i)
  <2>1. CASE i <= n
    <3>1. g[i] = f[i] /\ g[i - 1] = f[i - 1]
      BY <1>7, <2>1
    <3>2. Prefixed(w, i) <=> Prefixed(s, i)
      BY <1>6, <2>1 DEF Prefixed
    <3>3. w[i] = s[i]
      BY <1>6, <2>1
    <3>4. f[i] = After(f[i - 1], s, i)
      BY <1>1, <1>4, <2>1 DEF Path
    <3> QED BY <3>1, <3>2, <3>3, <3>4 DEF After
  <2>2. CASE i > n
    <3>1. PICK j \in 1 .. m : i = n + j
      <4>1. i - n \in 1 .. m /\ i = n + (i - n)
        BY <2>2
      <4> QED BY <4>1
    <3>2. g[i] = h[j] /\ g[i - 1] = h[j - 1]
      <4>1. g[i] = h[j]
        BY <1>7, <2>2, <3>1
      <4>2. CASE j = 1
        BY <1>1, <1>2, <1>4, <1>7, <3>1, <4>2 DEF Path
      <4>3. CASE j # 1
        <5>1. i - 1 \in 0 .. n + m /\ ~(i - 1 <= n) /\ (i - 1) - n = j - 1
          BY <3>1, <4>3
        <5> QED BY <1>7, <4>1, <5>1
      <4> QED BY <4>1, <4>2, <4>3
    <3>3. Prefixed(w, i) <=> Prefixed(u, j)
      <4>1. CASE j = 1
        <5>1. n > 0 => w[n] = s[n] /\ s[n] # E0
          BY <1>4, <1>6 DEF WholeCodes
        <5> QED BY <3>1, <4>1, <5>1 DEF Prefixed
      <4>2. CASE j # 1
        <5>1. j - 1 \in 1 .. m /\ i - 1 = n + (j - 1)
          BY <3>1, <4>2
        <5>2. w[i - 1] = u[j - 1]
          BY <1>6, <5>1
        <5> QED BY <3>1, <4>2, <5>1, <5>2 DEF Prefixed
      <4> QED BY <4>1, <4>2
    <3>4. w[i] = u[j]
      BY <1>6, <3>1
    <3>5. h[j] = After(h[j - 1], u, j)
      BY <1>2, <1>5, <3>1 DEF Path
    <3> QED BY <3>2, <3>3, <3>4, <3>5 DEF After
  <2> QED BY <2>1, <2>2
<1>9. g[0] = a /\ DOMAIN g = 0 .. Len(w)
  BY <1>1, <1>6, <1>7 DEF Path
<1>10. g[Len(w)] = c
  <2>1. CASE m = 0
    BY <1>1, <1>2, <1>4, <1>5, <1>6, <1>7, <2>1 DEF Path
  <2>2. CASE m > 0
    BY <1>2, <1>5, <1>6, <1>7, <2>2 DEF Path
  <2> QED BY <2>1, <2>2
<1>11. Path(g, w, a, c)
  BY <1>6, <1>8, <1>9, <1>10 DEF Path
<1> QED BY <1>3, <1>11 DEF Leads

\* Whole codes sent after whole codes are whole.
LEMMA WholeSent ==
  ASSUME NEW late, NEW s \in Seq(Byte), NEW u \in Seq(Byte),
         WholeCodes(s, late), WholeCodes(u, late)
  PROVE  WholeCodes(s \o u, late)
<1>1. PICK w \in Seq(Byte) : w = s \o u
  BY ConcatProperties
<1>2. PICK n \in Nat : n = Len(s)
  OBVIOUS
<1>3. PICK m \in Nat : m = Len(u)
  OBVIOUS
<1>4. /\ Len(w) = n + m
      /\ \A i \in 1 .. n : w[i] = s[i]
      /\ \A j \in 1 .. m : w[n + j] = u[j]
  BY <1>1, <1>2, <1>3, ConcatAt
<1>5. n > 0 => s[n] # E0
  BY <1>2 DEF WholeCodes
<1>6. ASSUME NEW i \in 1 .. n
      PROVE  /\ w[i] = E0 => i < n + m /\ w[i + 1] # E0
             /\ late /\ Prefixed(w, i) => w[i] \notin ShiftCodes
  <2>1. w[i] = E0 => i < n /\ s[i + 1] # E0
    BY <1>2, <1>4 DEF WholeCodes
  <2>2. Prefixed(w, i) => Prefixed(s, i)
    BY <1>4 DEF Prefixed
  <2>3. late /\ Prefixed(s, i) => s[i] \notin ShiftCodes
    BY <1>2 DEF WholeCodes
  <2> QED BY <1>4, <2>1, <2>2, <2>3
<1>7. ASSUME NEW j \in 1 .. m
      PROVE  /\ w[n + j] = E0 => n + j < n + m /\ w[n + j + 1] # E0
             /\ late /\ Prefixed(w, n + j) => w[n + j] \notin ShiftCodes
  <2>1. w[n + j] = u[j]
    BY <1>4
  <2>2. u[j] = E0 => j < m /\ u[j + 1] # E0
    BY <1>3 DEF WholeCodes
  <2>3. j < m => w[n + j + 1] = u[j + 1]
    <3>1. j < m => j + 1 \in 1 .. m /\ n + j + 1 = n + (j + 1)
      OBVIOUS
    <3> QED BY <1>4, <3>1
  <2>4. Prefixed(w, n + j) => Prefixed(u, j)
    <3>1. CASE j = 1
      BY <1>4, <1>5, <3>1 DEF Prefixed
    <3>2. CASE j # 1
      <4>1. j - 1 \in 1 .. m /\ n + j - 1 = n + (j - 1)
        BY <3>2
      <4>2. w[n + j - 1] = u[j - 1]
        BY <1>4, <4>1
      <4> QED BY <3>2, <4>1, <4>2 DEF Prefixed
    <3> QED BY <3>1, <3>2
  <2>5. late /\ Prefixed(u, j) => u[j] \notin ShiftCodes
    BY <1>3 DEF WholeCodes
  <2> QED BY <2>1, <2>2, <2>3, <2>4, <2>5
<1>8. \A i \in 1 .. n + m : i \in 1 .. n \/ \E j \in 1 .. m : i = n + j
  <2> TAKE i \in 1 .. n + m
  <2>1. i > n => i - n \in 1 .. m /\ i = n + (i - n)
    OBVIOUS
  <2> QED BY <2>1
<1>9. ASSUME NEW i \in 1 .. Len(w)
      PROVE  /\ w[i] = E0 => i < Len(w) /\ w[i + 1] # E0
             /\ late /\ Prefixed(w, i) => w[i] \notin ShiftCodes
  <2>1. CASE i \in 1 .. n
    BY <1>4, <1>6, <2>1
  <2>2. ASSUME NEW j \in 1 .. m, i = n + j
        PROVE  /\ w[i] = E0 => i < Len(w) /\ w[i + 1] # E0
               /\ late /\ Prefixed(w, i) => w[i] \notin ShiftCodes
    BY <1>4, <1>7, <2>2
  <2> QED BY <1>4, <1>8, <2>1, <2>2
<1>10. WholeCodes(w, late)
  BY <1>9 DEF WholeCodes
<1> QED BY <1>1, <1>10

\* What is left when the first bytes are read.
Left(s, n) == SubSeq(s, n + 1, Len(s))

\* The bytes left.
LEMMA LeftIs ==
  ASSUME NEW s \in Seq(Byte), NEW n \in 1 .. Len(s)
  PROVE  /\ Left(s, n) \in Seq(Byte) /\ Len(Left(s, n)) = Len(s) - n
         /\ \A i \in 1 .. Len(s) - n : Left(s, n)[i] = s[n + i]
BY SubSeqProperties DEF Left

\* The codes left are whole, but for a second byte left alone.
LEMMA WholeLeft ==
  ASSUME NEW late, NEW s \in Seq(Byte), NEW n \in 1 .. Len(s), WholeCodes(s, late)
  PROVE  WholeCodes(Left(s, n), late)
<1>1. PICK t \in Seq(Byte) : t = Left(s, n)
  BY LeftIs
<1>2. PICK l \in Nat : l = Len(s) - n
  OBVIOUS
<1>3. Len(t) = l /\ \A i \in 1 .. l : t[i] = s[n + i]
  BY <1>1, <1>2, LeftIs
<1>4. ASSUME NEW i \in 1 .. l
      PROVE  /\ t[i] = E0 => i < l /\ t[i + 1] # E0
             /\ late /\ Prefixed(t, i) => t[i] \notin ShiftCodes
  <2>1. n + i \in 1 .. Len(s) /\ t[i] = s[n + i]
    BY <1>2, <1>3
  <2>2. s[n + i] = E0 => n + i < Len(s) /\ s[n + i + 1] # E0
    BY <2>1 DEF WholeCodes
  <2>3. i < l => t[i + 1] = s[n + i + 1]
    BY <1>3
  <2>4. Prefixed(t, i) => Prefixed(s, n + i)
    <3>1. i > 1 => t[i - 1] = s[n + i - 1]
      BY <1>3
    <3> QED BY <3>1 DEF Prefixed
  <2>5. late /\ Prefixed(s, n + i) => s[n + i] \notin ShiftCodes
    BY <2>1 DEF WholeCodes
  <2> QED BY <1>2, <2>1, <2>2, <2>3, <2>4, <2>5
<1>5. WholeCodes(t, late)
  BY <1>3, <1>4 DEF WholeCodes
<1> QED BY <1>1, <1>5

\* One byte is read: a code, or a prefix whose second byte is late.
LEMMA ReadOne ==
  ASSUME NEW late, NEW s \in Seq(Byte), NEW a, NEW b, s # <<>>,
         WholeCodes(s, late), Leads(s, a, b), s[1] # E0 \/ late
  PROVE  Leads(Left(s, 1), Pressed(a, s[1]), b)
<1>0. 1 \in 1 .. Len(s)
  OBVIOUS
<1>1. PICK f : Path(f, s, a, b)
  BY DEF Leads
<1>2. PICK t \in Seq(Byte) : t = Left(s, 1)
  BY <1>0, LeftIs
<1>3. PICK l \in Nat : Len(s) = l + 1
  BY <1>0
<1>4. Len(t) = l /\ \A i \in 1 .. l : t[i] = s[1 + i]
  <2>1. Len(t) = Len(s) - 1 /\ \A i \in 1 .. Len(s) - 1 : t[i] = s[1 + i]
    BY <1>0, <1>2, LeftIs
  <2>2. Len(s) - 1 = l
    BY <1>3
  <2> QED BY <2>1, <2>2
<1>5. PICK g : g = [i \in 0 .. l |-> f[i + 1]]
  OBVIOUS
<1>6. g[0] = Pressed(a, s[1])
  <2>1. f[1] = After(f[0], s, 1) /\ f[0] = a
    BY <1>0, <1>1 DEF Path
  <2>2. ~Prefixed(s, 1)
    BY DEF Prefixed
  <2> QED BY <1>5, <2>1, <2>2 DEF After
<1>7. g[l] = b /\ DOMAIN g = 0 .. l
  BY <1>1, <1>3, <1>5 DEF Path
<1>8. ASSUME NEW i \in 1 .. l PROVE g[i] = After(g[i - 1], t, i)
  <2>1. g[i] = f[i + 1] /\ g[i - 1] = f[i] /\ t[i] = s[i + 1]
    BY <1>4, <1>5
  <2>2. f[i + 1] = After(f[i], s, i + 1)
    <3>1. i + 1 \in 1 .. Len(s) /\ (i + 1) - 1 = i
      BY <1>3
    <3> QED BY <1>1, <3>1 DEF Path
  <2>3. CASE Prefixed(t, i) <=> Prefixed(s, i + 1)
    BY <2>1, <2>2, <2>3 DEF After
  <2>4. CASE ~(Prefixed(t, i) <=> Prefixed(s, i + 1))
    <3>1. i > 1 => t[i - 1] = s[i]
      BY <1>4
    <3>2. i = 1 /\ Prefixed(s, 2) /\ ~Prefixed(t, i) /\ late /\ s[1] = E0
      BY <2>4, <3>1 DEF Prefixed
    <3>3. s[i + 1] \notin ShiftCodes
      BY <1>3, <3>2 DEF WholeCodes
    <3> QED BY <2>1, <2>2, <3>2, <3>3, OtherCode DEF After
  <2> QED BY <2>3, <2>4
<1>9. Path(g, t, Pressed(a, s[1]), b)
  BY <1>4, <1>6, <1>7, <1>8 DEF Path
<1> QED BY <1>2, <1>9 DEF Leads

\* An extended code is read: it is none of theirs.
LEMMA ReadTwo ==
  ASSUME NEW late, NEW s \in Seq(Byte), NEW a, NEW b, Len(s) >= 2,
         WholeCodes(s, late), Leads(s, a, b), s[1] = E0
  PROVE  Leads(Left(s, 2), a, b)
<1>0. 2 \in 1 .. Len(s) /\ 1 \in 1 .. Len(s)
  OBVIOUS
<1>1. PICK f : Path(f, s, a, b)
  BY DEF Leads
<1>2. PICK t \in Seq(Byte) : t = Left(s, 2)
  BY <1>0, LeftIs
<1>3. PICK l \in Nat : Len(s) = l + 2
  BY <1>0
<1>4. Len(t) = l /\ \A i \in 1 .. l : t[i] = s[2 + i]
  <2>1. Len(t) = Len(s) - 2 /\ \A i \in 1 .. Len(s) - 2 : t[i] = s[2 + i]
    BY <1>0, <1>2, LeftIs
  <2>2. Len(s) - 2 = l
    BY <1>3
  <2> QED BY <2>1, <2>2
<1>5. PICK g : g = [i \in 0 .. l |-> f[i + 2]]
  OBVIOUS
<1>6. g[0] = a
  <2>1. f[1] = After(f[0], s, 1) /\ f[0] = a /\ f[2] = After(f[1], s, 2)
    BY <1>0, <1>1 DEF Path
  <2>2. ~Prefixed(s, 1) /\ Prefixed(s, 2)
    BY DEF Prefixed
  <2>3. E0 \notin ShiftCodes
    BY DEF E0, ShiftCodes
  <2>4. f[1] = a
    BY <2>1, <2>2, <2>3, OtherCode DEF After
  <2> QED BY <1>5, <2>1, <2>2, <2>4 DEF After
<1>7. g[l] = b /\ DOMAIN g = 0 .. l
  BY <1>1, <1>3, <1>5 DEF Path
<1>8. ASSUME NEW i \in 1 .. l PROVE g[i] = After(g[i - 1], t, i)
  <2>1. g[i] = f[i + 2] /\ g[i - 1] = f[i + 1] /\ t[i] = s[i + 2]
    BY <1>4, <1>5
  <2>2. f[i + 2] = After(f[i + 1], s, i + 2)
    <3>1. i + 2 \in 1 .. Len(s) /\ (i + 2) - 1 = i + 1
      BY <1>3
    <3> QED BY <1>1, <3>1 DEF Path
  <2>3. Prefixed(t, i) <=> Prefixed(s, i + 2)
    <3>1. i > 1 => t[i - 1] = s[i + 1]
      BY <1>4
    <3>2. s[2] # E0
      BY <1>0 DEF WholeCodes
    <3> QED BY <3>1, <3>2 DEF Prefixed
  <2> QED BY <2>1, <2>2, <2>3 DEF After
<1>9. Path(g, t, a, b)
  BY <1>4, <1>6, <1>7, <1>8 DEF Path
<1> QED BY <1>2, <1>9 DEF Leads

\* The flag says what the shift keys and caps lock that the driver has make of it.
ShiftAgrees == mods.shift <=> ~((mods.shiftLeft \/ mods.shiftRight) <=> mods.capsLock)

ShiftInv ==
  ~keyboardDisabled => WholeCodes(wire, Late) /\ Leads(wire, Heard, Held) /\ ShiftAgrees

\* What the setters leave of the flags that shift depends on.
LEMMA SettersKeep ==
  ASSUME NEW m \in Modifiers
  PROVE  /\ setCtrl(m).shiftLeft = m.shiftLeft /\ setCtrl(m).shiftRight = m.shiftRight
         /\ setCtrl(m).capsLock = m.capsLock /\ setCtrl(m).shift = m.shift
         /\ setAlt(m).shiftLeft = m.shiftLeft /\ setAlt(m).shiftRight = m.shiftRight
         /\ setAlt(m).capsLock = m.capsLock /\ setAlt(m).shift = m.shift
         /\ setShift(m).shiftLeft = m.shiftLeft /\ setShift(m).shiftRight = m.shiftRight
         /\ setShift(m).capsLock = m.capsLock
         /\ setShift(m).shift <=> ~((m.shiftLeft \/ m.shiftRight) <=> m.capsLock)
<1>1. /\ setCtrl(m).shiftLeft = m.shiftLeft /\ setCtrl(m).shiftRight = m.shiftRight
      /\ setCtrl(m).capsLock = m.capsLock /\ setCtrl(m).shift = m.shift
  BY DEF setCtrl, Modifiers
<1>2. /\ setAlt(m).shiftLeft = m.shiftLeft /\ setAlt(m).shiftRight = m.shiftRight
      /\ setAlt(m).capsLock = m.capsLock /\ setAlt(m).shift = m.shift
  BY DEF setAlt, Modifiers
<1>3. /\ setShift(m).shiftLeft = m.shiftLeft /\ setShift(m).shiftRight = m.shiftRight
      /\ setShift(m).capsLock = m.capsLock
  BY DEF setShift, Modifiers
<1>4. setShift(m).shift <=> ~((m.shiftLeft \/ m.shiftRight) <=> m.capsLock)
  <2>1. m.shiftLeft \in BOOLEAN /\ m.shiftRight \in BOOLEAN /\ m.capsLock \in BOOLEAN
    BY DEF Modifiers
  <2>2. setShift(m).shift = ((m.shiftLeft \/ m.shiftRight) # m.capsLock)
    BY DEF setShift, Modifiers
  <2> QED BY <2>1, <2>2, Zenon
<1> QED BY <1>1, <1>2, <1>3, <1>4

\* Whether the flags of m are those of the driver after the code c.
Turned(m, c) ==
  /\ {k \in Toggles : \/ k = "lshift" /\ m.shiftLeft
                      \/ k = "rshift" /\ m.shiftRight
                      \/ k = "caps" /\ m.capsLock} = Pressed(Heard, c)
  /\ ShiftAgrees => (m.shift <=> ~((m.shiftLeft \/ m.shiftRight) <=> m.capsLock))

SameShift(m, n) ==
  /\ m.shiftLeft = n.shiftLeft /\ m.shiftRight = n.shiftRight
  /\ m.capsLock = n.capsLock /\ m.shift = n.shift

\* A modifier code turns the driver's flags as the path does.
LEMMA ModifiedTurns ==
  ASSUME mods \in Modifiers, NEW c \in ModCodes PROVE Turned(Modified(mods, c), c)
<1> DEFINE r == Modified(mods, c)
<1>1. CASE c = \h2A
  <2>1. PICK m \in Modifiers : m = [mods EXCEPT !.shiftLeft = TRUE]
    BY FieldTypes, BooleanValues
  <2>2. r = setShift(m)
    BY <1>1, <2>1 DEF Modified
  <2>3. m.shiftLeft /\ m.shiftRight = mods.shiftRight /\ m.capsLock = mods.capsLock
    BY <2>1 DEF Modifiers
  <2>4. /\ r.shiftLeft = m.shiftLeft /\ r.shiftRight = m.shiftRight /\ r.capsLock = m.capsLock
        /\ r.shift <=> ~((m.shiftLeft \/ m.shiftRight) <=> m.capsLock)
    BY <2>2, SettersKeep
  <2> HIDE DEF r
  <2>5. {k \in Toggles : \/ k = "lshift" /\ r.shiftLeft
                         \/ k = "rshift" /\ r.shiftRight
                         \/ k = "caps" /\ r.capsLock} = Pressed(Heard, c)
    BY <1>1, <2>3, <2>4, TheirCodes DEF Heard, Toggles
  <2> QED BY <2>4, <2>5 DEF Turned, r
<1>2. CASE c = \hAA
  <2>1. PICK m \in Modifiers : m = [mods EXCEPT !.shiftLeft = FALSE]
    BY FieldTypes, BooleanValues
  <2>2. r = setShift(m)
    BY <1>2, <2>1 DEF Modified
  <2>3. ~m.shiftLeft /\ m.shiftRight = mods.shiftRight /\ m.capsLock = mods.capsLock
    BY <2>1 DEF Modifiers
  <2>4. /\ r.shiftLeft = m.shiftLeft /\ r.shiftRight = m.shiftRight /\ r.capsLock = m.capsLock
        /\ r.shift <=> ~((m.shiftLeft \/ m.shiftRight) <=> m.capsLock)
    BY <2>2, SettersKeep
  <2> HIDE DEF r
  <2>5. {k \in Toggles : \/ k = "lshift" /\ r.shiftLeft
                         \/ k = "rshift" /\ r.shiftRight
                         \/ k = "caps" /\ r.capsLock} = Pressed(Heard, c)
    BY <1>2, <2>3, <2>4, TheirCodes DEF Heard, Toggles
  <2> QED BY <2>4, <2>5 DEF Turned, r
<1>3. CASE c = \h36
  <2>1. PICK m \in Modifiers : m = [mods EXCEPT !.shiftRight = TRUE]
    BY FieldTypes, BooleanValues
  <2>2. r = setShift(m)
    BY <1>3, <2>1 DEF Modified
  <2>3. m.shiftLeft = mods.shiftLeft /\ m.shiftRight /\ m.capsLock = mods.capsLock
    BY <2>1 DEF Modifiers
  <2>4. /\ r.shiftLeft = m.shiftLeft /\ r.shiftRight = m.shiftRight /\ r.capsLock = m.capsLock
        /\ r.shift <=> ~((m.shiftLeft \/ m.shiftRight) <=> m.capsLock)
    BY <2>2, SettersKeep
  <2> HIDE DEF r
  <2>5. {k \in Toggles : \/ k = "lshift" /\ r.shiftLeft
                         \/ k = "rshift" /\ r.shiftRight
                         \/ k = "caps" /\ r.capsLock} = Pressed(Heard, c)
    BY <1>3, <2>3, <2>4, TheirCodes DEF Heard, Toggles
  <2> QED BY <2>4, <2>5 DEF Turned, r
<1>4. CASE c = \hB6
  <2>1. PICK m \in Modifiers : m = [mods EXCEPT !.shiftRight = FALSE]
    BY FieldTypes, BooleanValues
  <2>2. r = setShift(m)
    BY <1>4, <2>1 DEF Modified
  <2>3. m.shiftLeft = mods.shiftLeft /\ ~m.shiftRight /\ m.capsLock = mods.capsLock
    BY <2>1 DEF Modifiers
  <2>4. /\ r.shiftLeft = m.shiftLeft /\ r.shiftRight = m.shiftRight /\ r.capsLock = m.capsLock
        /\ r.shift <=> ~((m.shiftLeft \/ m.shiftRight) <=> m.capsLock)
    BY <2>2, SettersKeep
  <2> HIDE DEF r
  <2>5. {k \in Toggles : \/ k = "lshift" /\ r.shiftLeft
                         \/ k = "rshift" /\ r.shiftRight
                         \/ k = "caps" /\ r.capsLock} = Pressed(Heard, c)
    BY <1>4, <2>3, <2>4, TheirCodes DEF Heard, Toggles
  <2> QED BY <2>4, <2>5 DEF Turned, r
<1>5. CASE c = \h3A
  <2>1. PICK m \in Modifiers : m = [mods EXCEPT !.capsLock = ~@]
    BY FieldTypes, BooleanValues
  <2>2. r = setShift(m)
    BY <1>5, <2>1 DEF Modified
  <2>3. m.shiftLeft = mods.shiftLeft /\ m.shiftRight = mods.shiftRight /\ (m.capsLock <=> ~mods.capsLock)
    BY <2>1 DEF Modifiers
  <2>4. /\ r.shiftLeft = m.shiftLeft /\ r.shiftRight = m.shiftRight /\ r.capsLock = m.capsLock
        /\ r.shift <=> ~((m.shiftLeft \/ m.shiftRight) <=> m.capsLock)
    BY <2>2, SettersKeep
  <2> HIDE DEF r
  <2>5. {k \in Toggles : \/ k = "lshift" /\ r.shiftLeft
                         \/ k = "rshift" /\ r.shiftRight
                         \/ k = "caps" /\ r.capsLock} = Pressed(Heard, c)
    BY <1>5, <2>3, <2>4, TheirCodes DEF Heard, Toggles
  <2> QED BY <2>4, <2>5 DEF Turned, r
<1>6. CASE c \in {\h1D, \h9D, \h38, \hB8, \h45}
  <2>1. Pressed(Heard, c) = Heard
    BY <1>6, OtherCode DEF ShiftCodes
  <2>2. SameShift(r, mods)
    <3>1. CASE c = \h1D
      <4>1. PICK m \in Modifiers : m = [mods EXCEPT !.ctrlLeft = TRUE]
        BY FieldTypes, BooleanValues
      <4>2. r = setCtrl(m)
        BY <3>1, <4>1 DEF Modified
      <4>3. SameShift(m, mods)
        BY <4>1 DEF SameShift, Modifiers
      <4> QED BY <4>2, <4>3, SettersKeep DEF SameShift
    <3>2. CASE c = \h9D
      <4>1. PICK m \in Modifiers : m = [mods EXCEPT !.ctrlLeft = FALSE]
        BY FieldTypes, BooleanValues
      <4>2. r = setAlt(m)
        BY <3>2, <4>1 DEF Modified
      <4>3. SameShift(m, mods)
        BY <4>1 DEF SameShift, Modifiers
      <4> QED BY <4>2, <4>3, SettersKeep DEF SameShift
    <3>3. CASE c = \h38
      <4>1. PICK m \in Modifiers : m = [mods EXCEPT !.altLeft = TRUE]
        BY FieldTypes, BooleanValues
      <4>2. r = setAlt(m)
        BY <3>3, <4>1 DEF Modified
      <4>3. SameShift(m, mods)
        BY <4>1 DEF SameShift, Modifiers
      <4> QED BY <4>2, <4>3, SettersKeep DEF SameShift
    <3>4. CASE c = \hB8
      <4>1. PICK m \in Modifiers : m = [mods EXCEPT !.altLeft = FALSE]
        BY FieldTypes, BooleanValues
      <4>2. r = setAlt(m)
        BY <3>4, <4>1 DEF Modified
      <4>3. SameShift(m, mods)
        BY <4>1 DEF SameShift, Modifiers
      <4> QED BY <4>2, <4>3, SettersKeep DEF SameShift
    <3>5. CASE c = \h45
      <4>1. PICK m \in Modifiers : m = [mods EXCEPT !.numLock = ~@]
        BY FieldTypes, BooleanValues
      <4>2. r = m
        BY <3>5, <4>1 DEF Modified
      <4>3. SameShift(m, mods)
        BY <4>1 DEF SameShift, Modifiers
      <4> QED BY <4>2, <4>3, SettersKeep DEF SameShift
    <3> QED BY <1>6, <3>1, <3>2, <3>3, <3>4, <3>5
  <2> HIDE DEF r
  <2> QED BY <2>1, <2>2 DEF SameShift, Turned, Heard, ShiftAgrees, r
<1> QED BY <1>1, <1>2, <1>3, <1>4, <1>5, <1>6 DEF ModCodes

\* Codes after E0 that change a flag change none of these.
LEMMA ExtModifiedKeeps ==
  ASSUME mods \in Modifiers, NEW m,
         \/ \E c \in ExtMods : m = ExtModified(mods, c)
         \/ m = setCtrl([mods EXCEPT !.ctrlRight = TRUE])
  PROVE  SameShift(m, mods)
<1>1. PICK b \in BOOLEAN : \/ m = setAlt([mods EXCEPT !.altRight = b])
                           \/ m = setCtrl([mods EXCEPT !.ctrlRight = b])
  BY DEF ExtModified, ExtMods
<1>2. CASE m = setAlt([mods EXCEPT !.altRight = b])
  <2>1. PICK n \in Modifiers : n = [mods EXCEPT !.altRight = b]
    BY FieldTypes
  <2>2. SameShift(n, mods)
    BY <2>1 DEF SameShift, Modifiers
  <2> QED BY <1>2, <2>1, <2>2, SettersKeep DEF SameShift
<1>3. CASE m = setCtrl([mods EXCEPT !.ctrlRight = b])
  <2>1. PICK n \in Modifiers : n = [mods EXCEPT !.ctrlRight = b]
    BY FieldTypes
  <2>2. SameShift(n, mods)
    BY <2>1 DEF SameShift, Modifiers
  <2> QED BY <1>3, <2>1, <2>2, SettersKeep DEF SameShift
<1> QED BY <1>1, <1>2, <1>3

-----------------------------------------------------------------------------
(* The steps.                                                              *)

\* One byte is read.
LEMMA ReadsOneByte ==
  ASSUME ShiftInv, wire \in Seq(Byte), wire # <<>>, ~keyboardDisabled, Reads(1),
         code # E0 \/ Late, UNCHANGED user, Heard' = Pressed(Heard, code), ShiftAgrees'
  PROVE  ShiftInv'
<1>1. code = wire[1] /\ wire' = Left(wire, 1) /\ 1 \in 1 .. Len(wire)
  BY DEF Reads, Left, code
<1>2. WholeCodes(wire, Late) /\ Leads(wire, Heard, Held)
  BY DEF ShiftInv
<1>3. WholeCodes(wire', Late)
  BY <1>1, <1>2, WholeLeft
<1>4. Leads(wire', Heard', Held)
  BY <1>1, <1>2, ReadOne
<1>5. Held' = Held
  BY DEF Held, user
<1> QED BY <1>3, <1>4, <1>5 DEF ShiftInv

\* An extended code is read.
LEMMA ReadsTwoBytes ==
  ASSUME ShiftInv, wire \in Seq(Byte), Extended(Byte), Reads(2), UNCHANGED user,
         Heard' = Heard, ShiftAgrees'
  PROVE  ShiftInv'
<1>1. /\ wire[1] = E0 /\ wire' = Left(wire, 2) /\ 2 \in 1 .. Len(wire) /\ Len(wire) >= 2
      /\ ~keyboardDisabled
  BY DEF Reads, Left, Extended, Interrupt, code
<1>2. WholeCodes(wire, Late) /\ Leads(wire, Heard, Held)
  BY <1>1 DEF ShiftInv
<1>3. WholeCodes(wire', Late)
  BY <1>1, <1>2, WholeLeft
<1>4. Leads(wire', Heard, Held)
  BY <1>1, <1>2, ReadTwo
<1>5. Held' = Held
  BY DEF Held, user
<1> QED BY <1>3, <1>4, <1>5 DEF ShiftInv

\* Every interrupt goes one step along the path, or drops a code that is none of theirs.
LEMMA HandlerFollows ==
  ASSUME IInv, ShiftInv, Handler PROVE ShiftInv'
<1>1. wire \in Seq(Byte) /\ mods \in Modifiers /\ UNCHANGED user
  BY HandlerEffect DEF IInv, TypeOK
<1>2. ~keyboardDisabled => ShiftAgrees
  BY DEF ShiftInv
<1>3. mods' = mods => Heard' = Heard /\ (ShiftAgrees => ShiftAgrees')
  BY DEF Heard, ShiftAgrees
<1>4. CASE HandleDisabled
  BY <1>4 DEF HandleDisabled, driver, ShiftInv
<1>5. ASSUME HandleError \/ HandleKey \/ HandleIgnored PROVE ShiftInv'
  <2>1. /\ wire # <<>> /\ ~keyboardDisabled /\ Reads(1) /\ mods' = mods
        /\ code \notin ShiftCodes /\ code # E0
    <3>1. CASE HandleError
      BY <3>1 DEF HandleError, Interrupt, ShiftCodes, E0
    <3>2. CASE HandleKey
      BY <3>2 DEF HandleKey, Interrupt, ShiftCodes, E0, KeyCodes, PlainKeys, ShiftKeys, NumKeys
    <3>3. CASE HandleIgnored
      BY <3>3 DEF HandleIgnored, Interrupt, ShiftCodes, E0, ModCodes
    <3> QED BY <1>5, <3>1, <3>2, <3>3
  <2>2. Pressed(Heard, code) = Heard
    BY <2>1, OtherCode
  <2> QED BY <1>1, <1>2, <1>3, <2>1, <2>2, ReadsOneByte
<1>6. CASE HandleModifier
  <2>1. /\ wire # <<>> /\ ~keyboardDisabled /\ Reads(1) /\ code \in ModCodes
        /\ mods' = Modified(mods, code)
    BY <1>6 DEF HandleModifier, Interrupt
  <2>2. code # E0
    BY <2>1 DEF ModCodes, E0
  <2>3. Turned(mods', code)
    BY <1>1, <2>1, ModifiedTurns
  <2>4. Heard' = Pressed(Heard, code) /\ ShiftAgrees'
    BY <1>2, <2>1, <2>3 DEF Turned, Heard, ShiftAgrees
  <2> QED BY <1>1, <2>1, <2>2, <2>4, ReadsOneByte
<1>7. ASSUME HandleExtKey \/ HandlePause \/ HandleExtIgnored PROVE ShiftInv'
  <2>1. Extended(Byte) /\ Reads(2) /\ mods' = mods
    BY <1>7 DEF HandleExtKey, HandlePause, HandleExtIgnored, Extended, ExtKeys, Byte, driver
  <2>2. ~keyboardDisabled
    BY <2>1 DEF Extended, Interrupt
  <2> QED BY <1>1, <1>2, <1>3, <2>1, <2>2, ReadsTwoBytes
<1>8. ASSUME HandleExtModifier \/ HandleRightCtrl PROVE ShiftInv'
  <2>1. Extended(Byte) /\ Reads(2)
    BY <1>8 DEF HandleExtModifier, HandleRightCtrl, Extended, ExtMods, Byte
  <2>3. \/ \E c \in ExtMods : mods' = ExtModified(mods, c)
        \/ mods' = setCtrl([mods EXCEPT !.ctrlRight = TRUE])
    BY <1>8 DEF HandleExtModifier, HandleRightCtrl, Extended
  <2>4. SameShift(mods', mods)
    BY <1>1, <2>3, ExtModifiedKeeps
  <2>5. ~keyboardDisabled
    BY <2>1 DEF Extended, Interrupt
  <2>6. Heard' = Heard /\ ShiftAgrees'
    BY <1>2, <2>4, <2>5 DEF SameShift, Heard, ShiftAgrees
  <2> QED BY <1>1, <2>1, <2>6, ReadsTwoBytes
<1>9. CASE HandleSplit
  <2>1. /\ wire # <<>> /\ ~keyboardDisabled /\ Reads(1) /\ code = E0 /\ mods' = mods
        /\ Len(wire) = 1 \/ Late
    BY <1>9 DEF HandleSplit, Interrupt, driver
  <2>2. Late
    <3>1. WholeCodes(wire, Late) /\ wire[1] = E0 /\ 1 \in 1 .. Len(wire)
      BY <1>1, <2>1 DEF ShiftInv, code
    <3>2. 1 < Len(wire)
      BY <3>1 DEF WholeCodes
    <3>3. Len(wire) # 1
      <4>1. ~(1 < 1)
        OBVIOUS
      <4> QED BY Zenon, <3>2, <4>1
    <3> QED BY Zenon, <2>1, <3>3
  <2>3. Pressed(Heard, code) = Heard
    BY <2>1, OtherCode DEF E0, ShiftCodes
  <2> QED BY <1>1, <1>2, <1>3, <2>1, <2>2, <2>3, ReadsOneByte
<1> QED BY <1>4, <1>5, <1>6, <1>7, <1>8, <1>9 DEF Handler

\* A key pressed, repeated or released lengthens the path by what it is to the user.
LEMMA TypingFollows ==
  ASSUME IInv, ShiftInv, Layout(PhysKeys, Late), NEW k \in PhysKeys,
         Press(k) \/ Repeat(k) \/ Release(k)
  PROVE  ShiftInv'
<1>1. /\ Make[k] \in Seq(Byte) /\ Break[k] \in Seq(Byte) /\ Typematic[k] \in Seq(Byte)
      /\ WholeCodes(Make[k], Late) /\ WholeCodes(Break[k], Late)
      /\ WholeCodes(Typematic[k], Late)
  BY KbdAssumption DEF Layout
<1>2. /\ k = "lshift" => Make[k] = <<\h2A>> /\ Break[k] = <<\hAA>>
      /\ k = "rshift" => Make[k] = <<\h36>> /\ Break[k] = <<\hB6>>
      /\ k = "caps" => Make[k] = <<\h3A>> /\ Silent(Break[k])
      /\ k \in Toggles => Typematic[k] = Make[k]
      /\ k \notin Toggles => Silent(Make[k]) /\ Silent(Break[k]) /\ Silent(Typematic[k])
  BY DEF Layout, Toggles
<1>3. capsOn \in BOOLEAN /\ wire \in Seq(Byte)
  BY DEF IInv, TypeOK
<1>4. CASE Press(k)
  <2>1. wire' = wire \o Make[k] /\ down' = down \cup {k}
        /\ capsOn' = (IF k = "caps" THEN ~capsOn ELSE capsOn)
        /\ keyboardDisabled' = keyboardDisabled /\ mods' = mods
    BY <1>4 DEF Press, driver
  <2>2. Leads(Make[k], Held, Held')
    <3>1. CASE k = "lshift"
      <4>1. Held' = Pressed(Held, \h2A)
        BY <2>1, <3>1, TheirCodes DEF Held, Toggles
      <4> QED BY <1>2, <3>1, <4>1, OneCode
    <3>2. CASE k = "rshift"
      <4>1. Held' = Pressed(Held, \h36)
        BY <2>1, <3>2, TheirCodes DEF Held, Toggles
      <4> QED BY <1>2, <3>2, <4>1, OneCode
    <3>3. CASE k = "caps"
      <4>1. (capsOn' <=> ~capsOn) /\ ("lshift" \in down' <=> "lshift" \in down)
            /\ ("rshift" \in down' <=> "rshift" \in down)
        <5>1. capsOn' = ~capsOn
          BY <2>1, <3>3
        <5> QED BY <2>1, <3>3, <5>1
      <4>2. Held' = Pressed(Held, \h3A)
        BY <4>1, TheirCodes DEF Held, Toggles
      <4> QED BY <1>2, <3>3, <4>2, OneCode
    <3>4. CASE k \notin Toggles
      <4>1. Held' = Held
        BY <2>1, <3>4 DEF Held, Toggles
      <4> QED BY <1>1, <1>2, <3>4, <4>1, SilentCodes
    <3> QED BY <3>1, <3>2, <3>3, <3>4 DEF Toggles
  <2>3. Heard' = Heard /\ (ShiftAgrees => ShiftAgrees')
    BY <2>1 DEF Heard, ShiftAgrees
  <2> QED BY <1>1, <1>3, <2>1, <2>2, <2>3, Sent, WholeSent DEF ShiftInv
<1>5. CASE Release(k)
  <2>1. wire' = wire \o Break[k] /\ down' = down \ {k} /\ capsOn' = capsOn
        /\ keyboardDisabled' = keyboardDisabled /\ mods' = mods
    BY <1>5 DEF Release, driver
  <2>2. Leads(Break[k], Held, Held')
    <3>1. CASE k = "lshift"
      <4>1. Held' = Pressed(Held, \hAA)
        BY <2>1, <3>1, TheirCodes DEF Held, Toggles
      <4> QED BY <1>2, <3>1, <4>1, OneCode
    <3>2. CASE k = "rshift"
      <4>1. Held' = Pressed(Held, \hB6)
        BY <2>1, <3>2, TheirCodes DEF Held, Toggles
      <4> QED BY <1>2, <3>2, <4>1, OneCode
    <3>3. CASE k \notin {"lshift", "rshift"}
      <4>1. Held' = Held
        BY <2>1, <3>3 DEF Held, Toggles
      <4>2. Silent(Break[k])
        BY <1>2, <3>3 DEF Toggles
      <4> QED BY <1>1, <4>1, <4>2, SilentCodes
    <3> QED BY <3>1, <3>2, <3>3
  <2>3. Heard' = Heard /\ (ShiftAgrees => ShiftAgrees')
    BY <2>1 DEF Heard, ShiftAgrees
  <2> QED BY <1>1, <1>3, <2>1, <2>2, <2>3, Sent, WholeSent DEF ShiftInv
<1>6. CASE Repeat(k)
  <2>1. wire' = wire \o Typematic[k] /\ down' = down /\ k \in down
        /\ capsOn' = (IF k = "caps" THEN ~capsOn ELSE capsOn)
        /\ keyboardDisabled' = keyboardDisabled /\ mods' = mods
    BY <1>6 DEF Repeat, driver
  <2>2. Leads(Typematic[k], Held, Held')
    <3>1. CASE k = "lshift"
      <4>1. Held' = Pressed(Held, \h2A)
        BY <2>1, <3>1, TheirCodes DEF Held, Toggles
      <4>2. Typematic[k] = <<\h2A>>
        BY <1>2, <3>1 DEF Toggles
      <4> QED BY <4>1, <4>2, OneCode
    <3>2. CASE k = "rshift"
      <4>1. Held' = Pressed(Held, \h36)
        BY <2>1, <3>2, TheirCodes DEF Held, Toggles
      <4>2. Typematic[k] = <<\h36>>
        BY <1>2, <3>2 DEF Toggles
      <4> QED BY <4>1, <4>2, OneCode
    <3>3. CASE k = "caps"
      <4>1. (capsOn' <=> ~capsOn) /\ ("lshift" \in down' <=> "lshift" \in down)
            /\ ("rshift" \in down' <=> "rshift" \in down)
        <5>1. capsOn' = ~capsOn
          BY <2>1, <3>3
        <5> QED BY <2>1, <5>1
      <4>2. Held' = Pressed(Held, \h3A)
        BY <4>1, TheirCodes DEF Held, Toggles
      <4>3. Typematic[k] = <<\h3A>>
        BY <1>2, <3>3 DEF Toggles
      <4> QED BY <4>2, <4>3, OneCode
    <3>4. CASE k \notin Toggles
      <4>1. Held' = Held
        BY <2>1, <3>4 DEF Held, Toggles
      <4> QED BY <1>1, <1>2, <3>4, <4>1, SilentCodes
    <3> QED BY <3>1, <3>2, <3>3, <3>4 DEF Toggles
  <2>3. Heard' = Heard /\ (ShiftAgrees => ShiftAgrees')
    BY <2>1 DEF Heard, ShiftAgrees
  <2> QED BY <1>1, <1>3, <2>1, <2>2, <2>3, Sent, WholeSent DEF ShiftInv
<1> QED BY <1>4, <1>5, <1>6

\* On every keyboard where the shift keys and caps lock, and no other key, send their
\* codes, and no late byte is one of them, shift is what the user holds, turned round
\* as often as caps lock was sent, once the wire is empty: no other key, no order, no
\* repeat of a held key and no interrupt gets in between.
THEOREM ShiftAlwaysFollows ==
  ASSUME Layout(PhysKeys, Late) PROVE Spec => []ShiftFollowsKeys
<1>1. Init => ShiftInv
  <2> SUFFICES ASSUME Init PROVE ShiftInv
    OBVIOUS
  <2>1. Heard = {} /\ Held = {} /\ wire = <<>> /\ ShiftAgrees
    BY DEF Init, InitAt, Heard, Held, Toggles, ShiftAgrees
  <2>2. WholeCodes(wire, Late)
    BY <2>1 DEF WholeCodes
  <2> QED BY <2>1, <2>2, NoCodes DEF ShiftInv
<1>2. IInv /\ ShiftInv /\ [Next]_vars => ShiftInv'
  <2> SUFFICES ASSUME IInv, ShiftInv, [Next]_vars PROVE ShiftInv'
    OBVIOUS
  <2>1. CASE Handler
    BY <2>1, HandlerFollows
  <2>2. ASSUME NEW k \in PhysKeys, Press(k) \/ Repeat(k) \/ Release(k) PROVE ShiftInv'
    BY <2>2, TypingFollows
  <2>3. CASE kbdGetKey \/ Again \/ UNCHANGED vars
    <3>1. UNCHANGED <<user, wire, driver>>
      BY <2>3 DEF kbdGetKey, GetKeyCheck, GetKeyRead, GetKeyRoll, Again, vars
    <3> QED BY <3>1 DEF user, driver, ShiftInv, Heard, Held, ShiftAgrees
  <2> QED BY <2>1, <2>2, <2>3 DEF Next
<1>3. IInv /\ ShiftInv => ShiftFollowsKeys
  <2> SUFFICES ASSUME IInv, ShiftInv, wire = <<>>, ~keyboardDisabled
               PROVE  mods.shift = (({"lshift", "rshift"} \cap down # {}) # capsOn)
    BY DEF ShiftFollowsKeys
  <2>1. Heard = Held /\ ShiftAgrees
    BY NoCodes DEF ShiftInv
  <2>2. /\ "lshift" \in Heard <=> mods.shiftLeft
        /\ "rshift" \in Heard <=> mods.shiftRight
        /\ "caps" \in Heard <=> mods.capsLock
    BY DEF Heard, Toggles
  <2>3. /\ "lshift" \in Held <=> "lshift" \in down
        /\ "rshift" \in Held <=> "rshift" \in down
        /\ "caps" \in Held <=> capsOn
    BY DEF Held, Toggles
  <2>4. mods.shift \in BOOLEAN /\ capsOn \in BOOLEAN
    BY DEF IInv, TypeOK, Modifiers
  <2>5. mods.shift <=> ~((("lshift" \in down) \/ ("rshift" \in down)) <=> capsOn)
    BY <2>1, <2>2, <2>3 DEF ShiftAgrees
  <2>6. {"lshift", "rshift"} \cap down # {} <=> ("lshift" \in down) \/ ("rshift" \in down)
    OBVIOUS
  <2> QED BY <2>4, <2>5, <2>6, Zenon
<1>4. QED BY <1>1, <1>2, <1>3, Invariance, PTL DEF Spec

-----------------------------------------------------------------------------
(* Line input.                                                             *)

(* Between the wait and the edit there is a key: queued, then taken, then  *)
(* read.                                                                   *)
KeyAtHand ==
  /\ pc = "get" => ~NothingQueued
  /\ pc \in {"roll", "got"} => key \in Entries

(* The characters of the line are characters, so its first NUL is where    *)
(* the line ends.                                                          *)
LineOK == pc \notin {"prompt", "exited"} => \A i \in 0 .. cmdidx - 1 : buffer[i] \in Chars

ReturnedOK ==
  /\ result.count \in Places
  /\ pc = "prompt" /\ result.how \in {"enter", "full"} =>
       /\ buffer[result.count] = NUL
       /\ \A i \in 0 .. result.count - 1 : buffer[i] \in Chars

LInv == IInv /\ ITypeOK /\ KeyAtHand /\ RoomForNext /\ LineOK /\ ReturnedOK

\* The static data and whatever the caller's buffer holds satisfy the invariant.
LEMMA LInit == IInit => LInv
<1>1. BuffLen \in Nat /\ BuffLen >= 3
  BY KbdInputAssumption
<1> SUFFICES ASSUME IInit PROVE LInv
  OBVIOUS
<1>2. IInv /\ pc = "prompt"
  BY InitOK DEF IInit, InitAt
<1>3. /\ buffer \in [Places -> Chars \cup {NUL}]
      /\ cmdidx = 0 /\ result = [how |-> "none", count |-> 0]
  BY KbdInputAssumption DEF IInit, Places
<1>4. ITypeOK
  BY <1>1, <1>2, <1>3 DEF ITypeOK, IInv, Places
<1>5. QED
  BY <1>1, <1>2, <1>3, <1>4 DEF LInv, KeyAtHand, RoomForNext, LineOK, ReturnedOK, Places

(* Steps of the user and of the interrupt handler leave the line alone.    *)
LEMMA OthersPreserve ==
  ASSUME LInv, UNCHANGED line, Typing \/ Handler
  PROVE  LInv'
<1>1. IInv' /\ UNCHANGED reader /\ (~NothingQueued => ~NothingQueued')
  <2>1. CASE Typing
    <3>1. PICK k \in PhysKeys : Press(k) \/ Repeat(k) \/ Release(k)
      BY <2>1 DEF Typing
    <3>2. IInv'
      BY <3>1, TypingPreserves DEF LInv
    <3>3. QED  BY <3>1, <3>2 DEF Press, Repeat, Release, NothingQueued, Rolled, driver, reader
  <2>2. CASE Handler
    <3>1. IInv' /\ UNCHANGED reader /\ RingStep
      BY <2>2, HandlerEffect, HandlerPreserves DEF LInv
    <3>2. QED  BY <3>1 DEF RingStep, NothingQueued, Rolled, reader, ring
  <2>3. QED  BY <2>1, <2>2
<1>2. ITypeOK'
  BY <1>1 DEF LInv, ITypeOK, IInv, line, reader
<1>3. QED
  BY <1>1, <1>2 DEF LInv, KeyAtHand, RoomForNext, HasRoom, LineOK, ReturnedOK, line, reader

(* Waiting and taking a key.                                               *)
LEMMA GettingPreserves ==
  ASSUME LInv, Wait \/ GetKey
  PROVE  LInv'
<1>1. CASE Wait
  <2>1. /\ UNCHANGED <<rest, line>> /\ pc' = "get" /\ ~kbdBufferEmpty
        /\ pc \in {"wait", "got"}
    BY <1>1 DEF Wait
  <2>2. kbdTail # KBD_BUFFER_SIZE
    BY <2>1 DEF LInv, IInv, RingOK
  <2>3. ~NothingQueued
    <3>1. kbdTail \in 0 .. KBD_BUFFER_SIZE /\ KBD_BUFFER_SIZE \in Nat
      BY KbdAssumption DEF LInv, IInv, TypeOK
    <3>2. QED  BY <2>1, <2>2, <3>1 DEF kbdBufferEmpty, NothingQueued, Rolled
  <2>4. IInv'
    BY <2>1, <2>2
    DEF LInv, IInv, TypeOK, RingOK, DisabledByErrors, NothingQueued, Rolled, rest,
        user, driver
  <2>5. ITypeOK'
    BY <2>1, <2>4 DEF LInv, ITypeOK, IInv, line
  <2>6. QED
    BY <2>1, <2>3, <2>4, <2>5
    DEF LInv, KeyAtHand, RoomForNext, HasRoom, LineOK, ReturnedOK, NothingQueued, Rolled,
        rest, line, driver
<1>2. CASE GetKey
  <2>1. kbdGetKey /\ UNCHANGED line
    BY <1>2 DEF GetKey
  <2>2. IInv' /\ pc \in {"get", "read", "roll"} /\ pc' \in {"read", "roll", "got"}
    BY <2>1, GetKeyPreserves DEF LInv
  <2>3. ITypeOK'
    BY <2>1, <2>2 DEF LInv, ITypeOK, IInv, line
  <2>4. KeyAtHand'
    <3>1. CASE GetKeyCheck
      <4>1. kbdTail # KBD_BUFFER_SIZE /\ ~NothingQueued
        BY <3>1 DEF GetKeyCheck, LInv, IInv, RingOK, KeyAtHand
      <4>2. kbdTail \in 0 .. KBD_BUFFER_SIZE /\ KBD_BUFFER_SIZE \in Nat
        BY KbdAssumption DEF LInv, IInv, TypeOK
      <4>3. ~kbdBufferEmpty
        BY <4>1, <4>2 DEF kbdBufferEmpty, NothingQueued, Rolled
      <4>4. QED  BY <3>1, <4>3 DEF GetKeyCheck, KeyAtHand
    <3>2. CASE GetKeyRead
      BY <3>2 DEF GetKeyRead, LInv, IInv, RingOK, KeyAtHand
    <3>3. CASE GetKeyRoll
      BY <3>3 DEF GetKeyRoll, LInv, KeyAtHand
    <3>4. QED  BY <2>1, <3>1, <3>2, <3>3 DEF kbdGetKey
  <2>5. QED
    BY <2>1, <2>2, <2>3, <2>4
    DEF LInv, RoomForNext, HasRoom, LineOK, ReturnedOK, line
<1>3. QED  BY <1>1, <1>2

(* Steps of the main thread between two keys leave the driver alone.       *)
LEMMA IdlePreserves ==
  ASSUME LInv, UNCHANGED rest, pc \in {"got", "prompt"}, pc' \in {"wait", "prompt", "exited"}
  PROVE  IInv' /\ KeyAtHand'
<1>1. /\ kbdTail # KBD_BUFFER_SIZE
  BY DEF LInv, IInv, RingOK
<1>2. QED
  BY <1>1
  DEF LInv, IInv, TypeOK, RingOK, DisabledByErrors, KeyAtHand, NothingQueued, Rolled,
      rest, user, driver

\* One step of editing keeps the line within its buffer.
LEMMA EditPreserves ==
  ASSUME LInv, Call \/ Leave \/ Edit
  PROVE  LInv'
<1>1. /\ BuffLen \in Nat /\ BuffLen >= 3 /\ NUL \notin Chars
      /\ buffer \in [Places -> Chars \cup {NUL}] /\ cmdidx \in 0 .. BuffLen - 1
      /\ Places = 0 .. BuffLen - 1
  BY KbdInputAssumption DEF LInv, ITypeOK, Places
<1>2. IInv' /\ KeyAtHand'
  <2>1. UNCHANGED rest /\ pc \in {"got", "prompt"} /\ pc' \in {"wait", "prompt", "exited"}
    BY DEF Call, Leave, Edit, EditEnter, EditEsc, EditBackspace, EditChar, Terminated
  <2>2. QED  BY <2>1, IdlePreserves
<1>3. SUFFICES /\ buffer' \in [Places -> Chars \cup {NUL}] /\ cmdidx' \in Places
               /\ pc' \in {"wait", "prompt", "exited"}
               /\ RoomForNext' /\ LineOK' /\ ReturnedOK'
  BY <1>2 DEF LInv, ITypeOK, IInv
<1>4. CASE Call
  BY <1>1, <1>4 DEF Call, LInv, RoomForNext, HasRoom, LineOK, ReturnedOK
<1>5. CASE EditEnter
  <2>1. /\ pc = "got" /\ pc' = "prompt" /\ cmdidx' = cmdidx
        /\ buffer' = [buffer EXCEPT ![cmdidx] = NUL]
        /\ result' = [how |-> "enter", count |-> cmdidx]
    BY <1>5 DEF EditEnter, Terminated
  <2>2. \A i \in 0 .. cmdidx - 1 : buffer[i] \in Chars
    BY <2>1 DEF LInv, LineOK
  <2>3. QED  BY <1>1, <2>1, <2>2 DEF RoomForNext, LineOK, ReturnedOK
<1>6. CASE EditEsc
  <2>1. /\ pc = "got" /\ pc' = "prompt" /\ cmdidx' = cmdidx
        /\ buffer' = [buffer EXCEPT ![0] = NUL]
        /\ result' = [how |-> "esc", count |-> cmdidx]
    BY <1>6 DEF EditEsc
  <2>2. QED  BY <1>1, <2>1 DEF RoomForNext, LineOK, ReturnedOK
<1>7. CASE EditBackspace
  <2>1. /\ pc = "got" /\ pc' = "wait" /\ result' = result
        /\ HasRoom(cmdidx)
        /\ \A i \in 0 .. cmdidx - 1 : buffer[i] \in Chars
    BY <1>7 DEF EditBackspace, LInv, RoomForNext, LineOK
  <2>2. CASE cmdidx > 0
    <3>1. cmdidx' = cmdidx - 1 /\ buffer' = [buffer EXCEPT ![cmdidx - 1] = NUL]
      BY <1>7, <2>2 DEF EditBackspace
    <3>2. QED
      BY <1>1, <2>1, <2>2, <3>1 DEF LInv, RoomForNext, HasRoom, LineOK, ReturnedOK
  <2>3. CASE ~(cmdidx > 0)
    BY <1>1, <1>7, <2>1, <2>3
    DEF EditBackspace, LInv, RoomForNext, HasRoom, LineOK, ReturnedOK
  <2>4. QED  BY <2>2, <2>3
<1>8. CASE EditChar
  <2> DEFINE stored == [buffer EXCEPT ![cmdidx] = key.key]
  <2>1. /\ pc = "got" /\ HasRoom(cmdidx)
        /\ \A i \in 0 .. cmdidx - 1 : buffer[i] \in Chars
        /\ result.count \in Places
    BY <1>8 DEF EditChar, LInv, RoomForNext, LineOK, ReturnedOK
  <2>2. key.key \in Chars
    BY <2>1 DEF LInv, KeyAtHand, Entries, Chars
  <2>3. /\ stored \in [Places -> Chars \cup {NUL}]
        /\ \A i \in 0 .. cmdidx : stored[i] \in Chars
    BY <1>1, <2>1, <2>2
  <2>4. CASE HasRoom(cmdidx + 1)
    <3>1. /\ buffer' = stored /\ cmdidx' = cmdidx + 1 /\ pc' = "wait"
          /\ result' = result
      BY <1>8, <2>4 DEF EditChar
    <3>2. QED
      BY <1>1, <2>1, <2>3, <2>4, <3>1 DEF RoomForNext, HasRoom, LineOK, ReturnedOK
  <2>5. CASE ~HasRoom(cmdidx + 1)
    <3>1. /\ buffer' = [stored EXCEPT ![cmdidx + 1] = NUL] /\ cmdidx' = cmdidx + 1
          /\ pc' = "prompt" /\ result' = [how |-> "full", count |-> cmdidx + 1]
      BY <1>8, <2>5 DEF EditChar, Terminated
    <3>2. cmdidx + 1 \in Places
      BY <1>1, <2>1 DEF HasRoom
    <3>3. /\ buffer' \in [Places -> Chars \cup {NUL}] /\ buffer'[cmdidx + 1] = NUL
          /\ \A i \in 0 .. cmdidx : buffer'[i] = stored[i]
      BY <1>1, <2>3, <3>1, <3>2
    <3>4. QED
      BY <1>1, <2>3, <3>1, <3>2, <3>3 DEF RoomForNext, LineOK, ReturnedOK
  <2>6. QED  BY <2>4, <2>5
<1>9. CASE Leave
  BY <1>1, <1>9 DEF Leave, line, LInv, RoomForNext, LineOK, ReturnedOK
<1>10. QED  BY <1>4, <1>5, <1>6, <1>7, <1>8, <1>9 DEF Edit

\* The inductive invariant of line input holds in every state of kbdInput.
THEOREM LineInvariance == ISpec => []LInv
<1>1. LInv /\ [INext]_ivars => LInv'
  <2> SUFFICES ASSUME LInv, [INext]_ivars PROVE LInv'
    OBVIOUS
  <2>1. CASE (Typing \/ Handler) /\ UNCHANGED line
    BY <2>1, OthersPreserve
  <2>2. CASE Wait \/ GetKey
    BY <2>2, GettingPreserves
  <2>3. CASE Call \/ Leave \/ Edit
    BY <2>3, EditPreserves
  <2>4. CASE UNCHANGED ivars
    BY <2>4
    DEF ivars, vars, user, driver, reader, line, LInv, IInv, TypeOK, RingOK,
        DisabledByErrors, ITypeOK, KeyAtHand, RoomForNext, HasRoom, LineOK, ReturnedOK,
        NothingQueued, Rolled
  <2>5. QED  BY <2>1, <2>2, <2>3, <2>4 DEF INext, Main
<1>2. QED  BY LInit, <1>1, PTL DEF ISpec

\* The state of line input keeps its types; buffer[] is indexed within bounds.
THEOREM LineTypeCorrect == ISpec => []ITypeOK
BY LineInvariance, PTL DEF LInv

\* kbdGetKey, called after the busy wait of kbdInput, always returns a key: the
\* handler only adds keys, so the key the wait saw is still there.
THEOREM KeyAfterWait == ISpec => []NeverToldEmpty
<1>1. LInv => NeverToldEmpty
  BY KbdAssumption DEF LInv, KeyAtHand, NeverToldEmpty
<1>2. QED  BY <1>1, LineInvariance, PTL

\* While kbdInput runs there is room for a character and the terminator after
\* it, for every bufflen from 3 up.
THEOREM AlwaysRoom == ISpec => []RoomForNext
BY LineInvariance, PTL DEF LInv

\* A call ended by enter or by a full buffer leaves a string of exactly the
\* returned length in the buffer.
THEOREM ReturnsString == ISpec => []StringReturned
<1>1. LInv => StringReturned
  BY KbdInputAssumption DEF LInv, ReturnedOK, StringReturned
<1>2. QED  BY <1>1, LineInvariance, PTL

-----------------------------------------------------------------------------
(* The line editor.                                                        *)

\* The line of a call in progress, character by character.
LEMMA TextOf ==
  ASSUME LInv, pc \notin {"prompt", "exited"}
  PROVE  /\ LineText \in Seq(Chars) /\ Len(LineText) = cmdidx
         /\ \A i \in 1 .. cmdidx : LineText[i] = buffer[i - 1]
         /\ cmdidx \in Nat /\ cmdidx < BuffLen - 2
<1>1. cmdidx \in Nat /\ BuffLen \in Nat /\ \A i \in 0 .. cmdidx - 1 : buffer[i] \in Chars
  BY KbdInputAssumption DEF LInv, ITypeOK, Places, LineOK
<1>2. cmdidx < BuffLen - 2
  <2>1. pc \in {"wait", "get", "read", "roll", "got"}
    BY DEF LInv, ITypeOK
  <2> QED BY <2>1 DEF LInv, RoomForNext, HasRoom
<1>3. LineText = [i \in 1 .. cmdidx |-> buffer[i - 1]]
  BY DEF LineText
<1>4. \A i \in 1 .. cmdidx : buffer[i - 1] \in Chars
  BY <1>1
<1>5. LineText \in [1 .. cmdidx -> Chars]
  BY <1>3, <1>4
<1> QED BY <1>1, <1>2, <1>3, <1>5

\* Steps of the user, of the handler and of the reader leave the line alone.
LEMMA TextKept ==
  ASSUME LInv,
         (UNCHANGED line /\ (Typing \/ Handler)) \/ Wait \/ GetKey \/ UNCHANGED ivars
  PROVE  LineText' = LineText
<1>1. CASE UNCHANGED line /\ (Typing \/ Handler)
  <2>1. ASSUME Typing PROVE UNCHANGED reader
    BY <2>1 DEF Typing, Press, Repeat, Release
  <2>2. ASSUME Handler PROVE UNCHANGED reader
    BY <2>2, HandlerEffect DEF LInv
  <2> QED BY <1>1, <2>1, <2>2 DEF reader, line, LineText
<1>2. CASE Wait
  BY <1>2 DEF Wait, line, LineText
<1>3. CASE GetKey
  BY <1>3 DEF GetKey, kbdGetKey, GetKeyCheck, GetKeyRead, GetKeyRoll, line, LineText
<1>4. CASE UNCHANGED ivars
  BY <1>4 DEF ivars, vars, reader, line, LineText
<1> QED BY <1>1, <1>2, <1>3, <1>4

\* Editing types one character, erases one, or starts afresh.
LEMMA EditorStep ==
  ASSUME LInv, Call \/ Leave \/ Edit
  PROVE  [Editor!Next]_LineText
<1> USE DEF Editor!Next
<1>0. BuffLen \in Nat /\ buffer \in [Places -> Chars \cup {NUL}] /\ Places = 0 .. BuffLen - 1
  BY KbdInputAssumption DEF LInv, ITypeOK, Places
<1>1. ASSUME pc' \in {"prompt", "exited"} PROVE Editor!Fresh
  BY <1>1 DEF Editor!Fresh, LineText
<1>2. CASE Call
  <2>1. pc = "prompt" /\ pc' = "wait" /\ cmdidx' = 0
    BY <1>2 DEF Call
  <2>2. LineText = <<>>
    BY <2>1 DEF LineText
  <2>3. LineText' = [i \in 1 .. 0 |-> buffer'[i - 1]]
    BY <2>1 DEF LineText
  <2>4. LineText' = <<>>
    BY <2>3
  <2> QED BY <2>4 DEF Editor!Fresh
<1>3. CASE EditEnter \/ EditEsc
  BY <1>1, <1>3 DEF EditEnter, EditEsc, Terminated
<1>4. CASE EditBackspace
  <2>1. pc = "got" /\ pc' = "wait"
    BY <1>4 DEF EditBackspace
  <2>2. /\ LineText \in Seq(Chars) /\ Len(LineText) = cmdidx /\ cmdidx \in Nat
        /\ \A i \in 1 .. cmdidx : LineText[i] = buffer[i - 1]
        /\ cmdidx < BuffLen - 2
    BY <2>1, TextOf
  <2>3. CASE cmdidx > 0
    <3>1. cmdidx' = cmdidx - 1 /\ buffer' = [buffer EXCEPT ![cmdidx - 1] = NUL]
      BY <1>4, <2>3 DEF EditBackspace
    <3>2. LineText' = [i \in 1 .. cmdidx - 1 |-> buffer'[i - 1]]
      BY <2>1, <3>1 DEF LineText
    <3>3. \A i \in 1 .. cmdidx - 1 : buffer'[i - 1] = LineText[i]
      BY <1>0, <2>2, <3>1
    <3>4. LineText' = [i \in 1 .. cmdidx - 1 |-> LineText[i]]
      BY <3>2, <3>3
    <3>5. SubSeq(LineText, 1, cmdidx - 1) = [i \in 1 .. cmdidx - 1 |-> LineText[i]]
      BY <2>2, <2>3
    <3>6. LineText # <<>>
      BY <2>2, <2>3
    <3> QED BY <2>2, <3>4, <3>5, <3>6 DEF Editor!Erase
  <2>4. CASE ~(cmdidx > 0)
    BY <1>4, <2>1, <2>4 DEF EditBackspace, LineText
  <2> QED BY <2>3, <2>4
<1>5. CASE EditChar
  <2>1. pc = "got"
    BY <1>5 DEF EditChar
  <2>2. /\ LineText \in Seq(Chars) /\ Len(LineText) = cmdidx /\ cmdidx \in Nat
        /\ \A i \in 1 .. cmdidx : LineText[i] = buffer[i - 1]
        /\ cmdidx < BuffLen - 2
    BY <2>1, TextOf
  <2>3. key.key \in Chars
    BY <2>1 DEF LInv, KeyAtHand, Entries, Chars
  <2>4. CASE HasRoom(cmdidx + 1)
    <3>1. /\ buffer' = [buffer EXCEPT ![cmdidx] = key.key] /\ cmdidx' = cmdidx + 1
          /\ pc' = "wait"
      BY <1>5, <2>4 DEF EditChar
    <3>2. LineText' = [i \in 1 .. cmdidx + 1 |-> buffer'[i - 1]]
      BY <3>1 DEF LineText
    <3>3. \A i \in 1 .. cmdidx + 1 :
            buffer'[i - 1] = IF i = cmdidx + 1 THEN key.key ELSE LineText[i]
      BY <1>0, <2>2, <3>1
    <3>4. LineText' = [i \in 1 .. cmdidx + 1 |-> IF i = cmdidx + 1 THEN key.key ELSE LineText[i]]
      BY <3>2, <3>3
    <3>5. Append(LineText, key.key)
            = [i \in 1 .. cmdidx + 1 |-> IF i = cmdidx + 1 THEN key.key ELSE LineText[i]]
      BY <2>2, <2>3
    <3> QED BY <2>2, <2>3, <3>4, <3>5 DEF Editor!Type
  <2>5. CASE ~HasRoom(cmdidx + 1)
    BY <1>1, <1>5, <2>5 DEF EditChar, Terminated
  <2> QED BY <2>4, <2>5
<1>6. CASE Leave
  BY <1>1, <1>6 DEF Leave
<1> QED BY <1>2, <1>3, <1>4, <1>5, <1>6 DEF Edit

\* The line in kbdInput's buffer is edited as the line editor says, for every length
\* of buffer and whatever is typed.
THEOREM ImplementsEditor == ISpec => RefinesEditor
<1>1. IInit => Editor!Init
  BY DEF IInit, InitAt, Editor!Init, LineText
<1>2. LInv /\ [INext]_ivars => [Editor!Next]_LineText
  BY TextKept, EditorStep DEF INext, Main
<1> QED BY <1>1, <1>2, LineInvariance, PTL DEF ISpec, RefinesEditor, Editor!Spec
=============================================================================
