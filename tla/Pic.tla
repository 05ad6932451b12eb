--------------------------------- MODULE Pic ---------------------------------
(***************************************************************************)
(* The two 8259 interrupt controllers, as the code under src/ drives them: *)
(* bytes written to a command or a data port, the initialisation words in  *)
(* the order they arrive, the mask, the lines requested and the lines in   *)
(* service.  The controller is hardware: its rules are taken from how      *)
(* apic.c, apictimer.c and ps2kbd.c use it.  initAPIC is the code's.       *)
(***************************************************************************)
EXTENDS Integers, Sequences, SequencesExt

Chips == {1, 2}
AllLines == 0..7

\* The positions of the bits a byte has set.
Bit == <<1, 2, 4, 8, 16, 32, 64, 128>>
BitsOf(byte) == {i \in AllLines : (byte \div Bit[i + 1]) % 2 = 1}

And(x, y) == CHOOSE z \in 0..255 : BitsOf(z) = BitsOf(x) \cap BitsOf(y)

\* A controller: what the next write to its data port means ("mask" once it is
\* initialised), the vector of line 0, the mask, the lines requested and served.
PicType == [expects : {"base", "cascade", "mode", "mask"}, base : 0..255,
            mask : 0..255, irr : SUBSET AllLines, isr : SUBSET AllLines]

APIC_INIT == 17
APIC_END_OF_INTERRUPT == 32
APIC_MASK_ALL_PORTS == 255

Lowest(S) == CHOOSE l \in S : \A o \in S : l <= o

\* A byte at the command port: initialisation clears the mask and forgets the
\* requests; an end of interrupt ends the most urgent line in service.
CommandWrite(p, byte) ==
  CASE byte = APIC_INIT ->
         [p EXCEPT !.expects = "base", !.mask = 0, !.irr = {}, !.isr = {}]
    [] byte = APIC_END_OF_INTERRUPT /\ p.isr # {} -> [p EXCEPT !.isr = @ \ {Lowest(@)}]
    [] OTHER -> p

DataWrite(p, byte) ==
  CASE p.expects = "base"    -> [p EXCEPT !.base = byte, !.expects = "cascade"]
    [] p.expects = "cascade" -> [p EXCEPT !.expects = "mode"]
    [] p.expects = "mode"    -> [p EXCEPT !.expects = "mask"]
    [] p.expects = "mask"    -> [p EXCEPT !.mask = byte]

\* putPortByte for a controller's ports.
Command(pics, c, b) == [pics EXCEPT ![c] = CommandWrite(@, b)]
Data(pics, c, b) == [pics EXCEPT ![c] = DataWrite(@, b)]

\* The lines a controller may pass to the processor: requested, not masked, and
\* more urgent than any in service.
Offered(p) ==
  {l \in p.irr \ BitsOf(p.mask) : \A s \in p.isr : l < s}

Acknowledge(p, l) == [p EXCEPT !.irr = @ \ {l}, !.isr = @ \cup {l}]

\* The third byte for the first controller is meant as a mask, and is taken for
\* its cascade lines; the last for the second controller is taken for its
\* cascade identity, and its mode never comes.
initAPIC(pics) ==
  LET started == Command(Command(pics, 1, APIC_INIT), 2, APIC_INIT)
      based == Data(Data(started, 1, 32), 2, 40)
      masked == Data(based, 1, APIC_MASK_ALL_PORTS)
  IN  Data(Data(masked, 1, 1), 2, 1)
=============================================================================
