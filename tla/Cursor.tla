------------------------------- MODULE Cursor -------------------------------
(***************************************************************************)
(* The text cursor, libtty/source/80x25cursor.c, as operators on a cursor  *)
(* [row, col].  Both fields are size_t: arithmetic is modulo Word.  A move *)
(* returns the new cursor and whether the screen must scroll; every caller *)
(* passes allowscroll as true.                                             *)
(***************************************************************************)
EXTENDS Integers

CONSTANTS
  Rows, Cols,   \* size of the screen (25, 80)
  Word          \* values of a size_t (2^32)

ASSUME CursorAssumption ==
  /\ Rows \in Nat \ {0} /\ Cols \in Nat \ {0}
  /\ Word \in Nat /\ Word > Rows /\ Word > Cols

Cursors == [row : 0 .. Word - 1, col : 0 .. Word - 1]

Inc(n) == (n + 1) % Word
Dec(n) == (n - 1) % Word

Validate(c) == c.row < Rows /\ c.col < Cols

Stays(c)   == [cur |-> c, scroll |-> FALSE]
Scrolls(c) == [cur |-> c, scroll |-> TRUE]

\* Fault: the cursor is moved without a look at where it is.
Down_Unchecked(c) ==
  IF Inc(c.row) = Rows THEN Scrolls(c) ELSE Stays([c EXCEPT !.row = Inc(@)])
Down(c) ==
  IF ~Validate(c) THEN Stays(c)
  ELSE IF Inc(c.row) = Rows THEN Scrolls(c)
  ELSE Stays([c EXCEPT !.row = Inc(@)])

Up(c) ==
  IF ~Validate(c) THEN Stays(c)
  ELSE IF c.row = 0 THEN Scrolls(c)
  ELSE Stays([c EXCEPT !.row = Dec(@)])

Right(c) ==
  IF ~Validate(c) THEN Stays(c)
  ELSE IF Inc(c.col) < Cols THEN Stays([c EXCEPT !.col = Inc(@)])
  ELSE Down([c EXCEPT !.col = 0])

Left(c) ==
  IF ~Validate(c) THEN Stays(c)
  ELSE IF c.col = 0 THEN Up([c EXCEPT !.col = Cols - 1])
  ELSE Stays([c EXCEPT !.col = Dec(@)])

BeginOfLine(c) == IF Validate(c) THEN [c EXCEPT !.col = 0] ELSE c

\* The place of a valid cursor in video memory, and back.
PosToLineal(c) == c.row * Cols + c.col
LinealToPos(n) ==
  IF n > Rows * Cols THEN [row |-> Rows, col |-> Cols]
                     ELSE [row |-> n \div Cols, col |-> n % Cols]
=============================================================================
