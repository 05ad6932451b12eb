------------------------------- MODULE Screen -------------------------------
(***************************************************************************)
(* What is on the screen: libtty/source/vga.c and tty.c, and the echo of   *)
(* kbd.c, while no interrupt handler prints (Console is about those).      *)
(* The screen is one value [mem, cur, ok]: video memory, the cursor, and   *)
(* what the last call returned.  Colours are left out.                     *)
(***************************************************************************)
EXTENDS Cursor, Sequences

CONSTANTS
  Glyphs, Blank,    \* characters with a picture, and ' ' among them
  MaxLine           \* characters of a line of input (bufflen - 2)

ASSUME ScreenAssumption ==
  /\ Blank \in Glyphs /\ "\n" \notin Glyphs /\ "\r" \notin Glyphs
  /\ MaxLine \in Nat \ {0}
  /\ Cols > 1         \* else the space that erases would end the line

VARIABLES
  vgaMemory,        \* [0 .. Rows*Cols-1 -> Glyphs]
  cursorPosition,
  typed             \* characters of the line kbdInput is reading (cmdidx)

svars == <<vgaMemory, cursorPosition, typed>>

LF == "\n"
CR == "\r"
Cells == 0 .. Rows * Cols - 1
RowOf(i) == i \div Cols

-----------------------------------------------------------------------------
(* vga.c: rows of video memory.                                            *)

vgaClearRow(m, row) == [i \in Cells |-> IF RowOf(i) = row THEN Blank ELSE m[i]]

vgaScrollRowUp(m, row) ==
  IF row = 0 THEN vgaClearRow(m, 0)
  ELSE vgaClearRow([i \in Cells |-> IF RowOf(i) = row - 1 THEN m[i + Cols] ELSE m[i]], row)

\* Fault: the rows are scrolled from the last to the first.
ScrollRows_Backwards(m, from) ==
  LET f[r \in from .. Rows] == IF r = Rows THEN m ELSE vgaScrollRowUp(f[r + 1], r)
  IN  f[from]
\* The loop over rows from .. Rows-1 of vgaScrollAll and ttyScrollUpFrom.
ScrollRows(m, from) ==
  LET f[r \in from .. Rows] == IF r = from THEN m ELSE vgaScrollRowUp(f[r - 1], r - 1)
  IN  f[Rows]

-----------------------------------------------------------------------------
(* tty.c                                                                   *)

ttyScrollUpFrom(m, row) ==
  IF row = Rows - 1 THEN vgaClearRow(m, row) ELSE ScrollRows(m, row)

\* Right, and down if that asks for a scroll: at the end of the last line the
\* cursor is told to go down twice, and stays both times.
Advance(c) == IF Right(c).scroll THEN Down(Right(c).cur) ELSE Right(c)

Scrolled(m, move) == IF move.scroll THEN ttyScrollUpFrom(m, 0) ELSE m

ttyPutChar(s, ch) ==
  CASE ch = LF ->
         [mem |-> Scrolled(s.mem, Down(s.cur)), cur |-> Down(s.cur).cur, ok |-> TRUE]
    [] ch = CR -> [s EXCEPT !.cur = BeginOfLine(@), !.ok = Validate(s.cur)]
    [] ch \in Glyphs ->
         IF ~Validate(s.cur) THEN [s EXCEPT !.ok = FALSE]
         ELSE [mem |-> Scrolled([s.mem EXCEPT ![PosToLineal(s.cur)] = ch], Advance(s.cur)),
               cur |-> Advance(s.cur).cur, ok |-> TRUE]

\* ttyWrite: stops at the first character that is refused.
ttyWrite(s, data) ==
  LET f[n \in 0 .. Len(data)] ==
        IF n = 0 THEN s ELSE IF f[n - 1].ok THEN ttyPutChar(f[n - 1], data[n]) ELSE f[n - 1]
  IN  f[Len(data)]

\* kbd.c: step left, print a space, step left again; not past column 0.
StepLeft(s) == IF s.cur.col # 0 THEN [s EXCEPT !.cur.col = Dec(@)] ELSE s
\* Fault: the cursor is left after the space.
blankPriorChar_Once(s) == ttyWrite(StepLeft(s), <<Blank>>)
blankPriorChar(s) == StepLeft(ttyWrite(StepLeft(s), <<Blank>>))

-----------------------------------------------------------------------------
(* The callers: the kernel prints between the lines it reads, kbdInput     *)
(* echoes what is typed.                                                   *)

Now == [mem |-> vgaMemory, cur |-> cursorPosition, ok |-> TRUE]
Shows(s) == vgaMemory' = s.mem /\ cursorPosition' = s.cur

\* ttyInit
Init ==
  /\ vgaMemory = [i \in Cells |-> Blank]
  /\ cursorPosition = [row |-> 0, col |-> 0]
  /\ typed = 0

KernelPrints(ch) == typed = 0 /\ Shows(ttyWrite(Now, <<ch>>)) /\ UNCHANGED typed

\* The call ends when the buffer is full.
EchoChar(g) ==
  /\ Shows(ttyWrite(Now, <<g>>))
  /\ typed' = IF typed + 1 < MaxLine THEN typed + 1 ELSE 0
EchoEnter == Shows(ttyWrite(Now, <<LF, CR>>)) /\ typed' = 0
EchoBackspace == typed > 0 /\ Shows(blankPriorChar(Now)) /\ typed' = typed - 1

Next ==
  \/ \E ch \in Glyphs \cup {LF, CR} : KernelPrints(ch)
  \/ \E g \in Glyphs : EchoChar(g)
  \/ EchoEnter \/ EchoBackspace

Spec == Init /\ [][Next]_svars

-----------------------------------------------------------------------------
(* Properties.                                                             *)

\* The cursor is on the screen and video memory is written inside the screen.
TypeOK ==
  /\ vgaMemory \in [Cells -> Glyphs]
  /\ cursorPosition \in Cursors /\ Validate(cursorPosition)
  /\ typed \in 0 .. MaxLine - 1

\* Row by row copies and a cursor that is told twice to go down make a
\* teletype: the page moves by one line when, and only when, it has to.
Paper == INSTANCE Teletype WITH
  page <- [p \in (0 .. Rows - 1) \X (0 .. Cols - 1) |-> vgaMemory[p[1] * Cols + p[2]]],
  row  <- cursorPosition.row,
  col  <- cursorPosition.col
RefinesTeletype == Paper!Spec
=============================================================================
