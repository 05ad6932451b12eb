------------------------------ MODULE Console ------------------------------
(***************************************************************************)
(* The cursor when the keyboard interrupt prints.  The main thread echoes  *)
(* and prints one load or store at a time, as the compiler's output does   *)
(* without optimisation; a key pressed while another is queued makes the   *)
(* handler print "Keyboard buffer full\n\r" at any point in between, with  *)
(* the same cursor and without a lock.  The handler runs to its end before *)
(* the main thread goes on.                                                *)
(*                                                                         *)
(* Video memory is left out: see Screen.                                   *)
(***************************************************************************)
EXTENDS Cursor, Sequences

CONSTANTS
  MsgLen,           \* characters of the handler's message
  MaxLine           \* characters of a line of input (bufflen - 2)

ASSUME ConsoleAssumption ==
  /\ MsgLen \in Nat
  /\ MaxLine \in Nat \ {0}

\* What printing is made of: a character, '\n', '\r', and blankPriorChar's
\* step to the left.
Pieces == {"glyph", "down", "begin", "back"}

VARIABLES
  cur,        \* the active cursor, [row, col]
  queued,     \* a key is in the ring
  msg,        \* pieces of the message the handler has yet to print
  todo,       \* pieces the main thread has yet to print
  pc,         \* where it is in the piece it prints
  reg,        \* the value it loaded last
  outer,      \* cursorDown was called by ttyPutChar, not by cursorRight
  typed,      \* characters of the line kbdInput is reading (cmdidx)
  erased,     \* history: backspace has erased a character
  refused     \* a call of the main thread was refused: the cursor was invalid

main == <<todo, pc, reg, outer, typed, erased, refused>>
cvars == <<cur, queued, msg, main>>

Init ==
  /\ cur = [row |-> 0, col |-> 0]
  /\ queued = FALSE /\ msg = 0
  /\ todo = <<>> /\ pc = "next" /\ reg = 0 /\ outer = TRUE
  /\ typed = 0 /\ erased = FALSE /\ refused = FALSE

-----------------------------------------------------------------------------
(* The keyboard interrupt.                                                 *)

KeyPressed ==
  /\ msg = 0
  /\ IF queued THEN msg' = MsgLen + 2 /\ UNCHANGED queued
               ELSE queued' = TRUE /\ UNCHANGED msg
  /\ UNCHANGED <<cur, main>>

\* Fault: the cursor is moved without a look at whether it is valid.
HandlerGlyph_Unchecked ==
  /\ msg > 2 /\ msg' = msg - 1
  /\ cur' = IF Inc(cur.col) < Cols THEN [cur EXCEPT !.col = Inc(@)]
            ELSE Down_Unchecked([cur EXCEPT !.col = 0]).cur
  /\ UNCHANGED <<queued, main>>
\* ttyWrite stops at the first character that is refused.
HandlerGlyph ==
  /\ msg > 2
  /\ IF Validate(cur)
     THEN cur' = Right(cur).cur /\ msg' = msg - 1
     ELSE msg' = 0 /\ UNCHANGED cur
  /\ UNCHANGED <<queued, main>>
HandlerNewline ==
  /\ msg = 2 /\ msg' = 1 /\ cur' = Down(cur).cur
  /\ UNCHANGED <<queued, main>>
HandlerReturn ==
  /\ msg = 1 /\ msg' = 0 /\ cur' = BeginOfLine(cur)
  /\ UNCHANGED <<queued, main>>

Handler == KeyPressed \/ HandlerGlyph \/ HandlerNewline \/ HandlerReturn

-----------------------------------------------------------------------------
(* The main thread, between pieces.                                        *)

\* The main thread runs only when no handler does.
At(label) == msg = 0 /\ pc = label
Goes(label) == pc' = label
Free == At("next") /\ todo = <<>>

\* kbdInput takes a key and echoes it; the call ends when the buffer is full.
TakeChar ==
  /\ Free /\ queued /\ queued' = FALSE
  /\ typed' = IF typed + 1 < MaxLine THEN typed + 1 ELSE 0
  /\ todo' = <<"glyph">>
  /\ UNCHANGED <<cur, msg, pc, reg, outer, erased, refused>>
TakeEnter ==
  /\ Free /\ queued /\ queued' = FALSE
  /\ typed' = 0
  /\ todo' = <<"down", "begin">>
  /\ UNCHANGED <<cur, msg, pc, reg, outer, erased, refused>>
TakeBackspace ==
  /\ Free /\ queued /\ queued' = FALSE
  /\ IF typed > 0
     THEN typed' = typed - 1 /\ todo' = <<"back", "glyph", "back">> /\ erased' = TRUE
     ELSE UNCHANGED <<typed, todo, erased>>
  /\ UNCHANGED <<cur, msg, pc, reg, outer, refused>>

\* The kernel prints between two lines of input.
KernelPrints ==
  /\ Free /\ typed = 0
  /\ todo' \in {<<"glyph">>, <<"down">>, <<"begin">>}
  /\ UNCHANGED <<cur, queued, msg, pc, reg, outer, typed, erased, refused>>

Start ==
  /\ At("next") /\ todo # <<>>
  /\ todo' = Tail(todo) /\ outer' = TRUE
  /\ pc' = CASE Head(todo) = "glyph" -> "copy"
             [] Head(todo) = "down"  -> "downCopy"
             [] Head(todo) = "begin" -> "beginCopy"
             [] Head(todo) = "back"  -> "backTest"
  /\ UNCHANGED <<cur, queued, msg, reg, typed, erased, refused>>

-----------------------------------------------------------------------------
(* The main thread, inside a piece.                                        *)

\* Steps at label `from' that go to `to', and leave the rest alone.
Load(from, to, value) ==
  /\ At(from) /\ reg' = value /\ Goes(to)
  /\ UNCHANGED <<cur, queued, msg, todo, outer, typed, erased, refused>>
Store(from, to, cursor) ==
  /\ At(from) /\ cur' = cursor /\ Goes(to)
  /\ UNCHANGED <<queued, msg, todo, reg, outer, typed, erased, refused>>
Test(from, cond, yes, no) ==
  /\ At(from) /\ Goes(IF cond THEN yes ELSE no)
  /\ UNCHANGED <<cur, queued, msg, todo, reg, outer, typed, erased, refused>>

\* A cursor passed by value: the column was loaded first, the row now.
CopyValid == reg < Cols /\ cur.row < Rows

\* Where the copy is not valid, the call returns false.
Checked(from, to) ==
  /\ At(from)
  /\ IF CopyValid THEN Goes(to) /\ UNCHANGED refused
                  ELSE Goes("next") /\ refused' = TRUE
  /\ UNCHANGED <<cur, queued, msg, todo, reg, outer, typed, erased>>

\* ttyPutEntryAt and vgaPutChar, which have their own copy of the cursor.
Glyph ==
  \/ Load("copy", "put", cur.col)
  \/ Checked("put", "rightCopy")

\* cursorMove80x25CursorRight, which ends in cursorMove80x25CursorDown.
ZeroColumn ==
  /\ At("zeroCol") /\ cur' = [cur EXCEPT !.col = 0] /\ outer' = FALSE
  /\ Goes("downCopy")
  /\ UNCHANGED <<queued, msg, todo, reg, typed, erased, refused>>
MoveRight ==
  \/ Load("rightCopy", "rightTest", cur.col)
  \/ Test("rightTest", CopyValid, "incCol", "next")
  \/ Load("incCol", "setCol", cur.col)
  \/ Store("setCol", "cmpCol", [cur EXCEPT !.col = Inc(reg)])
  \/ Test("cmpCol", cur.col < Cols, "next", "zeroCol")
  \/ ZeroColumn

\* Fault: the row is not put back when it leaves the screen.
BackOnLastRow_Never ==
  /\ At("unRow") /\ Goes(IF outer THEN "next" ELSE "downCopy") /\ outer' = TRUE
  /\ UNCHANGED <<cur, queued, msg, todo, reg, typed, erased, refused>>
\* cursorMove80x25CursorDown.  When it asks cursorRight for a scroll, ttyPutChar
\* calls it again.
BackOnLastRow ==
  /\ At("unRow") /\ cur' = [cur EXCEPT !.row = Dec(reg)]
  /\ Goes(IF outer THEN "next" ELSE "downCopy") /\ outer' = TRUE
  /\ UNCHANGED <<queued, msg, todo, reg, typed, erased, refused>>
MoveDown ==
  \/ Load("downCopy", "downTest", cur.col)
  \/ Test("downTest", CopyValid, "incRow", "next")
  \/ Load("incRow", "setRow", cur.row)
  \/ Store("setRow", "cmpRow", [cur EXCEPT !.row = Inc(reg)])
  \/ Test("cmpRow", cur.row = Rows, "decRow", "next")
  \/ Load("decRow", "unRow", cur.row)
  \/ BackOnLastRow

\* cursorSet80x25CursorToBeginOfLine.
MoveToBegin ==
  \/ Load("beginCopy", "beginTest", cur.col)
  \/ Checked("beginTest", "beginSet")
  \/ Store("beginSet", "next", [cur EXCEPT !.col = 0])

\* blankPriorChar: if (pos->col != 0) pos->col--;
StepBack ==
  \/ Test("backTest", cur.col # 0, "backLoad", "next")
  \/ Load("backLoad", "backSet", cur.col)
  \/ Store("backSet", "next", [cur EXCEPT !.col = Dec(reg)])

Main ==
  \/ TakeChar \/ TakeEnter \/ TakeBackspace \/ KernelPrints \/ Start
  \/ Glyph \/ MoveRight \/ MoveDown \/ MoveToBegin \/ StepBack

Next == Handler \/ Main

Spec == Init /\ [][Next]_cvars

-----------------------------------------------------------------------------
(* Properties.                                                             *)

Labels ==
  {"next", "copy", "put", "rightCopy", "rightTest", "incCol", "setCol", "cmpCol",
   "zeroCol", "downCopy", "downTest", "incRow", "setRow", "cmpRow", "decRow",
   "unRow", "beginCopy", "beginTest", "beginSet", "backTest", "backLoad", "backSet"}

\* Types of the console's state.
TypeOK ==
  /\ cur \in Cursors
  /\ queued \in BOOLEAN /\ msg \in 0 .. MsgLen + 2
  /\ todo \in Seq(Pieces) /\ pc \in Labels /\ reg \in 0 .. Word - 1
  /\ outer \in BOOLEAN /\ typed \in 0 .. MaxLine - 1
  /\ erased \in BOOLEAN /\ refused \in BOOLEAN

\* Until a backspace erases a character, the cursor is on the screen whenever
\* the main thread is between two pieces, and nothing it prints is refused: no
\* interleaving of its moves with the handler's leaves the cursor outside.
CursorOnScreen == ~erased => (pc = "next" => Validate(cur)) /\ ~refused

\* The row is off the screen only in the middle of a move down, by one.
RowOnScreen ==
  cur.row < Rows \/ (cur.row = Rows /\ pc \in {"cmpRow", "decRow", "unRow"})
=============================================================================
