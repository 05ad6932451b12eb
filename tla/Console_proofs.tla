--------------------------- MODULE Console_proofs ---------------------------
(***************************************************************************)
(* Proofs about the cursor under interrupts, for every screen size, every  *)
(* message and every limit of the line.  RowInv needs nothing of the keys; *)
(* ColInv holds until a backspace erases a character.                      *)
(***************************************************************************)
EXTENDS Console, SequenceTheorems, TLAPS

Walking == {"cmpRow", "decRow", "unRow"}

\* Inside a move down the row may be Rows, and then no handler's call moves the
\* cursor, so that the row put back is the last one.
RowInv ==
  /\ RowOnScreen
  /\ pc = "setRow" => reg < Rows
  /\ pc \in {"decRow", "unRow"} => cur.row = Rows
  /\ pc = "unRow" => reg = Rows

BackLabels == {"backTest", "backLoad", "backSet"}

\* Before that the column leaves the screen only inside a move right.
ColInv ==
  /\ todo \in Seq(Pieces \ {"back"}) /\ pc \notin BackLabels
  /\ cur.col < Cols \/ pc \in {"cmpCol", "zeroCol"}
  /\ pc \in {"put", "beginTest"} => reg < Cols
  /\ ~refused
NotErased == ~erased => ColInv

-----------------------------------------------------------------------------
(* The cursor's moves.                                                     *)

\* Arithmetic on a size_t stays a size_t, and is exact on the screen.
LEMMA Arithmetic ==
  ASSUME NEW n \in 0 .. Word - 1
  PROVE  /\ Inc(n) \in 0 .. Word - 1 /\ Dec(n) \in 0 .. Word - 1
         /\ n < Word - 1 => Inc(n) = n + 1
         /\ n > 0 => Dec(n) = n - 1
<1>1. Word \in Nat \ {0} /\ n \in Nat
  BY CursorAssumption
<1>2. n + 1 \in Int /\ n - 1 \in Int
  BY <1>1
<1>3. Inc(n) \in 0 .. Word - 1 /\ Dec(n) \in 0 .. Word - 1
  BY <1>1, <1>2, SMT DEF Inc, Dec
<1>4. n < Word - 1 => Inc(n) = n + 1
  BY <1>1, SMT DEF Inc
<1>5. n > 0 => Dec(n) = n - 1
  BY <1>1, SMT DEF Dec
<1> QED  BY <1>3, <1>4, <1>5

\* A valid cursor stays valid, and one that is not valid does not move.
LEMMA Moves ==
  ASSUME NEW c \in Cursors
  PROVE  /\ Right(c).cur \in Cursors /\ Down(c).cur \in Cursors
         /\ BeginOfLine(c) \in Cursors
         /\ Validate(c) => /\ Validate(Right(c).cur) /\ Validate(Down(c).cur)
                           /\ Validate(BeginOfLine(c))
         /\ ~Validate(c) => /\ Right(c).cur = c /\ Down(c).cur = c
                            /\ BeginOfLine(c) = c
<1>0. Rows \in Nat \ {0} /\ Cols \in Nat \ {0} /\ Word \in Nat /\ Word > Rows /\ Word > Cols
  BY CursorAssumption
<1>1. CASE ~Validate(c)
  BY <1>1 DEF Right, Down, BeginOfLine, Stays
<1>2. CASE Validate(c)
  <2>1. c.row \in 0 .. Rows - 1 /\ c.col \in 0 .. Cols - 1
    BY <1>0, <1>2 DEF Validate, Cursors
  <2>2. c.row \in 0 .. Word - 1 /\ c.col \in 0 .. Word - 1
    BY DEF Cursors
  <2>3. Inc(c.row) = c.row + 1 /\ Inc(c.col) = c.col + 1
    <3>1. c.row < Word - 1 /\ c.col < Word - 1
      BY <1>0, <2>1
    <3> QED  BY <2>2, <3>1, Arithmetic
  <2>4. ASSUME NEW d \in Cursors, Validate(d), Inc(d.row) = d.row + 1
        PROVE  Down(d).cur \in Cursors /\ Validate(Down(d).cur)
    <3>1. d.row \in 0 .. Rows - 1 /\ d.col \in 0 .. Cols - 1
      BY <1>0, <2>4 DEF Validate, Cursors
    <3>2. CASE Inc(d.row) = Rows
      <4>1. Down(d).cur = d
        BY <2>4, <3>2 DEF Down, Scrolls
      <4> QED  BY <2>4, <4>1
    <3>3. CASE Inc(d.row) # Rows
      <4>1. Down(d).cur = [d EXCEPT !.row = d.row + 1]
        BY <2>4, <3>3 DEF Down, Stays
      <4>2. d.row + 1 \in 0 .. Rows - 1
        BY <1>0, <2>4, <3>1, <3>3
      <4>3. [d EXCEPT !.row = d.row + 1] \in Cursors
        BY <1>0, <4>2 DEF Cursors
      <4>4. Validate([d EXCEPT !.row = d.row + 1])
        BY <1>0, <3>1, <4>2 DEF Validate, Cursors
      <4> QED  BY <4>1, <4>3, <4>4
    <3> QED  BY <3>2, <3>3
  <2>5. [c EXCEPT !.col = 0] \in Cursors /\ Validate([c EXCEPT !.col = 0])
        /\ Inc([c EXCEPT !.col = 0].row) = [c EXCEPT !.col = 0].row + 1
    BY <1>0, <2>1, <2>3 DEF Validate, Cursors
  <2>6. Right(c).cur \in Cursors /\ Validate(Right(c).cur)
    <3>1. CASE Inc(c.col) < Cols
      <4>1. Right(c).cur = [c EXCEPT !.col = c.col + 1]
        BY <1>2, <2>3, <3>1 DEF Right, Stays
      <4>2. c.col + 1 \in 0 .. Cols - 1
        BY <1>0, <2>1, <2>3, <3>1
      <4> QED  BY <1>0, <2>1, <4>1, <4>2 DEF Validate, Cursors
    <3>2. CASE ~(Inc(c.col) < Cols)
      <4>1. Right(c).cur = Down([c EXCEPT !.col = 0]).cur
        BY <1>2, <3>2 DEF Right
      <4> QED  BY <2>4, <2>5, <4>1
    <3> QED  BY <3>1, <3>2
  <2>7. Down(c).cur \in Cursors /\ Validate(Down(c).cur)
    BY <1>2, <2>3, <2>4
  <2>8. BeginOfLine(c) = [c EXCEPT !.col = 0]
    BY <1>2 DEF BeginOfLine
  <2> QED  BY <1>2, <2>5, <2>6, <2>7, <2>8
<1> QED  BY <1>1, <1>2

-----------------------------------------------------------------------------
(* Types and rows.                                                         *)

\* The short sequences of pieces the main thread prints.
LEMMA ShortSequences ==
  ASSUME NEW S, NEW a \in S, NEW b \in S, NEW c \in S
  PROVE  /\ << >> \in Seq(S) /\ <<a>> \in Seq(S) /\ <<a, b>> \in Seq(S)
         /\ <<a, b, c>> \in Seq(S)
OBVIOUS

\* Taking the first piece off a list of pieces.
LEMMA HeadAndTail ==
  ASSUME NEW S, NEW s \in Seq(S), s # << >>
  PROVE  Head(s) \in S /\ Tail(s) \in Seq(S)
OBVIOUS

\* The static data: a cursor at the origin and nothing to print.
LEMMA InitOK == Init => TypeOK /\ RowInv
<1> SUFFICES ASSUME Init PROVE TypeOK /\ RowInv
  OBVIOUS
<1>1. cur \in Cursors /\ cur.row < Rows /\ reg \in 0 .. Word - 1
  BY CursorAssumption DEF Init, Cursors
<1>2. msg \in 0 .. MsgLen + 2 /\ typed \in 0 .. MaxLine - 1
  BY ConsoleAssumption DEF Init
<1>3. todo \in Seq(Pieces)
  BY ShortSequences DEF Init, Pieces
<1>4. TypeOK
  BY <1>1, <1>2, <1>3 DEF Init, TypeOK, Labels
<1> QED  BY <1>1, <1>4 DEF Init, RowInv, RowOnScreen

\* What one call of the handler does to the cursor: nothing to one that is not
\* valid, and nothing to the main thread.
HandlerMoves ==
  /\ cur' \in Cursors
  /\ Validate(cur) => Validate(cur')
  /\ ~Validate(cur) => cur' = cur
  /\ UNCHANGED main

\* Each step of the handler is such a call.
LEMMA HandlerEffect ==
  ASSUME TypeOK, Handler
  PROVE  HandlerMoves /\ msg' \in 0 .. MsgLen + 2 /\ queued' \in BOOLEAN
<1>1. cur \in Cursors /\ msg \in 0 .. MsgLen + 2 /\ MsgLen \in Nat /\ queued \in BOOLEAN
  BY ConsoleAssumption DEF TypeOK
<1>2. CASE KeyPressed
  <2>1. cur' = cur /\ UNCHANGED main /\ queued' \in BOOLEAN
    BY <1>1, <1>2 DEF KeyPressed
  <2>2. msg' \in 0 .. MsgLen + 2
    BY <1>1, <1>2 DEF KeyPressed
  <2> QED  BY <1>1, <2>1, <2>2 DEF HandlerMoves
<1>3. CASE HandlerGlyph
  BY <1>1, <1>3, Moves DEF HandlerGlyph, HandlerMoves
<1>4. CASE HandlerNewline
  BY <1>1, <1>4, Moves DEF HandlerNewline, HandlerMoves
<1>5. CASE HandlerReturn
  BY <1>1, <1>5, Moves DEF HandlerReturn, HandlerMoves
<1> QED  BY <1>2, <1>3, <1>4, <1>5 DEF Handler

\* An interrupt never moves the cursor off the screen, nor back onto it.
LEMMA HandlerPreserves ==
  ASSUME TypeOK, RowInv, Handler
  PROVE  TypeOK' /\ RowInv'
<1>1. HandlerMoves /\ msg' \in 0 .. MsgLen + 2 /\ queued' \in BOOLEAN
  BY HandlerEffect
<1>2. TypeOK'
  BY <1>1 DEF HandlerMoves, TypeOK, main
<1>3. cur.row \in Nat /\ Rows \in Nat
  BY CursorAssumption DEF TypeOK, Cursors
<1>4. CASE Validate(cur)
  <2>1. cur.row < Rows /\ cur'.row < Rows
    BY <1>1, <1>4 DEF HandlerMoves, Validate
  <2> QED  BY <1>1, <1>2, <1>3, <2>1 DEF HandlerMoves, RowInv, RowOnScreen, main
<1>5. CASE ~Validate(cur)
  BY <1>1, <1>2, <1>5 DEF HandlerMoves, RowInv, RowOnScreen, main
<1> QED  BY <1>4, <1>5

\* Between pieces the main thread only chooses what to print.
Choosing == TakeChar \/ TakeEnter \/ TakeBackspace \/ KernelPrints \/ Start

\* Choosing touches neither the cursor nor the loaded value.
LEMMA ChoosingPreserves ==
  ASSUME TypeOK, RowInv, Choosing
  PROVE  TypeOK' /\ RowInv'
<1>1. MaxLine \in Nat \ {0} /\ typed \in 0 .. MaxLine - 1 /\ todo \in Seq(Pieces)
  BY ConsoleAssumption DEF TypeOK
<1>2. typed' \in 0 .. MaxLine - 1
  BY <1>1 DEF Choosing, TakeChar, TakeEnter, TakeBackspace, KernelPrints, Start
<1>3. todo' \in Seq(Pieces)
  <2>1. CASE Start
    BY <1>1, <2>1, HeadAndTail DEF Start
  <2>2. CASE ~Start
    <3>1. /\ <<"glyph">> \in Seq(Pieces) /\ <<"down">> \in Seq(Pieces)
          /\ <<"begin">> \in Seq(Pieces) /\ <<"down", "begin">> \in Seq(Pieces)
          /\ <<"back", "glyph", "back">> \in Seq(Pieces)
      BY ShortSequences DEF Pieces
    <3> QED
      BY <1>1, <2>2, <3>1
      DEF Choosing, TakeChar, TakeEnter, TakeBackspace, KernelPrints
  <2> QED  BY <2>1, <2>2
<1>4. pc' \in {"next", "copy", "downCopy", "beginCopy", "backTest"} /\ pc = "next"
  <2>1. CASE Start
    <3>1. Head(todo) \in Pieces
      BY <1>1, <2>1, HeadAndTail DEF Start
    <3> QED  BY <2>1, <3>1 DEF Start, At, Pieces
  <2>2. CASE ~Start
    BY <2>2 DEF Choosing, TakeChar, TakeEnter, TakeBackspace, KernelPrints, Free, At
  <2> QED  BY <2>1, <2>2
<1>5. /\ cur' = cur /\ msg' = msg /\ reg' = reg /\ refused' = refused
      /\ outer' \in BOOLEAN /\ queued' \in BOOLEAN /\ erased' \in BOOLEAN
  BY DEF Choosing, TakeChar, TakeEnter, TakeBackspace, KernelPrints, Start, TypeOK
<1>6. TypeOK'
  BY <1>2, <1>3, <1>4, <1>5 DEF TypeOK, Labels
<1> QED  BY <1>4, <1>5, <1>6 DEF RowInv, RowOnScreen

\* The steps inside a piece.
Moving == Glyph \/ MoveRight \/ MoveDown \/ MoveToBegin \/ StepBack

\* What a step inside a piece leaves alone.
Frame == UNCHANGED <<queued, msg, todo, typed, erased>>

\* Each load and store of the main thread keeps its types.
LEMMA MovingTypes ==
  ASSUME TypeOK, Moving
  PROVE  TypeOK'
<1>1. /\ cur \in Cursors /\ reg \in 0 .. Word - 1
      /\ outer \in BOOLEAN /\ refused \in BOOLEAN
      /\ cur.row \in 0 .. Word - 1 /\ cur.col \in 0 .. Word - 1 /\ 0 \in 0 .. Word - 1
  BY CursorAssumption DEF TypeOK, Cursors
<1>2. Inc(reg) \in 0 .. Word - 1 /\ Dec(reg) \in 0 .. Word - 1
  BY <1>1, Arithmetic
<1>3. \A n \in 0 .. Word - 1 :
        [cur EXCEPT !.col = n] \in Cursors /\ [cur EXCEPT !.row = n] \in Cursors
  BY <1>1 DEF Cursors
<1>4. Frame
  BY DEF Moving, Glyph, MoveRight, MoveDown, MoveToBegin, StepBack, ZeroColumn,
         BackOnLastRow, Load, Store, Test, Checked, Frame
<1>5. pc' \in Labels
  BY DEF Moving, Glyph, MoveRight, MoveDown, MoveToBegin, StepBack, ZeroColumn,
         BackOnLastRow, Load, Store, Test, Checked, Goes, Labels
<1>6. reg' \in 0 .. Word - 1
  BY <1>1 DEF Moving, Glyph, MoveRight, MoveDown, MoveToBegin, StepBack, ZeroColumn,
              BackOnLastRow, Load, Store, Test, Checked
<1>7. outer' \in BOOLEAN /\ refused' \in BOOLEAN
  BY <1>1 DEF Moving, Glyph, MoveRight, MoveDown, MoveToBegin, StepBack, ZeroColumn,
              BackOnLastRow, Load, Store, Test, Checked
<1>8. cur' \in Cursors
  BY <1>1, <1>2, <1>3
  DEF Moving, Glyph, MoveRight, MoveDown, MoveToBegin, StepBack, ZeroColumn,
      BackOnLastRow, Load, Store, Test, Checked
<1> QED  BY <1>4, <1>5, <1>6, <1>7, <1>8 DEF Frame, TypeOK

\* The steps that touch the row, one by one; the others leave it and do not
\* enter a move down past its first load.
LEMMA MovingRows ==
  ASSUME TypeOK, RowInv, Moving
  PROVE  RowInv'
<1>1. /\ cur \in Cursors /\ reg \in Nat /\ cur.row \in Nat /\ reg \in 0 .. Word - 1
      /\ Rows \in Nat \ {0} /\ Word \in Nat /\ Word > Rows
  BY CursorAssumption DEF TypeOK, Cursors
<1>2. CASE Glyph \/ MoveToBegin \/ StepBack
  <2>1. cur'.row = cur.row
    BY <1>1, <1>2 DEF Glyph, MoveToBegin, StepBack, Load, Store, Test, Checked, Cursors
  <2>2. pc \notin Walking /\ pc' \notin Walking \cup {"setRow"}
    BY <1>2 DEF Glyph, MoveToBegin, StepBack, Load, Store, Test, Checked, At, Goes, Walking
  <2> QED  BY <2>1, <2>2 DEF RowInv, RowOnScreen, Walking
<1>3. CASE MoveRight
  <2>1. cur'.row = cur.row
    BY <1>1, <1>3 DEF MoveRight, ZeroColumn, Load, Store, Test, Cursors
  <2>2. pc \notin Walking /\ pc' \notin Walking \cup {"setRow"}
    BY <1>3 DEF MoveRight, ZeroColumn, Load, Store, Test, At, Goes, Walking
  <2> QED  BY <2>1, <2>2 DEF RowInv, RowOnScreen, Walking
<1>4. CASE MoveDown
  <2>1. CASE \/ Load("downCopy", "downTest", cur.col)
             \/ Test("downTest", CopyValid, "incRow", "next")
    BY <2>1 DEF Load, Test, At, Goes, RowInv, RowOnScreen
  <2>2. CASE Load("incRow", "setRow", cur.row)
    BY <2>2 DEF Load, At, Goes, RowInv, RowOnScreen
  <2>3. CASE Store("setRow", "cmpRow", [cur EXCEPT !.row = Inc(reg)])
    <3>1. reg < Rows /\ pc' = "cmpRow" /\ cur' = [cur EXCEPT !.row = Inc(reg)]
      BY <2>3 DEF Store, At, Goes, RowInv
    <3>2. Inc(reg) = reg + 1
      BY <1>1, <3>1, Arithmetic
    <3>3. cur'.row = reg + 1
      BY <1>1, <3>1, <3>2 DEF Cursors
    <3> QED  BY <1>1, <3>1, <3>3 DEF RowInv, RowOnScreen
  <2>4. CASE Test("cmpRow", cur.row = Rows, "decRow", "next")
    BY <1>1, <2>4 DEF Test, At, Goes, RowInv, RowOnScreen
  <2>5. CASE Load("decRow", "unRow", cur.row)
    BY <2>5 DEF Load, At, Goes, RowInv, RowOnScreen
  <2>6. CASE BackOnLastRow
    <3>1. reg = Rows /\ cur' = [cur EXCEPT !.row = Dec(reg)]
          /\ pc' \in {"next", "downCopy"}
      BY <2>6 DEF BackOnLastRow, At, Goes, RowInv
    <3>2. Dec(reg) = Rows - 1
      BY <1>1, <3>1, Arithmetic
    <3>3. cur'.row = Rows - 1
      BY <1>1, <3>1, <3>2 DEF Cursors
    <3> QED  BY <1>1, <3>1, <3>3 DEF RowInv, RowOnScreen
  <2> QED  BY <1>4, <2>1, <2>2, <2>3, <2>4, <2>5, <2>6 DEF MoveDown
<1> QED  BY <1>2, <1>3, <1>4 DEF Moving

\* Types and rows hold whatever keys are typed.
THEOREM RowInvariance == Spec => [](TypeOK /\ RowInv)
<1>1. TypeOK /\ RowInv /\ [Next]_cvars => (TypeOK /\ RowInv)'
  <2> SUFFICES ASSUME TypeOK, RowInv, [Next]_cvars PROVE TypeOK' /\ RowInv'
    OBVIOUS
  <2>1. CASE Handler
    BY <2>1, HandlerPreserves
  <2>2. CASE Choosing
    BY <2>2, ChoosingPreserves
  <2>3. CASE Moving
    BY <2>3, MovingTypes, MovingRows
  <2>4. CASE UNCHANGED cvars
    BY <2>4 DEF cvars, main, TypeOK, RowInv, RowOnScreen
  <2> QED  BY <2>1, <2>2, <2>3, <2>4 DEF Next, Main, Choosing, Moving
<1> QED  BY <1>1, InitOK, PTL DEF Spec

\* Whatever is typed and whenever the handler prints, the row leaves the screen
\* only inside a move down, and then by one.
THEOREM RowStaysOnScreen == Spec => [](TypeOK /\ RowOnScreen)
<1>1. RowInv => RowOnScreen
  BY DEF RowInv
<1> QED  BY <1>1, RowInvariance, PTL

-----------------------------------------------------------------------------
(* Columns, until a character is erased.                                   *)

\* Taking pieces that are not a step back, and finding none in their place.
LEMMA ColumnStep ==
  ASSUME TypeOK, RowInv, ColInv, ~erased', [Next]_cvars
  PROVE  ColInv'
<1>1. /\ cur \in Cursors /\ cur.col \in Nat /\ Cols \in Nat \ {0}
      /\ todo \in Seq(Pieces \ {"back"})
  BY CursorAssumption DEF TypeOK, ColInv, Cursors
<1>2. CASE Handler
  <2>1. HandlerMoves
    BY <1>2, HandlerEffect
  <2>2. CASE Validate(cur)
    BY <2>1, <2>2 DEF HandlerMoves, Validate, ColInv, main
  <2>3. CASE ~Validate(cur)
    BY <2>1, <2>3 DEF HandlerMoves, ColInv, main
  <2> QED  BY <2>2, <2>3
<1>3. CASE Choosing
  <2>1. todo' \in Seq(Pieces \ {"back"})
    <3>1. CASE Start
      BY <1>1, <3>1, HeadAndTail DEF Start
    <3>2. CASE TakeBackspace
      <4>1. ~(typed > 0)
        BY <3>2 DEF TakeBackspace
      <4> QED  BY <1>1, <3>2, <4>1 DEF TakeBackspace
    <3>3. CASE TakeChar \/ TakeEnter \/ KernelPrints
      <4>1. /\ <<"glyph">> \in Seq(Pieces \ {"back"})
            /\ <<"down">> \in Seq(Pieces \ {"back"})
            /\ <<"begin">> \in Seq(Pieces \ {"back"})
            /\ <<"down", "begin">> \in Seq(Pieces \ {"back"})
        BY ShortSequences DEF Pieces
      <4> QED
        BY <3>3, <4>1 DEF TakeChar, TakeEnter, KernelPrints
    <3> QED  BY <1>3, <3>1, <3>2, <3>3 DEF Choosing
  <2>2. pc' \in {"next", "copy", "downCopy", "beginCopy"} /\ pc = "next"
    <3>1. CASE Start
      <4>1. Head(todo) \in Pieces \ {"back"}
        BY <1>1, <3>1, HeadAndTail DEF Start
      <4> QED  BY <3>1, <4>1 DEF Start, At, Pieces
    <3>2. CASE ~Start
      BY <1>3, <3>2
      DEF Choosing, TakeChar, TakeEnter, TakeBackspace, KernelPrints, Free, At
    <3> QED  BY <3>1, <3>2
  <2>3. cur' = cur /\ refused' = refused
    BY <1>3 DEF Choosing, TakeChar, TakeEnter, TakeBackspace, KernelPrints, Start
  <2> QED  BY <2>1, <2>2, <2>3 DEF ColInv, BackLabels
<1>4. CASE Glyph \/ MoveToBegin
  <2>1. pc \in {"put", "beginTest"} => CopyValid
    BY <1>4 DEF Glyph, MoveToBegin, Load, Store, Checked, At, ColInv, RowInv,
                RowOnScreen, CopyValid
  <2>2. refused' = refused /\ todo' = todo
    BY <1>4, <2>1 DEF Glyph, MoveToBegin, Load, Store, Checked, At
  <2>3. pc' \in {"put", "rightCopy", "beginTest", "beginSet", "next"}
        /\ pc \notin {"cmpCol", "zeroCol"}
    BY <1>4 DEF Glyph, MoveToBegin, Load, Store, Checked, At, Goes
  <2>4. cur'.col < Cols
    BY <1>1, <1>4, <2>3
    DEF Glyph, MoveToBegin, Load, Store, Checked, ColInv, Cursors
  <2>5. pc' \in {"put", "beginTest"} => reg' < Cols
    BY <1>4, <2>3 DEF Glyph, MoveToBegin, Load, Store, Checked, At, Goes, ColInv
  <2> QED  BY <2>2, <2>3, <2>4, <2>5 DEF ColInv, BackLabels
<1>5. CASE MoveRight
  <2>1. refused' = refused /\ todo' = todo
    BY <1>5 DEF MoveRight, ZeroColumn, Load, Store, Test
  <2>2. pc' \in {"rightTest", "incCol", "setCol", "cmpCol", "zeroCol", "downCopy", "next"}
    BY <1>5 DEF MoveRight, ZeroColumn, Load, Store, Test, Goes
  <2>3. cur'.col < Cols \/ pc' \in {"cmpCol", "zeroCol"}
    BY <1>1, <1>5 DEF MoveRight, ZeroColumn, Load, Store, Test, At, Goes, ColInv, Cursors
  <2> QED  BY <2>1, <2>2, <2>3 DEF ColInv, BackLabels
<1>6. CASE MoveDown
  <2>1. refused' = refused /\ todo' = todo
    BY <1>6 DEF MoveDown, BackOnLastRow, Load, Store, Test
  <2>2. pc' \in {"downTest", "incRow", "setRow", "cmpRow", "decRow", "unRow",
                 "downCopy", "next"}
        /\ pc \notin {"cmpCol", "zeroCol"}
    BY <1>6 DEF MoveDown, BackOnLastRow, Load, Store, Test, At, Goes
  <2>3. cur'.col = cur.col
    BY <1>1, <1>6 DEF MoveDown, BackOnLastRow, Load, Store, Test, Cursors
  <2> QED  BY <2>1, <2>2, <2>3 DEF ColInv, BackLabels
<1>7. CASE StepBack
  BY <1>7 DEF StepBack, Load, Store, Test, At, ColInv, BackLabels
<1>8. CASE UNCHANGED cvars
  BY <1>8 DEF cvars, main, ColInv
<1> QED
  BY <1>2, <1>3, <1>4, <1>5, <1>6, <1>7, <1>8 DEF Next, Main, Choosing

\* Once a character is erased, one has been erased.
LEMMA ErasedStays ==
  ASSUME TypeOK, erased, [Next]_cvars
  PROVE  erased'
<1>1. CASE Handler
  BY <1>1, HandlerEffect DEF HandlerMoves, main
<1>2. CASE Choosing
  BY <1>2 DEF Choosing, TakeChar, TakeEnter, TakeBackspace, KernelPrints, Start
<1>3. CASE Moving
  BY <1>3 DEF Moving, Glyph, MoveRight, MoveDown, MoveToBegin, StepBack, ZeroColumn,
              BackOnLastRow, Load, Store, Test, Checked
<1>4. CASE UNCHANGED cvars
  BY <1>4 DEF cvars, main
<1> QED  BY <1>1, <1>2, <1>3, <1>4 DEF Next, Main, Choosing, Moving

\* Until a backspace erases a character, the cursor is on the screen between
\* two pieces and nothing the main thread prints is refused, wherever the
\* handler interrupts it.
THEOREM CursorStaysOnScreen == Spec => []CursorOnScreen
<1>1. Init => NotErased
  <2> SUFFICES ASSUME Init PROVE ColInv
    BY DEF NotErased
  <2>1. todo \in Seq(Pieces \ {"back"})
    BY ShortSequences DEF Init, Pieces
  <2> QED  BY <2>1, CursorAssumption DEF Init, ColInv, BackLabels
<1>2. TypeOK /\ RowInv /\ NotErased /\ [Next]_cvars => NotErased'
  BY ColumnStep, ErasedStays DEF NotErased
<1>3. RowInv /\ NotErased => CursorOnScreen
  BY DEF RowInv, RowOnScreen, ColInv, NotErased, CursorOnScreen, Validate
<1> QED  BY <1>1, <1>2, <1>3, RowInvariance, PTL DEF Spec
=============================================================================
