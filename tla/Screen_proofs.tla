--------------------------- MODULE Screen_proofs ---------------------------
(***************************************************************************)
(* Proofs about the screen, for every size of it and every line length:    *)
(* the copies of rows, made one after the other in the order of the loop,  *)
(* move the page up by one line, and what is written is a teletype's.      *)
(* The loops are recursive functions: a function that satisfies such an    *)
(* equation exists because one in closed form does, and it has no other    *)
(* values because there is no least number of steps at which it could.     *)
(***************************************************************************)
EXTENDS Screen, TLAPS, WellFoundedInduction

-----------------------------------------------------------------------------
(* Numbers.                                                                *)

\* A set of natural numbers that is not empty has a least one.
LEMMA Least ==
  ASSUME NEW S \in SUBSET Nat, S # {}
  PROVE  \E n \in S : \A m \in S : n <= m
<1> DEFINE R == {ss \in Nat \X Nat : ss[1] < ss[2]}
<1>1. IsWellFoundedOn(R, Nat)
  BY NatLessThanWellFounded DEF OpToRel
<1>2. PICK n \in S : \A m \in S : ~ (<<m, n>> \in R)
  <2> HIDE DEF R
  <2> QED BY <1>1, WFMin
<1>3. ASSUME NEW m \in S PROVE n <= m
  <2>1. ~ (<<m, n>> \in R)
    BY <1>2
  <2>2. m \in Nat /\ n \in Nat
    OBVIOUS
  <2> QED BY <2>1, <2>2
<1> QED BY <1>3

LEMMA Sizes == Rows \in Nat \ {0} /\ Cols \in Nat \ {0} /\ Word \in Nat /\ Word > Rows /\ Word > Cols
BY CursorAssumption

\* The quotient of a number between two multiples.
LEMMA Quotient ==
  ASSUME NEW a \in Nat, NEW p \in Nat \ {0}, NEW q \in Nat, q * p <= a, a < (q + 1) * p
  PROVE  a \div p = q
<1>1. PICK d \in Nat : d = a \div p
  OBVIOUS
<1>2. d * p <= a /\ a < (d + 1) * p
  BY <1>1
<1>3. ASSUME NEW x \in Nat, NEW y \in Nat, x < y, y * p <= a PROVE ~(a < (x + 1) * p)
  <2>1. (x + 1) * p <= y * p
    BY <1>3
  <2>2. x + 1 \in Nat /\ (x + 1) * p \in Nat /\ y * p \in Nat
    OBVIOUS
  <2> QED BY <1>3, <2>1, <2>2
<1>4. ~(d < q) /\ ~(q < d)
  BY <1>2, <1>3
<1> QED BY <1>1, <1>4

\* A place on the screen is a cell, and the cell says its row.
LEMMA PlaceIsCell ==
  ASSUME NEW r \in 0 .. Rows - 1, NEW c \in 0 .. Cols - 1
  PROVE  r * Cols + c \in Cells /\ RowOf(r * Cols + c) = r
<1>1. r \in Nat /\ c \in Nat /\ r + 1 <= Rows /\ r * Cols \in Nat
  BY Sizes
<1>2. (r + 1) * Cols = r * Cols + Cols
  BY <1>1, Sizes
<1>3. (r + 1) * Cols <= Rows * Cols
  BY <1>1, Sizes
<1>4. Rows * Cols \in Nat
  BY Sizes
<1>5. r * Cols + c \in Nat /\ r * Cols <= r * Cols + c /\ r * Cols + c < (r + 1) * Cols
  BY <1>1, <1>2, Sizes
<1>6. r * Cols + c \in Cells
  <2>1. PICK x \in Nat, y \in Nat, z \in Nat :
          x = r * Cols + c /\ y = (r + 1) * Cols /\ z = Rows * Cols
    BY <1>1, <1>2, <1>4, <1>5, Sizes
  <2>2. x < y /\ y <= z
    BY <2>1, <1>3, <1>5
  <2>3. x \in 0 .. z - 1
    BY <2>2
  <2> QED BY <2>1, <2>3 DEF Cells
<1>7. (r * Cols + c) \div Cols = r
  BY <1>1, <1>5, Sizes, Quotient
<1> QED BY <1>6, <1>7 DEF RowOf

\* Two places with one cell are one place.
LEMMA CellOfOne ==
  ASSUME NEW r \in 0 .. Rows - 1, NEW c \in 0 .. Cols - 1,
         NEW q \in 0 .. Rows - 1, NEW d \in 0 .. Cols - 1,
         r * Cols + c = q * Cols + d
  PROVE  r = q /\ c = d
<1>1. r = q
  BY PlaceIsCell
<1>2. r * Cols \in Nat
  BY Sizes
<1> QED BY <1>1, <1>2

\* A cell is on a row of the screen; but for the last row, the cell below it is on
\* the next.
LEMMA CellBelow ==
  ASSUME NEW i \in Cells
  PROVE  /\ RowOf(i) \in 0 .. Rows - 1
         /\ RowOf(i) < Rows - 1 => i + Cols \in Cells /\ RowOf(i + Cols) = RowOf(i) + 1
<1>1. PICK r \in Nat, c \in 0 .. Cols - 1 : i = r * Cols + c
  <2>1. i \in Nat
    BY DEF Cells
  <2>2. i \div Cols \in Nat /\ i % Cols \in 0 .. Cols - 1 /\ i = Cols * (i \div Cols) + (i % Cols)
    BY <2>1, Sizes
  <2>3. Cols * (i \div Cols) = (i \div Cols) * Cols
    BY <2>2, Sizes
  <2> QED BY <2>2, <2>3
<1>2. r < Rows
  <2>1. SUFFICES ASSUME Rows <= r PROVE FALSE
    BY Sizes
  <2>2. Rows * Cols <= r * Cols
    BY <2>1, Sizes
  <2> QED BY <1>1, <2>2, Sizes DEF Cells
<1>3. r \in 0 .. Rows - 1
  BY <1>2, Sizes
<1>4. RowOf(i) = r
  BY <1>1, <1>3, PlaceIsCell
<1>5. ASSUME r < Rows - 1 PROVE i + Cols \in Cells /\ RowOf(i + Cols) = r + 1
  <2>1. (r + 1) * Cols = r * Cols + Cols
    BY <1>3, Sizes
  <2>2. r * Cols \in Nat /\ c \in Nat
    BY <1>3, Sizes
  <2>3. i + Cols = (r + 1) * Cols + c
    BY <1>1, <2>1, <2>2, Sizes
  <2>4. r + 1 \in 0 .. Rows - 1
    BY <1>3, <1>5, Sizes
  <2> QED BY <2>3, <2>4, PlaceIsCell
<1> QED BY <1>3, <1>4, <1>5

-----------------------------------------------------------------------------
(* The page moves up.                                                      *)

\* Video memory m one line further up.
MovedUp(m) == [i \in Cells |-> IF RowOf(i) = Rows - 1 THEN Blank ELSE m[i + Cols]]

\* Video memory m after the first r turns of the loop.
AfterRows(m, r) ==
  IF r = 0 THEN m
  ELSE [i \in Cells |-> IF RowOf(i) < r - 1 THEN m[i + Cols]
                        ELSE IF RowOf(i) = r - 1 THEN Blank ELSE m[i]]

\* A turn of the loop.
LEMMA OneMoreRow ==
  ASSUME NEW m \in [Cells -> Glyphs], NEW r \in 1 .. Rows
  PROVE  vgaScrollRowUp(AfterRows(m, r - 1), r - 1) = AfterRows(m, r)
<1>0. r \in Nat /\ r - 1 \in Nat /\ r # 0
  OBVIOUS
<1>1. AfterRows(m, r) =
        [i \in Cells |-> IF RowOf(i) < r - 1 THEN m[i + Cols]
                         ELSE IF RowOf(i) = r - 1 THEN Blank ELSE m[i]]
  BY <1>0 DEF AfterRows
<1>2. CASE r - 1 = 0
  <2>1. vgaScrollRowUp(AfterRows(m, r - 1), r - 1)
          = [i \in Cells |-> IF RowOf(i) = 0 THEN Blank ELSE m[i]]
    BY <1>2 DEF vgaScrollRowUp, vgaClearRow, AfterRows
  <2>2. \A i \in Cells : RowOf(i) \in Nat
    BY CellBelow
  <2> QED BY <1>1, <1>2, <2>1, <2>2
<1>3. CASE r - 1 # 0
  <2> DEFINE w == [i \in Cells |-> IF RowOf(i) < r - 2 THEN m[i + Cols]
                                   ELSE IF RowOf(i) = r - 2 THEN Blank ELSE m[i]]
             v == [i \in Cells |-> IF RowOf(i) = r - 2 THEN w[i + Cols] ELSE w[i]]
  <2>1. AfterRows(m, r - 1) = w /\ (r - 1) - 1 = r - 2
    BY <1>0, <1>3 DEF AfterRows
  <2>2. vgaScrollRowUp(AfterRows(m, r - 1), r - 1)
          = [i \in Cells |-> IF RowOf(i) = r - 1 THEN Blank ELSE v[i]]
    <3> HIDE DEF w
    <3> QED BY <1>3, <2>1 DEF vgaScrollRowUp, vgaClearRow
  <2>3. ASSUME NEW i \in Cells
        PROVE  (IF RowOf(i) = r - 1 THEN Blank ELSE v[i])
                 = IF RowOf(i) < r - 1 THEN m[i + Cols]
                   ELSE IF RowOf(i) = r - 1 THEN Blank ELSE m[i]
    <3>1. RowOf(i) \in 0 .. Rows - 1
      BY CellBelow
    <3>2. CASE RowOf(i) = r - 2
      <4>1. i + Cols \in Cells /\ RowOf(i + Cols) = r - 1
        BY <1>0, <3>2, CellBelow, Sizes
      <4>2. w[i + Cols] = m[i + Cols]
        BY <1>0, <4>1
      <4> QED BY <1>0, <3>2, <4>2
    <3>3. CASE RowOf(i) # r - 2
      <4>1. v[i] = w[i]
        BY <3>3
      <4> QED BY <1>0, <3>1, <3>3, <4>1
    <3> QED BY <3>2, <3>3
  <2> HIDE DEF v
  <2> QED BY <1>1, <2>2, <2>3
<1> QED BY <1>2, <1>3

\* The loop over all rows.
LEMMA AllRows ==
  ASSUME NEW m \in [Cells -> Glyphs]
  PROVE  ScrollRows(m, 0) = MovedUp(m)
<1> DEFINE Loop(g) == g = [r \in 0 .. Rows |->
                             IF r = 0 THEN m ELSE vgaScrollRowUp(g[r - 1], r - 1)]
           w == [r \in 0 .. Rows |-> AfterRows(m, r)]
<1>1. Loop(w)
  <2>1. ASSUME NEW r \in 0 .. Rows
        PROVE  w[r] = IF r = 0 THEN m ELSE vgaScrollRowUp(w[r - 1], r - 1)
    <3>1. CASE r = 0
      BY <3>1 DEF AfterRows
    <3>2. CASE r # 0
      <4>1. r \in 1 .. Rows /\ r - 1 \in 0 .. Rows
        BY <3>2, Sizes
      <4>2. w[r] = AfterRows(m, r) /\ w[r - 1] = AfterRows(m, r - 1)
        BY <4>1
      <4> QED BY <3>2, <4>1, <4>2, OneMoreRow
    <3> QED BY <3>1, <3>2
  <2>2. w = [r \in 0 .. Rows |-> w[r]]
    OBVIOUS
  <2> HIDE DEF w
  <2> QED BY <2>1, <2>2
<1>2. ASSUME NEW g, Loop(g) PROVE g[Rows] = AfterRows(m, Rows)
  <2> DEFINE Off == {r \in 0 .. Rows : g[r] # AfterRows(m, r)}
  <2>1. Off = {}
    <3>1. SUFFICES ASSUME Off # {} PROVE FALSE
      OBVIOUS
    <3>2. PICK n \in Off : \A k \in Off : n <= k
      <4>1. Off \in SUBSET Nat
        OBVIOUS
      <4> QED BY <3>1, <4>1, Least
    <3>3. g[n] = IF n = 0 THEN m ELSE vgaScrollRowUp(g[n - 1], n - 1)
      BY <1>2
    <3>4. n # 0
      BY <3>3 DEF AfterRows
    <3>5. n \in 1 .. Rows /\ n - 1 \in 0 .. Rows /\ ~(n <= n - 1)
      BY <3>4, Sizes
    <3>6. g[n - 1] = AfterRows(m, n - 1)
      BY <3>2, <3>5
    <3> QED BY <3>3, <3>4, <3>5, <3>6, OneMoreRow
  <2>2. Rows \in 0 .. Rows
    BY Sizes
  <2> QED BY <2>1, <2>2
<1>3. ScrollRows(m, 0) = AfterRows(m, Rows)
  BY <1>1, <1>2 DEF ScrollRows
<1>4. AfterRows(m, Rows) = MovedUp(m)
  <2>1. \A i \in Cells : RowOf(i) \in 0 .. Rows - 1
    BY CellBelow
  <2> QED BY <2>1, Sizes DEF AfterRows, MovedUp
<1> QED BY <1>3, <1>4

-----------------------------------------------------------------------------
(* Scrolling and the cursor.                                               *)

Memory == [Cells -> Glyphs]

LEMMA MovedUpTyped ==
  ASSUME NEW m \in Memory
  PROVE  MovedUp(m) \in Memory
<1>1. ASSUME NEW i \in Cells
      PROVE  (IF RowOf(i) = Rows - 1 THEN Blank ELSE m[i + Cols]) \in Glyphs
  <2>1. CASE RowOf(i) = Rows - 1
    BY <2>1, ScreenAssumption
  <2>2. CASE RowOf(i) # Rows - 1
    <3>1. i + Cols \in Cells
      BY <2>2, CellBelow, Sizes
    <3> QED BY <2>2, <3>1 DEF Memory
  <2> QED BY <2>1, <2>2
<1> QED BY <1>1 DEF MovedUp, Memory

\* The screen scrolls by one line, also when it has only one.
LEMMA ScrollsByOne ==
  ASSUME NEW m \in Memory
  PROVE  ttyScrollUpFrom(m, 0) = MovedUp(m)
<1>1. CASE Rows = 1
  <2>1. \A i \in Cells : RowOf(i) = 0
    BY <1>1, CellBelow
  <2>2. ttyScrollUpFrom(m, 0) = [i \in Cells |-> IF RowOf(i) = 0 THEN Blank ELSE m[i]]
    BY <1>1 DEF ttyScrollUpFrom, vgaClearRow
  <2> QED BY <1>1, <2>1, <2>2 DEF MovedUp
<1>2. CASE Rows # 1
  <2>1. 0 # Rows - 1
    BY <1>2, Sizes
  <2> QED BY <2>1, AllRows DEF ttyScrollUpFrom, Memory
<1> QED BY <1>1, <1>2

\* What a valid cursor does.
OnScreen(c) == c \in Cursors /\ Validate(c)

LEMMA CursorPlace ==
  ASSUME NEW c, OnScreen(c)
  PROVE  /\ c.row \in 0 .. Rows - 1 /\ c.col \in 0 .. Cols - 1
         /\ c = [row |-> c.row, col |-> c.col]
         /\ Inc(c.row) = c.row + 1 /\ Inc(c.col) = c.col + 1
         /\ c.col # 0 => Dec(c.col) = c.col - 1
<1>1. c.row \in 0 .. Rows - 1 /\ c.col \in 0 .. Cols - 1
  BY Sizes DEF OnScreen, Validate, Cursors
<1>2. c = [row |-> c.row, col |-> c.col]
  BY DEF OnScreen, Cursors
<1>3. ASSUME NEW n \in Nat, n + 1 < Word PROVE (n + 1) % Word = n + 1
  BY <1>3, Sizes
<1>4. ASSUME NEW n \in Nat, n - 1 \in Nat, n < Word PROVE (n - 1) % Word = n - 1
  BY <1>4, Sizes
<1>5. Inc(c.row) = c.row + 1 /\ Inc(c.col) = c.col + 1
  <2>1. c.row \in Nat /\ c.col \in Nat /\ c.row + 1 < Word /\ c.col + 1 < Word
    BY <1>1, Sizes
  <2> QED BY <1>3, <2>1 DEF Inc
<1>6. ASSUME c.col # 0 PROVE Dec(c.col) = c.col - 1
  <2>1. c.col \in Nat /\ c.col - 1 \in Nat /\ c.col < Word
    BY <1>1, <1>6, Sizes
  <2> QED BY <1>4, <2>1 DEF Dec
<1> QED BY <1>1, <1>2, <1>5, <1>6

\* A place of the screen is a valid cursor.
LEMMA PlaceOnScreen ==
  ASSUME NEW r \in 0 .. Rows - 1, NEW k \in 0 .. Cols - 1
  PROVE  OnScreen([row |-> r, col |-> k])
<1>1. r \in 0 .. Word - 1 /\ k \in 0 .. Word - 1 /\ r < Rows /\ k < Cols
  BY Sizes
<1> QED BY <1>1 DEF OnScreen, Cursors, Validate

\* Down is a feed of the paper.
LEMMA DownFeeds ==
  ASSUME NEW c, OnScreen(c)
  PROVE  /\ Down(c).scroll <=> c.row = Rows - 1
         /\ Down(c).cur = [row |-> IF c.row = Rows - 1 THEN c.row ELSE c.row + 1, col |-> c.col]
<1>1. /\ c.row \in 0 .. Rows - 1 /\ c.col \in 0 .. Cols - 1
      /\ c = [row |-> c.row, col |-> c.col] /\ Inc(c.row) = c.row + 1
  BY CursorPlace
<1>2. Validate(c)
  BY DEF OnScreen
<1>3. CASE c.row = Rows - 1
  <2>1. Inc(c.row) = Rows
    BY <1>1, <1>3, Sizes
  <2> QED BY <1>1, <1>2, <1>3, <2>1 DEF Down, Scrolls
<1>4. CASE c.row # Rows - 1
  <2>1. Inc(c.row) # Rows
    BY <1>1, <1>4, Sizes
  <2>2. Down(c) = [cur |-> [c EXCEPT !.row = c.row + 1], scroll |-> FALSE]
    BY <1>1, <1>2, <2>1 DEF Down, Stays
  <2>3. [c EXCEPT !.row = c.row + 1] = [row |-> c.row + 1, col |-> c.col]
    BY <1>1
  <2> QED BY <1>4, <2>2, <2>3
<1> QED BY <1>3, <1>4

\* Advance is a step along the line, and at its end a feed.
LEMMA AdvanceFeeds ==
  ASSUME NEW c, OnScreen(c)
  PROVE  /\ c.col < Cols - 1 => /\ ~Advance(c).scroll
                                /\ Advance(c).cur = [row |-> c.row, col |-> c.col + 1]
         /\ c.col = Cols - 1 =>
              /\ Advance(c).scroll <=> c.row = Rows - 1
              /\ Advance(c).cur = [row |-> IF c.row = Rows - 1 THEN c.row ELSE c.row + 1, col |-> 0]
<1>1. /\ c.row \in 0 .. Rows - 1 /\ c.col \in 0 .. Cols - 1
      /\ c = [row |-> c.row, col |-> c.col] /\ Inc(c.col) = c.col + 1
  BY CursorPlace
<1>2. Validate(c)
  BY DEF OnScreen
<1>3. CASE c.col < Cols - 1
  <2>1. Inc(c.col) < Cols
    BY <1>1, <1>3, Sizes
  <2>2. Right(c) = [cur |-> [c EXCEPT !.col = c.col + 1], scroll |-> FALSE]
    BY <1>1, <1>2, <2>1 DEF Right, Stays
  <2>3. [c EXCEPT !.col = c.col + 1] = [row |-> c.row, col |-> c.col + 1]
    BY <1>1
  <2>4. Advance(c) = Right(c)
    BY <2>2 DEF Advance
  <2> QED BY <1>1, <1>3, <2>2, <2>3, <2>4, Sizes
<1>4. CASE c.col = Cols - 1
  <2> DEFINE z == [row |-> c.row, col |-> 0]
  <2>1. ~(Inc(c.col) < Cols)
    BY <1>1, <1>4, Sizes
  <2>2. [c EXCEPT !.col = 0] = z
    BY <1>1
  <2>3. Right(c) = Down(z)
    BY <1>2, <2>1, <2>2 DEF Right
  <2>4. OnScreen(z)
    <3>1. 0 \in 0 .. Cols - 1
      BY Sizes
    <3> QED BY <1>1, <3>1, PlaceOnScreen
  <2>5. z.row = c.row /\ z.col = 0
    OBVIOUS
  <2> HIDE DEF z
  <2>6. /\ Down(z).scroll <=> c.row = Rows - 1
        /\ Down(z).cur = [row |-> IF c.row = Rows - 1 THEN c.row ELSE c.row + 1, col |-> 0]
    BY <2>4, <2>5, DownFeeds
  <2>7. CASE c.row = Rows - 1
    <3>1. Down(z).cur = z
      BY <2>6, <2>7 DEF z
    <3>2. Advance(c) = Down(z)
      BY <2>3, <2>6, <2>7, <3>1 DEF Advance
    <3> QED BY <1>1, <1>4, <2>6, <3>2, Sizes
  <2>8. CASE c.row # Rows - 1
    <3>1. Advance(c) = Down(z)
      BY <2>3, <2>6, <2>8 DEF Advance
    <3> QED BY <1>1, <1>4, <2>6, <3>1, Sizes
  <2> QED BY <2>7, <2>8
<1> QED BY <1>1, <1>3, <1>4, Sizes

-----------------------------------------------------------------------------
(* What is written.                                                        *)

At(m, c) == [mem |-> m, cur |-> c, ok |-> TRUE]

\* One character, and the two of the enter key.
LEMMA WriteOne ==
  ASSUME NEW m, NEW c, NEW ch
  PROVE  ttyWrite(At(m, c), <<ch>>) = ttyPutChar(At(m, c), ch)
<1> DEFINE s == At(m, c)
           Loop(g) == g = [n \in 0 .. Len(<<ch>>) |->
                             IF n = 0 THEN s
                             ELSE IF g[n - 1].ok THEN ttyPutChar(g[n - 1], <<ch>>[n]) ELSE g[n - 1]]
           w == [n \in 0 .. 1 |-> IF n = 0 THEN s ELSE ttyPutChar(s, ch)]
<1>1. Len(<<ch>>) = 1 /\ <<ch>>[1] = ch /\ s.ok
  BY DEF At
<1> HIDE DEF s
<1>2. Loop(w)
  <2>1. \A n \in 0 .. 1 :
          w[n] = IF n = 0 THEN s
                 ELSE IF w[n - 1].ok THEN ttyPutChar(w[n - 1], <<ch>>[n]) ELSE w[n - 1]
    <3>1. w[0] = s /\ w[1] = ttyPutChar(s, ch)
      OBVIOUS
    <3> HIDE DEF w
    <3> QED BY <1>1, <3>1
  <2>2. w = [n \in 0 .. 1 |-> w[n]]
    OBVIOUS
  <2> HIDE DEF w
  <2> QED BY <1>1, <2>1, <2>2
<1>3. ASSUME NEW g, Loop(g) PROVE g[Len(<<ch>>)] = ttyPutChar(s, ch)
  <2>1. g[0] = s
    BY <1>1, <1>3
  <2>2. g[1] = IF g[0].ok THEN ttyPutChar(g[0], <<ch>>[1]) ELSE g[0]
    BY <1>1, <1>3
  <2> QED BY <1>1, <2>1, <2>2
<1> QED BY <1>2, <1>3 DEF ttyWrite, s

LEMMA WriteTwo ==
  ASSUME NEW m, NEW c, NEW a, NEW b, ttyPutChar(At(m, c), a).ok
  PROVE  ttyWrite(At(m, c), <<a, b>>) = ttyPutChar(ttyPutChar(At(m, c), a), b)
<1> DEFINE s == At(m, c)
           one == ttyPutChar(s, a)
           Loop(g) == g = [n \in 0 .. Len(<<a, b>>) |->
                             IF n = 0 THEN s
                             ELSE IF g[n - 1].ok THEN ttyPutChar(g[n - 1], <<a, b>>[n]) ELSE g[n - 1]]
           w == [n \in 0 .. 2 |-> IF n = 0 THEN s ELSE IF n = 1 THEN one ELSE ttyPutChar(one, b)]
<1>1. Len(<<a, b>>) = 2 /\ <<a, b>>[1] = a /\ <<a, b>>[2] = b /\ s.ok /\ one.ok
  BY DEF At
<1> HIDE DEF s
<1>2. Loop(w)
  <2>1. \A n \in 0 .. 2 :
          w[n] = IF n = 0 THEN s
                 ELSE IF w[n - 1].ok THEN ttyPutChar(w[n - 1], <<a, b>>[n]) ELSE w[n - 1]
    <3>1. w[0] = s /\ w[1] = one /\ w[2] = ttyPutChar(one, b)
      OBVIOUS
    <3>2. one = ttyPutChar(s, a)
      OBVIOUS
    <3> HIDE DEF w, one
    <3> QED BY <1>1, <3>1, <3>2
  <2>2. w = [n \in 0 .. 2 |-> w[n]]
    OBVIOUS
  <2> HIDE DEF w
  <2> QED BY <1>1, <2>1, <2>2
<1>3. ASSUME NEW g, Loop(g) PROVE g[Len(<<a, b>>)] = ttyPutChar(one, b)
  <2>1. g[0] = s
    BY <1>1, <1>3
  <2>2. g[1] = IF g[0].ok THEN ttyPutChar(g[0], <<a, b>>[1]) ELSE g[0]
    BY <1>1, <1>3
  <2>3. g[2] = IF g[1].ok THEN ttyPutChar(g[1], <<a, b>>[2]) ELSE g[1]
    BY <1>1, <1>3
  <2> QED BY <1>1, <2>1, <2>2, <2>3
<1>4. ttyWrite(s, <<a, b>>) = ttyPutChar(one, b)
  <2> HIDE DEF one
  <2> QED BY <1>2, <1>3 DEF ttyWrite
<1> QED BY <1>4 DEF s

\* The line the cursor is on after a feed, and video memory.
FedRow(c) == IF c.row = Rows - 1 THEN c.row ELSE c.row + 1
FedMem(m, c) == IF c.row = Rows - 1 THEN MovedUp(m) ELSE m

LEMMA FedTyped ==
  ASSUME NEW m \in Memory, NEW c, OnScreen(c)
  PROVE  FedMem(m, c) \in Memory /\ FedRow(c) \in 0 .. Rows - 1
<1>1. c.row \in 0 .. Rows - 1
  BY CursorPlace
<1> QED BY <1>1, MovedUpTyped, Sizes DEF FedRow, FedMem

LEMMA LineFeed ==
  ASSUME NEW m \in Memory, NEW c, OnScreen(c)
  PROVE  ttyPutChar(At(m, c), LF) = At(FedMem(m, c), [row |-> FedRow(c), col |-> c.col])
<1>1. LF # CR /\ LF \notin Glyphs
  BY ScreenAssumption DEF LF, CR
<1>2. ttyPutChar(At(m, c), LF)
        = [mem |-> Scrolled(m, Down(c)), cur |-> Down(c).cur, ok |-> TRUE]
  BY <1>1 DEF ttyPutChar, At
<1>3. Scrolled(m, Down(c)) = FedMem(m, c)
  BY DownFeeds, ScrollsByOne DEF Scrolled, FedMem
<1>4. Down(c).cur = [row |-> FedRow(c), col |-> c.col]
  BY DownFeeds DEF FedRow
<1> QED BY <1>2, <1>3, <1>4 DEF At

LEMMA CarriageReturn ==
  ASSUME NEW m \in Memory, NEW c, OnScreen(c)
  PROVE  ttyPutChar(At(m, c), CR) = At(m, [row |-> c.row, col |-> 0])
<1>1. LF # CR /\ CR \notin Glyphs
  BY ScreenAssumption DEF LF, CR
<1>2. Validate(c) = TRUE
  BY DEF OnScreen, Validate
<1>3. c = [row |-> c.row, col |-> c.col]
  BY CursorPlace
<1>4. BeginOfLine(c) = [row |-> c.row, col |-> 0]
  BY <1>2, <1>3 DEF BeginOfLine
<1>5. ttyPutChar(At(m, c), CR) = [At(m, c) EXCEPT !.cur = BeginOfLine(c), !.ok = Validate(c)]
  BY <1>1 DEF ttyPutChar, At
<1> QED BY <1>2, <1>4, <1>5 DEF At

PutAt(m, c, g) == [m EXCEPT ![PosToLineal(c)] = g]

LEMMA Glyph ==
  ASSUME NEW m \in Memory, NEW c, OnScreen(c), NEW g \in Glyphs
  PROVE  /\ PutAt(m, c, g) \in Memory
         /\ ttyPutChar(At(m, c), g) =
              IF c.col < Cols - 1 THEN At(PutAt(m, c, g), [row |-> c.row, col |-> c.col + 1])
              ELSE At(FedMem(PutAt(m, c, g), c), [row |-> FedRow(c), col |-> 0])
<1>1. g # LF /\ g # CR
  BY ScreenAssumption DEF LF, CR
<1>2. Validate(c) /\ c.row \in 0 .. Rows - 1 /\ c.col \in 0 .. Cols - 1
  BY CursorPlace DEF OnScreen
<1>3. PutAt(m, c, g) \in Memory
  <2>1. PosToLineal(c) \in Cells
    BY <1>2, PlaceIsCell DEF PosToLineal
  <2> QED BY <2>1 DEF PutAt, Memory
<1>4. ttyPutChar(At(m, c), g)
        = [mem |-> Scrolled(PutAt(m, c, g), Advance(c)), cur |-> Advance(c).cur, ok |-> TRUE]
  BY <1>1, <1>2 DEF ttyPutChar, At, PutAt
<1>5. CASE c.col < Cols - 1
  <2>1. ~Advance(c).scroll /\ Advance(c).cur = [row |-> c.row, col |-> c.col + 1]
    BY <1>5, AdvanceFeeds
  <2> QED BY <1>3, <1>4, <1>5, <2>1 DEF Scrolled, At
<1>6. CASE ~(c.col < Cols - 1)
  <2>1. c.col = Cols - 1
    BY <1>2, <1>6, Sizes
  <2>2. /\ Advance(c).scroll <=> c.row = Rows - 1
        /\ Advance(c).cur = [row |-> FedRow(c), col |-> 0]
    BY <2>1, AdvanceFeeds DEF FedRow
  <2>3. Scrolled(PutAt(m, c, g), Advance(c)) = FedMem(PutAt(m, c, g), c)
    BY <1>3, <2>2, ScrollsByOne DEF Scrolled, FedMem
  <2> QED BY <1>3, <1>4, <1>6, <2>2, <2>3 DEF At
<1> QED BY <1>5, <1>6, <1>3

-----------------------------------------------------------------------------
(* The paper.                                                              *)

Page(m) == [p \in (0 .. Rows - 1) \X (0 .. Cols - 1) |-> m[p[1] * Cols + p[2]]]

\* A character on the screen is one on the paper.
LEMMA PutOnPaper ==
  ASSUME NEW m \in Memory, NEW c, OnScreen(c), NEW g \in Glyphs
  PROVE  Page(PutAt(m, c, g)) = [Page(m) EXCEPT ![<<c.row, c.col>>] = g]
<1>1. c.row \in 0 .. Rows - 1 /\ c.col \in 0 .. Cols - 1
  BY CursorPlace
<1>2. ASSUME NEW p \in (0 .. Rows - 1) \X (0 .. Cols - 1)
      PROVE  PutAt(m, c, g)[p[1] * Cols + p[2]]
               = IF p = <<c.row, c.col>> THEN g ELSE m[p[1] * Cols + p[2]]
  <2>1. PICK r \in 0 .. Rows - 1, k \in 0 .. Cols - 1 : p = <<r, k>>
    BY <1>2
  <2>2. r * Cols + k \in Cells
    BY PlaceIsCell
  <2>3. r * Cols + k = c.row * Cols + c.col <=> p = <<c.row, c.col>>
    BY <1>1, <2>1, CellOfOne
  <2> QED BY <2>1, <2>2, <2>3 DEF PutAt, PosToLineal, Memory
<1> QED BY <1>1, <1>2 DEF Page

\* Moving all rows up feeds the paper.
LEMMA MovedIsFed ==
  ASSUME NEW m \in Memory
  PROVE  Page(MovedUp(m)) = Paper!Fed(Page(m))
<1>1. ASSUME NEW p \in (0 .. Rows - 1) \X (0 .. Cols - 1)
      PROVE  MovedUp(m)[p[1] * Cols + p[2]]
               = IF p[1] = Rows - 1 THEN Blank ELSE Page(m)[<<p[1] + 1, p[2]>>]
  <2>1. PICK r \in 0 .. Rows - 1, k \in 0 .. Cols - 1 : p = <<r, k>>
    BY <1>1
  <2>2. r * Cols + k \in Cells /\ RowOf(r * Cols + k) = r
    BY PlaceIsCell
  <2>3. CASE r = Rows - 1
    BY <2>1, <2>2, <2>3 DEF MovedUp
  <2>4. CASE r # Rows - 1
    <3>1. r + 1 \in 0 .. Rows - 1
      BY <2>4, Sizes
    <3>2. Page(m)[<<r + 1, k>>] = m[(r + 1) * Cols + k]
      BY <3>1 DEF Page
    <3>3. (r + 1) * Cols + k = (r * Cols + k) + Cols
      <4>1. (r + 1) * Cols = r * Cols + Cols /\ r * Cols \in Nat
        BY Sizes
      <4> QED BY <4>1, Sizes
    <3> QED BY <2>1, <2>2, <2>4, <3>2, <3>3 DEF MovedUp
  <2> QED BY <2>3, <2>4
<1> QED BY <1>1 DEF Page, Paper!Fed, Paper!Places

-----------------------------------------------------------------------------
(* The screen is a teletype's.                                             *)

LEMMA InitTyped == Init => TypeOK
<1>1. 0 \in 0 .. Rows - 1 /\ 0 \in 0 .. Cols - 1 /\ 0 \in 0 .. MaxLine - 1
  BY Sizes, ScreenAssumption
<1>2. OnScreen([row |-> 0, col |-> 0])
  BY <1>1, PlaceOnScreen
<1> QED BY <1>1, <1>2, ScreenAssumption DEF Init, TypeOK, OnScreen

\* What is shown after a step, and that it is a step of the teletype.
Fine(m, c) == m \in Memory /\ OnScreen(c)
Fed(m, c, k) == vgaMemory' = FedMem(m, c) /\ cursorPosition' = [row |-> FedRow(c), col |-> k]
Feeds(pg) ==
  IF cursorPosition.row < Rows - 1
  THEN cursorPosition'.row = cursorPosition.row + 1 /\ Page(vgaMemory') = pg
  ELSE cursorPosition'.row = cursorPosition.row /\ Page(vgaMemory') = Paper!Fed(pg)

LEMMA FeedIsFeed ==
  ASSUME Fine(vgaMemory, cursorPosition), NEW m \in Memory, NEW k \in 0 .. Cols - 1,
         Fed(m, cursorPosition, k)
  PROVE  /\ Fine(vgaMemory', cursorPosition') /\ cursorPosition'.col = k
         /\ Feeds(Page(m))
<1> DEFINE c == cursorPosition
<1>1. c.row \in 0 .. Rows - 1 /\ OnScreen(c)
  BY CursorPlace DEF Fine
<1>2. vgaMemory' = FedMem(m, c) /\ cursorPosition' = [row |-> FedRow(c), col |-> k]
  BY DEF Fed
<1>3. FedMem(m, c) \in Memory /\ FedRow(c) \in 0 .. Rows - 1
  BY <1>1, FedTyped
<1>4. Fine(vgaMemory', cursorPosition')
  BY <1>2, <1>3, PlaceOnScreen DEF Fine
<1>5. cursorPosition'.row = FedRow(c) /\ cursorPosition'.col = k
  BY <1>2
<1>6. CASE c.row = Rows - 1
  <2>1. Page(vgaMemory') = Paper!Fed(Page(m))
    BY <1>2, <1>6, MovedIsFed DEF FedMem
  <2>2. cursorPosition'.row = c.row /\ ~(c.row < Rows - 1)
    BY <1>1, <1>5, <1>6, Sizes DEF FedRow
  <2>3. Feeds(Page(m))
    BY <2>1, <2>2 DEF Feeds
  <2> QED BY <1>4, <1>5, <2>3
<1>7. CASE c.row # Rows - 1
  <2>1. Page(vgaMemory') = Page(m)
    BY <1>2, <1>7 DEF FedMem
  <2>2. cursorPosition'.row = c.row + 1 /\ c.row < Rows - 1
    BY <1>1, <1>5, <1>7, Sizes DEF FedRow
  <2>3. Feeds(Page(m))
    BY <2>1, <2>2 DEF Feeds
  <2> QED BY <1>4, <1>5, <2>3
<1> QED BY <1>6, <1>7

\* A character is written by the kernel, by the echo.
LEMMA GlyphStrikes ==
  ASSUME Fine(vgaMemory, cursorPosition), NEW g \in Glyphs, Shows(ttyWrite(Now, <<g>>))
  PROVE  Fine(vgaMemory', cursorPosition') /\ Paper!Strike(g)
<1> DEFINE m == vgaMemory
           c == cursorPosition
           p == PutAt(m, c, g)
<1>1. m \in Memory /\ OnScreen(c) /\ Now = At(m, c)
  BY DEF Fine, Now, At
<1>2. c.row \in 0 .. Rows - 1 /\ c.col \in 0 .. Cols - 1
  BY <1>1, CursorPlace
<1>3. p \in Memory /\ Page(p) = [Page(m) EXCEPT ![<<c.row, c.col>>] = g]
  BY <1>1, Glyph, PutOnPaper
<1>4. Page(p) = Paper!Struck(g)
  BY <1>3 DEF Paper!Struck, Page
<1>5. ttyWrite(Now, <<g>>) =
        IF c.col < Cols - 1 THEN At(p, [row |-> c.row, col |-> c.col + 1])
        ELSE At(FedMem(p, c), [row |-> FedRow(c), col |-> 0])
  BY <1>1, WriteOne, Glyph
<1>6. CASE c.col < Cols - 1
  <2>1. vgaMemory' = p /\ cursorPosition' = [row |-> c.row, col |-> c.col + 1]
    BY <1>5, <1>6 DEF Shows, At
  <2>2. c.col + 1 \in 0 .. Cols - 1
    BY <1>2, <1>6, Sizes
  <2>3. Fine(vgaMemory', cursorPosition')
    BY <1>2, <1>3, <2>1, <2>2, PlaceOnScreen DEF Fine
  <2>4. Page(vgaMemory') = Paper!Struck(g)
    BY <1>4, <2>1
  <2> QED BY <1>6, <2>1, <2>3, <2>4 DEF Paper!Strike, Page
<1>7. CASE ~(c.col < Cols - 1)
  <2>1. Fed(p, c, 0)
    BY <1>5, <1>7 DEF Shows, At, Fed
  <2>2. PICK z \in 0 .. Cols - 1 : z = 0
    BY Sizes
  <2> HIDE DEF p, c, m
  <2>3. Fed(p, cursorPosition, z)
    BY <2>1, <2>2 DEF c
  <2>4. Fine(vgaMemory', cursorPosition') /\ cursorPosition'.col = z /\ Feeds(Page(p))
    BY <1>3, <2>3, FeedIsFeed
  <2>5. Feeds(Paper!Struck(g))
    BY <1>4, <2>4
  <2>6. ~(cursorPosition.col < Cols - 1) /\ cursorPosition'.col = 0
    BY <1>7, <2>2, <2>4 DEF c
  <2> QED BY <2>4, <2>5, <2>6 DEF Paper!Strike, Paper!Feed, Feeds, Page
<1> QED BY <1>6, <1>7

\* The enter key, and a line feed of the kernel.
LEMMA NewlineFeeds ==
  ASSUME Fine(vgaMemory, cursorPosition), NEW k \in {cursorPosition.col, 0},
         Fed(vgaMemory, cursorPosition, k)
  PROVE  Fine(vgaMemory', cursorPosition') /\ Paper!Newline
<1>1. vgaMemory \in Memory /\ k \in 0 .. Cols - 1
  BY CursorPlace, Sizes DEF Fine
<1>2. /\ Fine(vgaMemory', cursorPosition') /\ cursorPosition'.col = k
      /\ Feeds(Page(vgaMemory))
  BY <1>1, FeedIsFeed
<1>3. cursorPosition'.col \in {cursorPosition.col, 0}
  BY <1>2
<1> QED BY <1>2, <1>3 DEF Paper!Newline, Paper!Feed, Feeds, Page

\* The echo of a backspace: the space is written one place to the left, where
\* the cursor is put back.
LEMMA BackspaceErases ==
  ASSUME Fine(vgaMemory, cursorPosition), Shows(blankPriorChar(Now))
  PROVE  Fine(vgaMemory', cursorPosition') /\ Paper!Erase
<1> DEFINE m == vgaMemory
           c == cursorPosition
           k == IF c.col = 0 THEN 0 ELSE c.col - 1
           d == [row |-> c.row, col |-> k]
           p == PutAt(m, d, Blank)
<1>1. m \in Memory /\ OnScreen(c) /\ Now = At(m, c) /\ Blank \in Glyphs
  BY ScreenAssumption DEF Fine, Now, At
<1>2. /\ c.row \in 0 .. Rows - 1 /\ c.col \in 0 .. Cols - 1
      /\ c = [row |-> c.row, col |-> c.col] /\ (c.col # 0 => Dec(c.col) = c.col - 1)
  BY <1>1, CursorPlace
<1>3. k \in 0 .. Cols - 1 /\ OnScreen(d)
  <2>1. k \in 0 .. Cols - 1
    BY <1>2, Sizes
  <2> QED BY <1>2, <2>1, PlaceOnScreen
<1>4. StepLeft(At(m, c)) = At(m, d)
  <2>1. CASE c.col = 0
    BY <1>2, <2>1 DEF StepLeft, At
  <2>2. CASE c.col # 0
    <3>1. StepLeft(At(m, c)) = [At(m, c) EXCEPT !.cur.col = c.col - 1]
      BY <1>2, <2>2 DEF StepLeft, At
    <3>2. [c EXCEPT !.col = c.col - 1] = d
      BY <1>2, <2>2
    <3> QED BY <3>1, <3>2 DEF At
  <2> QED BY <2>1, <2>2
<1>5. p \in Memory /\ Page(p) = [Page(m) EXCEPT ![<<c.row, k>>] = Blank]
  <2>1. d.row = c.row /\ d.col = k
    OBVIOUS
  <2> HIDE DEF d, k, c, m
  <2> QED BY <1>1, <1>3, <2>1, Glyph, PutOnPaper
<1>6. ttyWrite(At(m, d), <<Blank>>) = At(p, [row |-> c.row, col |-> k + 1])
  <2>1. d.row = c.row /\ d.col = k
    OBVIOUS
  <2>2. k < Cols - 1
    BY <1>2, Sizes, ScreenAssumption
  <2> HIDE DEF d, k, c, m
  <2>3. ttyWrite(At(m, d), <<Blank>>) = ttyPutChar(At(m, d), Blank)
    BY WriteOne
  <2>4. ttyPutChar(At(m, d), Blank) =
          IF d.col < Cols - 1 THEN At(PutAt(m, d, Blank), [row |-> d.row, col |-> d.col + 1])
          ELSE At(FedMem(PutAt(m, d, Blank), d), [row |-> FedRow(d), col |-> 0])
    BY <1>1, <1>3, Glyph
  <2> QED BY <2>1, <2>2, <2>3, <2>4
<1>7. StepLeft(At(p, [row |-> c.row, col |-> k + 1])) = At(p, d)
  <2> DEFINE e == [row |-> c.row, col |-> k + 1]
  <2>1. k + 1 \in 0 .. Cols - 1 /\ k \in Nat /\ k + 1 # 0 /\ (k + 1) - 1 = k
    BY <1>2, Sizes, ScreenAssumption
  <2>2. OnScreen(e) /\ e.col = k + 1
    BY <1>2, <2>1, PlaceOnScreen
  <2> HIDE DEF p, k
  <2>3. [e EXCEPT !.col = k] = d
    OBVIOUS
  <2> HIDE DEF e, d
  <2>4. Dec(e.col) = k
    BY <2>1, <2>2, CursorPlace
  <2>5. StepLeft(At(p, e)) = [At(p, e) EXCEPT !.cur.col = k]
    BY <2>1, <2>2, <2>4 DEF StepLeft, At
  <2> QED BY <2>3, <2>5 DEF At, e
<1>8. vgaMemory' = p /\ cursorPosition' = d
  BY <1>1, <1>4, <1>6, <1>7 DEF Shows, blankPriorChar, At
<1>9. Fine(vgaMemory', cursorPosition')
  BY <1>3, <1>5, <1>8 DEF Fine
<1>10. /\ cursorPosition'.row = c.row /\ cursorPosition'.col = k
       /\ Page(vgaMemory') = [Page(m) EXCEPT ![<<c.row, k>>] = Blank]
  BY <1>5, <1>8
<1> QED BY <1>9, <1>10 DEF Paper!Erase, Page

LEMMA ReturnReturns ==
  ASSUME Fine(vgaMemory, cursorPosition), Shows(ttyWrite(Now, <<CR>>))
  PROVE  Fine(vgaMemory', cursorPosition') /\ Paper!Return
<1> DEFINE d == [row |-> cursorPosition.row, col |-> 0]
<1>1. vgaMemory \in Memory /\ OnScreen(cursorPosition) /\ Now = At(vgaMemory, cursorPosition)
  BY DEF Fine, Now, At
<1>2. ttyWrite(Now, <<CR>>) = At(vgaMemory, d)
  BY <1>1, WriteOne, CarriageReturn
<1>3. vgaMemory' = vgaMemory /\ cursorPosition' = d
  BY <1>2 DEF Shows, At
<1>4. OnScreen(d)
  <2>1. 0 \in 0 .. Cols - 1 /\ cursorPosition.row \in 0 .. Rows - 1
    BY <1>1, CursorPlace, Sizes
  <2> QED BY <2>1, PlaceOnScreen
<1> QED BY <1>1, <1>3, <1>4 DEF Fine, Paper!Return

LEMMA LineFeedFeeds ==
  ASSUME Fine(vgaMemory, cursorPosition), Shows(ttyWrite(Now, <<LF>>))
  PROVE  Fine(vgaMemory', cursorPosition') /\ Paper!Newline
<1>1. vgaMemory \in Memory /\ OnScreen(cursorPosition) /\ Now = At(vgaMemory, cursorPosition)
  BY DEF Fine, Now, At
<1>2. ttyPutChar(Now, LF) = At(FedMem(vgaMemory, cursorPosition),
                               [row |-> FedRow(cursorPosition), col |-> cursorPosition.col])
  BY <1>1, LineFeed
<1>3. ttyWrite(Now, <<LF>>) = ttyPutChar(Now, LF)
  BY <1>1, WriteOne
<1>4. Fed(vgaMemory, cursorPosition, cursorPosition.col)
  BY <1>2, <1>3 DEF Fed, Shows, At
<1> QED BY <1>4, NewlineFeeds

LEMMA EnterFeeds ==
  ASSUME Fine(vgaMemory, cursorPosition), Shows(ttyWrite(Now, <<LF, CR>>))
  PROVE  Fine(vgaMemory', cursorPosition') /\ Paper!Newline
<1> DEFINE m == vgaMemory
           c == cursorPosition
           d == [row |-> FedRow(c), col |-> c.col]
<1>1. m \in Memory /\ OnScreen(c) /\ Now = At(m, c)
  BY DEF Fine, Now, At
<1>2. ttyPutChar(Now, LF) = At(FedMem(m, c), d)
  BY <1>1, LineFeed
<1>3. FedMem(m, c) \in Memory /\ OnScreen(d) /\ d.row = FedRow(c)
  BY <1>1, FedTyped, CursorPlace, PlaceOnScreen
<1>4. ttyWrite(Now, <<LF, CR>>) = ttyPutChar(At(FedMem(m, c), d), CR)
  <2>1. ttyPutChar(At(m, c), LF).ok
    BY <1>1, <1>2 DEF At
  <2> QED BY <1>1, <1>2, <2>1, WriteTwo
<1>5. ttyPutChar(At(FedMem(m, c), d), CR) = At(FedMem(m, c), [row |-> FedRow(c), col |-> 0])
  <2> HIDE DEF d
  <2> QED BY <1>3, CarriageReturn
<1>6. PICK z \in {cursorPosition.col, 0} : z = 0
  OBVIOUS
<1>7. Fed(vgaMemory, cursorPosition, z)
  BY <1>4, <1>5, <1>6 DEF Fed, Shows, At
<1> QED BY <1>7, NewlineFeeds

\* A step of the callers.
LEMMA StepIsTeletype ==
  ASSUME TypeOK, [Next]_svars
  PROVE  TypeOK' /\ [Paper!Next]_Paper!tvars
<1>1. Fine(vgaMemory, cursorPosition) /\ typed \in 0 .. MaxLine - 1
  BY DEF TypeOK, Fine, OnScreen, Memory
<1>2. ASSUME Fine(vgaMemory', cursorPosition'), typed' \in 0 .. MaxLine - 1 PROVE TypeOK'
  BY <1>2 DEF TypeOK, Fine, OnScreen, Memory
<1>3. MaxLine \in Nat \ {0}
  BY ScreenAssumption
<1>4. ASSUME NEW ch \in Glyphs \cup {LF, CR}, KernelPrints(ch)
      PROVE  TypeOK' /\ Paper!Next
  <2>1. Shows(ttyWrite(Now, <<ch>>)) /\ typed' \in 0 .. MaxLine - 1
    BY <1>1, <1>4 DEF KernelPrints
  <2>2. CASE ch \in Glyphs
    BY <1>1, <1>2, <2>1, <2>2, GlyphStrikes DEF Paper!Next
  <2>3. CASE ch = LF
    BY <1>1, <1>2, <2>1, <2>3, LineFeedFeeds DEF Paper!Next
  <2>4. CASE ch = CR
    BY <1>1, <1>2, <2>1, <2>4, ReturnReturns DEF Paper!Next
  <2> QED BY <2>2, <2>3, <2>4
<1>5. ASSUME NEW g \in Glyphs, EchoChar(g)
      PROVE  TypeOK' /\ Paper!Next
  <2>1. Shows(ttyWrite(Now, <<g>>)) /\ typed' \in 0 .. MaxLine - 1
    BY <1>1, <1>3, <1>5 DEF EchoChar
  <2> QED BY <1>1, <1>2, <2>1, GlyphStrikes DEF Paper!Next
<1>6. CASE EchoEnter
  <2>1. Shows(ttyWrite(Now, <<LF, CR>>)) /\ typed' \in 0 .. MaxLine - 1
    BY <1>1, <1>3, <1>6 DEF EchoEnter
  <2> QED BY <1>1, <1>2, <2>1, EnterFeeds DEF Paper!Next
<1>7. CASE EchoBackspace
  <2>1. Shows(blankPriorChar(Now)) /\ typed' \in 0 .. MaxLine - 1
    BY <1>1, <1>3, <1>7 DEF EchoBackspace
  <2> QED BY <1>1, <1>2, <2>1, BackspaceErases DEF Paper!Next
<1>8. CASE UNCHANGED svars
  BY <1>8 DEF svars, TypeOK, Paper!tvars
<1> QED BY <1>4, <1>5, <1>6, <1>7, <1>8 DEF Next

\* The cursor is on the screen after every call and nothing is written outside
\* video memory (80x25cursor.c, vga.c), for every size of the screen.
THEOREM AlwaysTyped == Spec => []TypeOK
<1>1. TypeOK /\ [Next]_svars => TypeOK'
  BY StepIsTeletype
<1> QED BY InitTyped, <1>1, PTL DEF Spec

\* Whatever the kernel prints and the user types, moves the screen as a teletype:
\* by one line when, and only when, the end of the last line is passed
\* (tty.c, vga.c, kbd.c).
THEOREM ImplementsTeletype == Spec => RefinesTeletype
<1>1. Init => Paper!Init
  <2>1. SUFFICES ASSUME Init PROVE Paper!Init
    OBVIOUS
  <2>2. \A p \in (0 .. Rows - 1) \X (0 .. Cols - 1) : vgaMemory[p[1] * Cols + p[2]] = Blank
    BY <2>1, PlaceIsCell DEF Init
  <2> QED BY <2>1, <2>2 DEF Init, Paper!Init, Paper!Places
<1>2. TypeOK /\ [Next]_svars => [Paper!Next]_Paper!tvars
  BY StepIsTeletype
<1> QED BY <1>1, <1>2, AlwaysTyped, PTL DEF Spec, RefinesTeletype, Paper!Spec
=============================================================================
