------------------------------ MODULE Teletype ------------------------------
(***************************************************************************)
(* What a text console promises: a page of Rows lines and a print head.    *)
(* The head never leaves the page.  Past the end of a line it goes to the  *)
(* start of the next; past the last line the page moves up by exactly one, *)
(* its first line is lost and its last line is blank.                      *)
(***************************************************************************)
EXTENDS Integers

CONSTANTS Rows, Cols, Glyphs, Blank

VARIABLES page, row, col

tvars == <<page, row, col>>

Places == (0 .. Rows - 1) \X (0 .. Cols - 1)

Init == page = [p \in Places |-> Blank] /\ row = 0 /\ col = 0

Fed(pg) ==
  [p \in Places |-> IF p[1] = Rows - 1 THEN Blank ELSE pg[<<p[1] + 1, p[2]>>]]

\* The head goes to the next line of page pg.
Feed(pg) ==
  IF row < Rows - 1 THEN row' = row + 1 /\ page' = pg
                    ELSE row' = row /\ page' = Fed(pg)

Struck(g) == [page EXCEPT ![<<row, col>>] = g]

Strike(g) ==
  IF col < Cols - 1 THEN col' = col + 1 /\ page' = Struck(g) /\ UNCHANGED row
                    ELSE col' = 0 /\ Feed(Struck(g))
Newline == Feed(page) /\ col' \in {col, 0}
Return  == col' = 0 /\ UNCHANGED <<page, row>>

\* The place left of the head is blanked, and the head is over it.
Erase ==
  /\ col' = IF col = 0 THEN 0 ELSE col - 1
  /\ page' = [page EXCEPT ![<<row, col'>>] = Blank]
  /\ UNCHANGED row

Next == (\E g \in Glyphs : Strike(g)) \/ Newline \/ Return \/ Erase

Spec == Init /\ [][Next]_tvars
=============================================================================
