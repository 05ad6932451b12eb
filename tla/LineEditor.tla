----------------------------- MODULE LineEditor -----------------------------
(***************************************************************************)
(* What line input promises: a line of at most Max characters that grows   *)
(* at its end, shrinks at its end, and starts again empty.                 *)
(***************************************************************************)
EXTENDS Integers, Sequences

CONSTANTS Chars, Max

VARIABLE text

Init == text = <<>>

Type  == Len(text) < Max /\ text' \in {Append(text, c) : c \in Chars}
Erase == text # <<>> /\ text' = SubSeq(text, 1, Len(text) - 1)
Fresh == text' = <<>>

Next == Type \/ Erase \/ Fresh

Spec == Init /\ [][Next]_text
=============================================================================
