----------------------------- MODULE MCKbdInput -----------------------------
(* Line input, with the keyboards of Keyboards.                            *)
EXTENDS KbdInput, Keyboards

MCMake  == [k \in PhysKeys |-> Codes[k][1]]
MCBreak == [k \in PhysKeys |-> Codes[k][2]]
MCTypematic == [k \in PhysKeys |-> Repeats(k)]

\* The line of one `a' stands for "exit".
MCExit == <<<<FALSE, \h1E, FALSE>>>>

\* That line already, and characters without an end.
MCResidue ==
  LET Filled(s, c) == [i \in Places |-> IF i < Len(s) THEN s[i + 1] ELSE c]
  IN  {Filled(MCExit, NUL), Filled(<<>>, MCExit[1])}
=============================================================================
