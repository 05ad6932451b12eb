----------------------------- MODULE KeyMailbox -----------------------------
(***************************************************************************)
(* What the keyboard driver promises its reader: a box for one key.  A key *)
(* is put only in an empty box, what is taken is what was put, and every   *)
(* key taken is taken once.  Keys that find the box taken are dropped,     *)
(* which is no step of this module.                                        *)
(***************************************************************************)
CONSTANTS Keys, NoKey

VARIABLES
  box,    \* the key waiting, or NoKey
  got     \* the key the reader took last, or NoKey if there was none

Init == box = NoKey /\ got = NoKey

Put     == box = NoKey /\ box' \in Keys /\ UNCHANGED got
Take    == box # NoKey /\ got' = box /\ box' = NoKey
Nothing == box = NoKey /\ got' = NoKey /\ UNCHANGED box

Next == Put \/ Take \/ Nothing

mvars == <<box, got>>

Spec == Init /\ [][Next]_mvars
=============================================================================
