---------------------------- MODULE MCInterrupts ----------------------------
(***************************************************************************)
(* Interrupts, with each behaviour about one or two of the faults: they    *)
(* may come anywhere, and inside each other.                               *)
(***************************************************************************)
EXTENDS Interrupts

VARIABLE about      \* the faults this behaviour may meet

\* A double fault and a page fault in each other; every other one on its own.
Groups == {{8, 14}} \cup {{v} : v \in Faults \ {8, 14}}

MCInit == Init /\ about \in Groups
MCNext ==
  /\ \/ Step \/ Interrupt
     \/ \E v \in about : Fault(v)
     \/ \E l \in Lines : Raise(l)
  /\ UNCHANGED about

MCSpec == MCInit /\ [][MCNext]_<<ivars, about>> /\ Fairness
=============================================================================
