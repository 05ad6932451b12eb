------------------------------ MODULE MCDesks -------------------------------
(***************************************************************************)
(* The keyboard driver with one of four users, each with the keys that     *)
(* make a question interesting, so that one run asks all of them:          *)
(*   "errors":  ordinary keys, two at once when shifted, and errors;       *)
(*   "cursor",                                                             *)
(*   "control": an extended key whose second byte may come late, and an    *)
(*              ordinary one close behind it;                              *)
(*   "shifts":  everything that sends the codes of a shift key.            *)
(***************************************************************************)
EXTENDS MCPs2Kbd

VARIABLE desk

Desk == [errors  |-> [keys |-> {"F3", "lshift", "error"}, wire |-> 2],
         cursor  |-> [keys |-> {"up", "a"}, wire |-> 3],
         control |-> [keys |-> {"rctrl", "a"}, wire |-> 3],
         shifts  |-> [keys |-> {"lshift", "rshift", "caps", "prtsc"}, wire |-> 4]]

DeskInit == Init /\ desk \in DOMAIN Desk

\* Only the keys of the desk are pressed; print screen's bytes do not come late.
DeskNext ==
  /\ Next
  /\ down' \subseteq Desk[desk].keys
  /\ Len(wire') <= Desk[desk].wire
  /\ HandleSplit => desk # "shifts"
  /\ UNCHANGED desk

\* The desks' keys send what a theorem about shift asks for.
ASSUME DeskLayouts == \A d \in DOMAIN Desk : Layout(Desk[d].keys, d # "shifts")

DeskSpec == DeskInit /\ [][DeskNext]_<<vars, desk>>
=============================================================================
