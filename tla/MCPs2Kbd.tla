------------------------------ MODULE MCPs2Kbd ------------------------------
(* The keyboard driver alone, with the keyboards of Keyboards.             *)
EXTENDS Ps2Kbd, Keyboards

MCMake  == [k \in PhysKeys |-> Codes[k][1]]
MCBreak == [k \in PhysKeys |-> Codes[k][2]]
MCTypematic == [k \in PhysKeys |-> Repeats(k)]
=============================================================================
