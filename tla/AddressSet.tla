----------------------------- MODULE AddressSet -----------------------------
(***************************************************************************)
(* A set of addresses.  An address is put in when it is not there and      *)
(* taken out when it is; nothing else comes or goes, until the set is lost.*)
(***************************************************************************)
CONSTANT Addresses
VARIABLES members, lost

Init == members = {} /\ ~lost

\* The one that is new, the one that is gone.
Put == \E a \in members' \ members : a \in Addresses /\ members' = members \cup {a}
Take == \E a \in members \ members' : members' = members \ {a}

Next == ~lost /\ (lost' \/ Put \/ Take)

Spec == Init /\ [][Next]_<<members, lost>>
=============================================================================
