--------------------------- MODULE FrameOwnership ---------------------------
(***************************************************************************)
(* What a physical memory manager promises its clients: a frame belongs to *)
(* one client at a time, a client is given only frames nobody has, and     *)
(* loses only frames it gives back.  Nothing is said of which frames are   *)
(* given, or of when a request is refused.                                 *)
(***************************************************************************)
CONSTANTS Clients, Frames

VARIABLE holds    \* [Clients -> SUBSET Frames]

Held == UNION {holds[c] : c \in Clients}

Init == holds = [c \in Clients |-> {}]

Take(c, S) ==
  /\ S \cap Held = {}
  /\ holds' = [holds EXCEPT ![c] = @ \cup S]

Give(c, S) ==
  /\ S \subseteq holds[c]
  /\ holds' = [holds EXCEPT ![c] = @ \ S]

Next == \E c \in Clients, S \in SUBSET Frames : Take(c, S) \/ Give(c, S)

Spec == Init /\ [][Next]_holds
=============================================================================
