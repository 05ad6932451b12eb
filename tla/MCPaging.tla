------------------------------ MODULE MCPaging ------------------------------
(* Two entries: a user one and a kernel one in an odd frame; in the other    *)
(* directory the kernel one is not used.  Attributes do not meet except in a *)
(* sync, where they are treated alike, so each behaviour is about two of     *)
(* them, or about one and the flags of vmm.c.                                *)
EXTENDS Paging, TLC
VARIABLE about
Mapped(f) == [attrs |-> {"present", "write"}, frame |-> f]
Unused == [attrs |-> {}, frame |-> 0]
MCBootDir == 0 :> Mapped(2) @@ 1 :> Mapped(3)
MCNewDirs == {0 :> Mapped(5) @@ 1 :> Unused}
MCInit == PInit /\ about \in {{"global"}, {"4M"}, {"user", "write"}, {"present", "write"},
                              {"present", "user"}, {"write", "flags"}}
MCSpec == MCInit /\ [][PNext(about) /\ UNCHANGED about]_<<pvars, about>>
=============================================================================
