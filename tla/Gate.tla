------------------------------- MODULE Gate -------------------------------
(***************************************************************************)
(* What ScopeRunner (utility.hpp) promises the client and the server: a    *)
(* gate that threads enter and leave, and that is closed once and for all  *)
(* at a moment when nobody is inside.                                      *)
(***************************************************************************)
CONSTANT Threads

VARIABLES inside, closed

vars == <<inside, closed>>

Init == inside = {} /\ closed = FALSE

Enter(t) ==
    /\ ~closed
    /\ inside' = inside \cup {t}
    /\ UNCHANGED closed

Leave(t) ==
    /\ inside' = inside \ {t}
    /\ UNCHANGED closed

Close ==
    /\ inside = {}
    /\ closed' = TRUE
    /\ UNCHANGED inside

Next == Close \/ \E t \in Threads : Enter(t) \/ Leave(t)

Spec == Init /\ [][Next]_vars
=============================================================================
