------------------------------ MODULE KeyRing ------------------------------
(***************************************************************************)
(* What the API keys of one organisation promise to the MCP server that    *)
(* authenticates with them: at most one of them is active, the first one   *)
(* is issued, and from then on a key only leaves by being replaced, in one *)
(* step and for good.                                                      *)
(***************************************************************************)
CONSTANT Keys

VARIABLES active, retired

Init == active = {} /\ retired = {}

Issue(k) ==
    /\ active = {} /\ k \notin retired
    /\ active' = {k}
    /\ UNCHANGED retired

Replace(old, k) ==
    /\ active = {old} /\ k \notin retired \cup {old}
    /\ active' = {k}
    /\ retired' = retired \cup {old}

Next == \E k \in Keys : Issue(k) \/ \E old \in Keys : Replace(old, k)

Spec == Init /\ [][Next]_<<active, retired>>
=============================================================================
