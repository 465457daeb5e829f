--------------------------- MODULE ClauseLibrary ---------------------------
(***************************************************************************)
(* What the two clause stores promise together to whoever retrieves from   *)
(* them: a clause that can be read stays readable, and the search of an    *)
(* organisation finds only clauses that can be read.                       *)
(***************************************************************************)
CONSTANTS Clauses, Organizations

VARIABLES readable,   \* clauses of the graph
          findable    \* per organisation, the clauses its search may return

Init ==
    /\ readable = {}
    /\ findable = [o \in Organizations |-> {}]

Publish ==
    /\ \E c \in Clauses : readable' = readable \cup {c}
    /\ UNCHANGED findable

Index ==
    /\ \E o \in Organizations : \E found \in SUBSET readable :
          findable' = [findable EXCEPT ![o] = @ \cup found]
    /\ UNCHANGED readable

Next == Publish \/ Index

Spec == Init /\ [][Next]_<<readable, findable>>
=============================================================================
