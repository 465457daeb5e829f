-------------------------- MODULE MCConformanceRun --------------------------
(***************************************************************************)
(* A small instance of ConformanceRun.                                     *)
(***************************************************************************)
EXTENDS RunPages

MCVerdicts == {"conformant", "gap", "insufficient_evidence"}

\* A committed gap, and a row a guard withdrew and whose quote is kept apart.
Gap       == [verdict |-> "gap", review |-> "none", excerpt |-> TRUE, confirmed |-> TRUE,
              rejected |-> FALSE]
Withdrawn == [verdict |-> "insufficient_evidence", review |-> "citation_not_verbatim",
              excerpt |-> FALSE, confirmed |-> FALSE, rejected |-> TRUE]

MCRows == {Gap, Withdrawn}
=============================================================================
