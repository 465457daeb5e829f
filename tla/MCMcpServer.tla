---------------------------- MODULE MCMcpServer ----------------------------
(***************************************************************************)
(* A small instance of McpServer, called by AgentClient and by others.     *)
(***************************************************************************)
EXTENDS AgentClient

MCVerdicts == {"conformant", "gap", "insufficient_evidence"}

\* A committed gap, and a row a guard withdrew and whose quote is kept apart.
Gap       == [verdict |-> "gap", review |-> "none", excerpt |-> TRUE, confirmed |-> TRUE,
              rejected |-> FALSE]
Withdrawn == [verdict |-> "insufficient_evidence", review |-> "citation_not_verbatim",
              excerpt |-> FALSE, confirmed |-> FALSE, rejected |-> TRUE]

\* A gap that stands although the verifier disagreed.
Disputed  == [verdict |-> "gap", review |-> "verifier_disagreement", excerpt |-> TRUE,
              confirmed |-> FALSE, rejected |-> FALSE]

MCRows == {Gap, Withdrawn, Disputed}
=============================================================================
