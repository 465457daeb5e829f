----------------------------- MODULE RowPromise -----------------------------
(***************************************************************************)
(* What the evaluation of a requirement promises to its callers (the       *)
(* pipeline's compile node and the MCP tool check_conformance), without    *)
(* saying how: it ends with one row of the matrix, or it throws.           *)
(***************************************************************************)
CONSTANTS RowVerdict,      \* the verdicts a row may carry
          GuardReason,     \* reasons that force the verdict
          OtherReason      \* reasons that leave it alone (neither contains "none")

\* excerpt: the citation carries a verified excerpt; confirmed: an independent
\* model family confirmed the gap; reviewed: why a human must look, or "none".
Row == [verdict   : RowVerdict,
        review    : GuardReason \cup OtherReason \cup {"none"},
        excerpt   : BOOLEAN,
        confirmed : BOOLEAN,
        rejected  : BOOLEAN]

Committed(r) == r.review = "none"

\* The liability rule of the matrix: a verdict that asserts something is
\* committed only with a verified excerpt, a committed gap only when confirmed;
\* a guard that fired leaves insufficient_evidence and a review; a verified
\* quote is never also stored as a rejected one.
Promised(r) ==
    /\ Committed(r) /\ r.verdict # "insufficient_evidence" => r.excerpt
    /\ Committed(r) /\ r.verdict = "gap" => r.confirmed
    /\ r.review \in GuardReason => r.verdict = "insufficient_evidence"
    /\ r.excerpt => ~r.rejected

VARIABLE outcome

Pending == [status |-> "pending"]
Thrown  == [status |-> "thrown"]
Decided == [status : {"decided"}, row : Row]

Init == outcome = Pending

Decide ==
    /\ outcome = Pending
    /\ outcome' \in Decided
    /\ Promised(outcome'.row)

Throw == outcome = Pending /\ outcome' = Thrown

Next == Decide \/ Throw

\* A safety specification: that an outcome is reached is a property of the
\* evaluation itself (Judge!EvaluationEnds).
Spec == Init /\ [][Next]_outcome
=============================================================================
