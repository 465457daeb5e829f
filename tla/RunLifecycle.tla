---------------------------- MODULE RunLifecycle ----------------------------
(***************************************************************************)
(* What the run record promises to whoever reads it, be it written by the  *)
(* web route (ConformanceRun) or by the MCP server (McpServer): a run goes *)
(* from running to complete or failed, its matrix is written once and      *)
(* whole, and what a completed run reports is what its matrix holds.       *)
(***************************************************************************)
EXTENDS Naturals, Sequences

CONSTANTS Runs, Rows

VARIABLE record   \* per run: phase, rows of its matrix, reported number of rows

Init == record = [r \in Runs |-> [phase |-> "absent", rows |-> <<>>, reported |-> 0]]

Become(r, new) == record' = [record EXCEPT ![r] = new]

Create(r) ==
    /\ record[r].phase = "absent"
    /\ Become(r, [record[r] EXCEPT !.phase = "running"])

\* The whole matrix becomes visible at once.
Store(r) ==
    /\ record[r].phase = "running" /\ record[r].rows = <<>>
    /\ record'[r].rows \in Seq(Rows)
    /\ Become(r, [record[r] EXCEPT !.rows = record'[r].rows])

Complete(r) ==
    /\ record[r].phase = "running"
    /\ Become(r, [phase    |-> "complete",
                  rows     |-> record[r].rows,
                  reported |-> Len(record[r].rows)])

\* Also after Complete: its acknowledgement may have been lost.
Fail(r) ==
    /\ record[r].phase \in {"running", "complete"}
    /\ Become(r, [record[r] EXCEPT !.phase = "failed"])

Next == \E r \in Runs : Create(r) \/ Store(r) \/ Complete(r) \/ Fail(r)

Spec == Init /\ [][Next]_record
=============================================================================
