------------------------------ MODULE RunPages ------------------------------
(***************************************************************************)
(* What a browser shows of the runs: the matrix page                       *)
(* (app/(app)/runs/[id]/page.tsx, MatrixClient.tsx), the Excel export      *)
(* (app/api/runs/[id]/export/route.ts, lib/export-rows.ts) and the line of *)
(* the dashboard.  Page and export read a run as ConformanceRun's reader   *)
(* does; what they show is a function of what it read.                     *)
(***************************************************************************)
EXTENDS ConformanceRun

\* A row in review shows no verdict, whatever its verdict is.
DisplayVerdict(row) == IF Promise!Committed(row) THEN row.verdict ELSE "needs_review"

\* The summary of a run that has none yet.
Zeros == [total |-> 0, conformant |-> 0, gaps |-> 0, insufficientEvidence |-> 0, needsReview |-> 0]

\* The matrix page: the cards show the summary, the table a pill per row, and
\* the first row is selected.
Page == [status   |-> reader.status,
         cards    |-> IF reader.summary = NoSummary THEN Zeros ELSE reader.summary,
         pills    |-> [i \in 1..Len(reader.rows) |-> DisplayVerdict(reader.rows[i])],
         selected |-> IF reader.rows = <<>> THEN 0 ELSE 1]

\* The exported sheet: a line per row, with a percentage or the reason of its review.
Sheet == [i \in 1..Len(reader.rows) |->
             [verdict    |-> DisplayVerdict(reader.rows[i]),
              confidence |-> IF Promise!Committed(reader.rows[i]) THEN [kind |-> "percentage"]
                             ELSE [kind |-> "review", reason |-> reader.rows[i].review]]]

\* A run's line on the dashboard, in one query; the counts only if there are any.
DashboardLine(r) == [status |-> status[r],
                     counts |-> IF summary[r] = NoSummary THEN <<>>
                                ELSE <<summary[r].total, summary[r].gaps, summary[r].needsReview>>]

Shown(what) == Cardinality({i \in 1..Len(Page.pills) : Page.pills[i] = what})

\* On the page of a complete run every card counts the pills below it, although
\* the pipeline computed it before, from rows in memory, with conditions of its
\* own (pipeline.ts:61-67, conformance-contract.ts:170); the dashboard repeats
\* the cards, even when the run was marked failed since; the sheet withholds as
\* many percentages as there are rows to review; and no page, of whatever run,
\* shows a part of a matrix.
PagesAgree ==
    reader.state = "done" =>
        /\ Page.pills # <<>> => Len(Page.pills) = requirements[reader.run]
        /\ Page.status = "complete" =>
              LET cards == Page.cards IN
              /\ cards = [total                |-> Len(Page.pills),
                          conformant           |-> Shown("conformant"),
                          gaps                 |-> Shown("gap"),
                          insufficientEvidence |-> Shown("insufficient_evidence"),
                          needsReview          |-> Shown("needs_review")]
              /\ DashboardLine(reader.run).counts = <<cards.total, cards.gaps, cards.needsReview>>
              /\ cards.needsReview =
                    Cardinality({i \in 1..Len(Sheet) : Sheet[i].confidence.kind = "review"})
              /\ Page.selected = 0 <=> cards.total = 0
=============================================================================
