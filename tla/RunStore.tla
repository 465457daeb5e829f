------------------------------ MODULE RunStore ------------------------------
(***************************************************************************)
(* The tables a run is written to (prisma/schema.prisma) and the           *)
(* statements that write them (lib/graph/persist.ts, and the updates of    *)
(* the run's status).  Each statement commits on its own.                  *)
(***************************************************************************)
EXTENDS Integers, Sequences, FiniteSets

CONSTANTS Runs,
          RowVerdict, GuardReason, OtherReason,   \* as in RowPromise
          Rows                                    \* rows an evaluation may end with

Promise == INSTANCE RowPromise WITH outcome <- FALSE   \* its rows, not its behaviours

\* The evaluation delivers what Judge is shown to deliver.
ASSUME RowsAssumption == \A row \in Rows : row \in Promise!Row /\ Promise!Promised(row)

VARIABLES status,    \* ConformanceRun.status, "absent" before the record exists
          stored,    \* the run's EvaluatedRequirement records
          quotes,    \* the positions of those with a RejectedQuote record
          summary    \* ConformanceRun.summary

store == <<status, stored, quotes, summary>>

Statuses == {"absent", "running", "complete", "failed"}
NoSummary == <<>>

RejectedOf(rows) == {i \in 1..Len(rows) : rows[i].rejected}

CommittedWith(rows, verdict) ==
    Cardinality({i \in 1..Len(rows) : rows[i].verdict = verdict /\ Promise!Committed(rows[i])})

NeedsReview(rows) == Cardinality({i \in 1..Len(rows) : ~Promise!Committed(rows[i])})

StoreInit ==
    /\ status = [r \in Runs |-> "absent"]
    /\ stored = [r \in Runs |-> <<>>]
    /\ quotes = [r \in Runs |-> {}]
    /\ summary = [r \in Runs |-> NoSummary]

StoreTypeOK ==
    /\ status \in [Runs -> Statuses]
    /\ stored \in [Runs -> Seq(Rows)]
    /\ quotes \in [Runs -> SUBSET Nat]
    /\ DOMAIN summary = Runs

CreateRun(r) ==
    /\ status' = [status EXCEPT ![r] = "running"]
    /\ UNCHANGED <<stored, quotes, summary>>

InsertRows(r, rows) ==
    /\ stored' = [stored EXCEPT ![r] = rows]
    /\ UNCHANGED <<status, quotes, summary>>

InsertQuotes(r, rows) ==
    /\ quotes' = [quotes EXCEPT ![r] = RejectedOf(rows)]
    /\ UNCHANGED <<status, stored, summary>>

MarkComplete(r, report) ==
    /\ status' = [status EXCEPT ![r] = "complete"]
    /\ summary' = [summary EXCEPT ![r] = report]
    /\ UNCHANGED <<stored, quotes>>

\* Mutant: a failed run's rows are cleaned up.
MarkFailedAndClear(r) ==
    /\ status' = [status EXCEPT ![r] = "failed"]
    /\ stored' = [stored EXCEPT ![r] = <<>>]
    /\ UNCHANGED <<quotes, summary>>

MarkFailed(r) ==
    /\ status' = [status EXCEPT ![r] = "failed"]
    /\ UNCHANGED <<stored, quotes, summary>>

\* What the tables say of each run, as RunLifecycle sees it.
Record == [r \in Runs |->
              [phase    |-> status[r],
               rows     |-> stored[r],
               reported |-> IF summary[r] = NoSummary THEN 0 ELSE summary[r].total]]
=============================================================================
