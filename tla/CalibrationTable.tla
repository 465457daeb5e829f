-------------------------- MODULE CalibrationTable --------------------------
(***************************************************************************)
(* How vidimus-svc/calibrate.py builds the calibration file from the gold  *)
(* set and the result files of the harness.                                *)
(***************************************************************************)
EXTENDS Calibration, FiniteSetsExt

CONSTANTS FoldOf      \* calibration.fold_of: the fold of an item

\* A row is one prediction: its item, the run it comes from, its raw confidence
\* and whether it was correct.
InTranche(rows, i) == {r \in rows : TrancheIndex(r.raw) = i}
ItemsOf(rows)      == {r.item : r \in rows}
Of(rows, item)     == {r \in rows : r.item = item}
Percent(rows)      == (100 * Cardinality({r \in rows : r.correct})) \div Cardinality(rows)

\* Mutant: every prediction counts for itself.
TrancheTablePerPrediction(rows) ==
    [i \in 1..(Len(TrancheEdges) - 1) |->
        LET own == InTranche(rows, i)
        IN  [n |-> Cardinality(own), accuracy |-> IF own = {} THEN 0 ELSE Percent(own)]]

\* One unit per item and tranche: n counts distinct items, and an item that was
\* right in one of its two predictions counts for a half.
TrancheTable(rows) ==
    [i \in 1..(Len(TrancheEdges) - 1) |->
        LET own == InTranche(rows, i)
            n   == Cardinality(ItemsOf(own))
        IN  [n |-> n,
             accuracy |-> IF n = 0 THEN 0
                          ELSE MapThenSumSet(LAMBDA x : Percent(Of(own, x)), ItemsOf(own)) \div n]]

\* Mutant: the fold of a prediction is that of its run.
HeldOutOfRun(rows, r) ==
    Calibrate(TrancheTable({t \in rows : t.run # r.run}), r.raw)

\* The out-of-fold prediction of a row: the table is fitted on the rows of the
\* other folds, and all rows of an item share one fold.
HeldOut(rows, r) ==
    Calibrate(TrancheTable({t \in rows : FoldOf[t.item] # FoldOf[r.item]}), r.raw)

CrossValidate(rows) ==
    LET covered == {r \in rows : HeldOut(rows, r).calibrated}
    IN  [predictions |-> Cardinality(rows),
         covered     |-> Cardinality(covered),
         toReview    |-> Cardinality(rows \ covered)]

\* collect_rows: the predictions of the runs that are not errors.  The gold set
\* must be validated and the runs of one model, or it raises.
CollectRows(runs) ==
    UNION {{[item    |-> i.id,
             run     |-> run,
             raw     |-> RawConfidence(i.confidence, i.verifierConfidence, i.agrees),
             correct |-> i.pred = i.gold]
                : i \in {j \in runs[run].items : ~j.error /\ ~j.systemError}}
            : run \in DOMAIN runs}

OneModel(runs) == \A p, q \in DOMAIN runs : runs[p].model = runs[q].model
=============================================================================
