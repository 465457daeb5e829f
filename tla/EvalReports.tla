---------------------------- MODULE EvalReports ----------------------------
(***************************************************************************)
(* What the harness records of an item, and the scripts that count it.     *)
(* scripts/eval.ts, eval-compare.ts, eval-regression.ts and                *)
(* eval-gap-report.ts each filter and count for themselves; each is        *)
(* translated from its own lines.  The items of a result file are a set    *)
(* of records, one per id.  Ratios are left as their numerators.           *)
(***************************************************************************)
EXTENDS CalibrationTable, JudgeResult

CONSTANTS MaxExtra          \* eval-regression.ts --max-extra-errors

ASSUME ReportsAssumption == MaxExtra \in Nat

Classes == {"conformant", "gap", "insufficient"}

NormalizeVerdict(v) == IF v = "insufficient_evidence" THEN "insufficient" ELSE v

\* A clause id is the sequence of its numbers, <<>> for none.
Below(clause, ancestor) ==
    Len(ancestor) < Len(clause) /\ SubSeq(clause, 1, Len(ancestor)) = ancestor

ClauseOutcome(gold, pred) ==
    IF gold = <<>> THEN IF pred = <<>> THEN "correct_abstain" ELSE "spurious_citation"
    ELSE IF pred = <<>> THEN "no_citation"
    ELSE IF pred = gold THEN "exact"
    ELSE IF Below(pred, gold) \/ Below(gold, pred) THEN "family"
    ELSE "wrong_clause"

\* evalOne: the record of an item from what retrieve and judge returned
\* (clause; j, a Judgement; the two confidences and the verifier's answer).
\* without is the reason the row would have had with no verifier, effect what
\* the verifier changed.
Judged(id, gold, clause, j, confidence, agrees, verifierConfidence) ==
    LET cited   == clause # <<>>
        low     == confidence < ReviewThreshold
        pred    == NormalizeVerdict(j.verdict)
        review  == ReviewLadder(cited, j.blocked, agrees, low)
        without == ReviewLadder(cited, IF j.blocked = "verifier_same_family" THEN "none"
                                       ELSE j.blocked, TRUE, low)
    IN  [id |-> id, gold |-> gold.verdict, goldClause |-> gold.clause,
         difficulty |-> gold.difficulty,
         raw |-> NormalizeVerdict(j.raw), pred |-> pred, predClause |-> clause,
         correct |-> pred = gold.verdict, clauseOutcome |-> ClauseOutcome(gold.clause, clause),
         review |-> review # "none", reason |-> review, without |-> without,
         effect |-> IF review = "none" \/ without # "none" THEN "none"
                    ELSE IF j.blocked = "verifier_same_family" THEN "gap_blocked_same_family"
                    ELSE IF j.verdict = "gap" THEN "gap_blocked_verifier_disagreement"
                    ELSE "forced_review",
         gapCheck |-> j.gapCheck, confidence |-> confidence, agrees |-> agrees,
         verifierConfidence |-> verifierConfidence,
         quote |-> TRUE, error |-> FALSE, systemError |-> FALSE]

\* runItem's answer once every attempt has thrown.
Errored(id, gold) ==
    [id |-> id, gold |-> gold.verdict, goldClause |-> gold.clause, difficulty |-> gold.difficulty,
     raw |-> "undefined", pred |-> "insufficient", predClause |-> <<>>, correct |-> FALSE,
     clauseOutcome |-> "no_citation", review |-> TRUE, reason |-> "none", without |-> "none",
     effect |-> "none", gapCheck |-> "none", confidence |-> 0, agrees |-> FALSE,
     verifierConfidence |-> 0, quote |-> FALSE, error |-> TRUE, systemError |-> FALSE]

\* Mutant: the sanitised copy loses the error mark with the error's text.
SanitizeItemDropsError(i) == [i EXCEPT !.quote = FALSE, !.error = FALSE]

\* sanitize-results.ts: the texts go, and an error keeps its mark only.
SanitizeItem(i) == [i EXCEPT !.quote = FALSE, !.error = FALSE, !.systemError = i.error]

(***************************************************************************)
(* scripts/eval.ts report                                                  *)
(***************************************************************************)
Confusion(results) ==
    [g \in Classes |-> [p \in Classes |-> Cardinality({r \in results : r.gold = g /\ r.pred = p})]]

PerClassPRF(m) ==
    [c \in Classes |->
        [tp |-> m[c][c],
         fp |-> MapThenSumSet(LAMBDA g : IF g # c THEN m[g][c] ELSE 0, Classes),
         fn |-> MapThenSumSet(LAMBDA p : IF p # c THEN m[c][p] ELSE 0, Classes),
         support |-> MapThenSumSet(LAMBDA p : m[c][p], Classes)]]

BucketAccuracy(results, key) ==
    [k \in {key[r] : r \in results} |->
        [correct |-> Cardinality({r \in results : key[r] = k /\ r.correct}),
         total   |-> Cardinality({r \in results : key[r] = k})]]

RetrievalOk(r) == r.clauseOutcome \in {"exact", "family", "correct_abstain"}

Report(results) ==
    LET Right(s)  == Cardinality({r \in s : r.correct})
        found     == {r \in results : RetrievalOk(r)}
        committed == {r \in results : ~r.review}
        abstained == {r \in results : r.review}
    IN  [n |-> Cardinality(results), correct |-> Right(results),
         confusion |-> Confusion(results), perClass |-> PerClassPRF(Confusion(results)),
         byDifficulty |-> BucketAccuracy(results, [r \in results |-> r.difficulty]),
         byClass |-> BucketAccuracy(results, [r \in results |-> r.gold]),
         clauseOutcomes |-> [o \in {r.clauseOutcome : r \in results} |->
                                Cardinality({r \in results : r.clauseOutcome = o})],
         retrieval |-> [correct |-> Cardinality(found), verdictGivenCorrect |-> Right(found),
                        verdictGivenWrong |-> Right(results \ found),
                        retBad |-> Cardinality(results \ found)],
         gated |-> [coverage |-> Cardinality(committed), committedCorrect |-> Right(committed),
                    abstained |-> Cardinality(abstained), withheldCorrect |-> Right(abstained),
                    suppressedErrors |-> Cardinality({r \in abstained : ~r.correct}),
                    silentErrors |-> Cardinality({r \in results : ~r.correct /\ ~r.review})]]

\* The summary of a result file: the report on the items without an error.
Summary(items) ==
    LET results == {r \in items : ~r.error}
    IN  [report |-> Report(results), scored |-> Cardinality(results),
         errored |-> Cardinality(items \ results)]

(***************************************************************************)
(* scripts/eval-compare.ts, which reads raw and sanitised files alike.     *)
(***************************************************************************)
Bad(i) == i.error \/ i.systemError

\* Mutant: the items without a verdict are counted with the others.
MetricsCountsErrors(items) ==
    LET committed == {i \in items : ~i.review}
    IN  [n |-> Cardinality(items), scored |-> Cardinality(items),
         errored |-> {i.id : i \in {j \in items : Bad(j)}},
         correct |-> Cardinality({i \in items : i.correct}), committed |-> Cardinality(committed),
         committedCorrect |-> Cardinality({i \in committed : i.correct}),
         silent |-> {i.id : i \in {j \in committed : ~j.correct}},
         toReview |-> Cardinality(items \ committed),
         conf |-> Confusion(items), perClass |-> PerClassPRF(Confusion(items)),
         retOk |-> Cardinality({i \in items : RetrievalOk(i)}),
         vGivenOk |-> Cardinality({i \in items : RetrievalOk(i) /\ i.correct}),
         retBad |-> Cardinality({i \in items : ~RetrievalOk(i)}),
         vGivenBad |-> Cardinality({i \in items : ~RetrievalOk(i) /\ i.correct})]

PredictedWrongly(conf, c) == MapThenSumSet(LAMBDA g : IF g = c THEN 0 ELSE conf[g][c], Classes)
Missed(conf, c)           == MapThenSumSet(LAMBDA p : IF p = c THEN 0 ELSE conf[c][p], Classes)

Metrics(items) ==
    LET sc        == {i \in items : ~Bad(i)}
        committed == {i \in sc : ~i.review}
        silent    == {i \in committed : ~i.correct}
        conf      == [g \in Classes |-> [p \in Classes |->
                        Cardinality({i \in sc : i.gold = g /\ i.pred = p})]]
        retOk     == {i \in sc : RetrievalOk(i)}
    IN  [n |-> Cardinality(items), scored |-> Cardinality(sc),
         errored |-> {i.id : i \in {j \in items : Bad(j)}},
         correct |-> Cardinality({i \in sc : i.correct}), committed |-> Cardinality(committed),
         committedCorrect |-> Cardinality(committed) - Cardinality(silent),
         silent |-> {i.id : i \in silent}, toReview |-> Cardinality(sc) - Cardinality(committed),
         conf |-> conf,
         perClass |-> [c \in Classes |->
            [tp |-> conf[c][c], fp |-> PredictedWrongly(conf, c), fn |-> Missed(conf, c),
             support |-> conf[c][c] + Missed(conf, c)]],
         retOk |-> Cardinality(retOk), vGivenOk |-> Cardinality({i \in retOk : i.correct}),
         retBad |-> Cardinality(sc \ retOk),
         vGivenBad |-> Cardinality({i \in sc \ retOk : i.correct})]

ItemOf(items, id) == CHOOSE i \in items : i.id = id

\* Over the ids of the first run: it reads the second run's item of each, and
\* throws when that run was cut short.
Agreement(a, b) ==
    LET ids    == {i.id : i \in a}
        State(i) == IF Bad(i) THEN "ERROR" ELSE i.pred
        both   == {x \in ids : ~Bad(ItemOf(a, x)) /\ ~Bad(ItemOf(b, x))}
        clause == {x \in both : ItemOf(a, x).predClause # <<>> /\ ItemOf(b, x).predClause # <<>>}
        Same(s, f(_)) == Cardinality({x \in s : f(ItemOf(a, x)) = f(ItemOf(b, x))})
    IN  [all |-> Same(ids, State), nAll |-> Cardinality(ids),
         scored |-> Same(both, LAMBDA i : i.pred), nScored |-> Cardinality(both),
         clause |-> Same(clause, LAMBDA i : i.predClause), nClause |-> Cardinality(clause)]

(***************************************************************************)
(* scripts/eval-regression.ts                                              *)
(***************************************************************************)
RunStats(items, frozen) ==
    LET scored    == {i \in items : i.id \in frozen /\ ~(i.error \/ i.systemError)}
        committed == {i \in scored : ~i.review}
    IN  [scored |-> Cardinality(scored), committed |-> Cardinality(committed),
         committedErrors |-> Cardinality({i \in committed : ~i.correct}),
         sentToReview |-> Cardinality(scored) - Cardinality(committed)]

MakeBaseline(runs) ==
    [runs |-> runs, worstCommittedErrors |-> Max({r.committedErrors : r \in runs})]

GatePasses(baseline, current) ==
    /\ current.committed # 0
    /\ ~(current.committedErrors > baseline.worstCommittedErrors + MaxExtra)

(***************************************************************************)
(* scripts/eval-gap-report.ts                                              *)
(***************************************************************************)
GapStats(items) ==
    LET scored    == {i \in items : ~(i.error \/ i.systemError)}
        committed == {i \in scored : ~i.review}
        gap       == {i \in committed : i.pred = "gap"}
        trueGaps  == {i \in gap : i.gold = "gap"}
        goldGaps  == {i \in scored : i.gold = "gap"}
        raw       == {i \in scored : i.raw = "gap"}
        blocked   == {i \in raw : i.review \/ i.pred # "gap"}
        Why(i)    == IF i.gapCheck \notin {"none", "pass"} THEN i.gapCheck
                     ELSE IF i.reason # "none" THEN i.reason ELSE "other"
    IN  [n |-> Cardinality(items), scored |-> Cardinality(scored),
         systemErrors |-> Cardinality(items \ scored), committed |-> Cardinality(committed),
         goldGaps |-> Cardinality(goldGaps), rawGaps |-> Cardinality(raw),
         committedGaps |-> Cardinality(gap), trueGaps |-> Cardinality(trueGaps),
         falseGapIds |-> {i.id : i \in gap \ trueGaps},
         missedGoldGapIds |-> {i.id : i \in goldGaps \ trueGaps},
         blocked |-> [w \in {Why(i) : i \in blocked} |->
                        Cardinality({i \in blocked : Why(i) = w})]]
=============================================================================
