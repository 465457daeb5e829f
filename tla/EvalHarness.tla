---------------------------- MODULE EvalHarness ----------------------------
(***************************************************************************)
(* The evaluation harness as it is operated: scripts/eval.ts runs the gold *)
(* set, sanitize-results.ts makes the committed copy, calibrate.py and     *)
(* eval-ablation-collect.ts write what they derive from the copies.  One   *)
(* script runs at a time.  A script empties its output file and then       *)
(* writes it, and may be killed at any point; the sidecar reads the        *)
(* calibration file whenever it attests.                                   *)
(***************************************************************************)
EXTENDS Ablation

CONSTANTS Gold,         \* the gold set: [id -> [verdict, clause, difficulty]]
          Validated,    \* the ids a human has validated
          Commands(_),  \* bound: how run r may be started (pass, assessor model, environment,
                        \* the items of --ids-file or --limit, --dry-run, --budget-usd)
          CitedClauses, \* the clauses retrieval may cite
          Flaky,        \* the items whose evaluation may throw
          Attempts,     \* runItem's attempts
          Frozen,       \* the ids of eval/frozen-subset.json
          MaxRuns,      \* bound on the runs of eval.ts
          MaxKills,     \* bound on the scripts that are killed
          Sampled(_, _, _)  \* bound: the answers explored in run r for item id

ASSUME HarnessAssumption ==
    /\ Validated \subseteq DOMAIN Gold
    /\ \A r \in 1..MaxRuns : \A c \in Commands(r) :
          /\ c.pass \in Passes /\ c.config \in Config
          /\ c.items \in Seq(DOMAIN Gold) /\ IsInjective(c.items)
    /\ <<>> \notin CitedClauses
    /\ IsFiniteSet(Passes)
    /\ MaxRuns \in Nat /\ MaxKills \in Nat
    /\ Attempts \in Nat \ {0}

Absent      == [state |-> "absent"]
Truncated   == [state |-> "truncated"]
Calibration == <<"calibration">>
Calls       == <<"calls">>
Paths       == ({"raw", "public"} \X Passes) \cup {Calibration, Calls}

\* What retrieve and judge may return for an item.
Answers(cfg) ==
    [clause : {<<>>}, judgement : {NoClauseJudgement}, confidence : {NoClauseLevel},
     agrees : {TRUE}, verifierConfidence : {MidLevel}]
    \cup [clause : CitedClauses, judgement : Judgements(cfg), confidence : Levels,
          agrees : BOOLEAN, verifierConfidence : Levels]

VARIABLES disk,     \* the contents of the files
          proc,     \* the script that runs
          runs,     \* the runs of eval.ts started so far
          kills     \* the scripts killed so far

bounds == <<runs, kills>>
vars   == <<disk, proc, runs, kills>>

Idle       == [script |-> "none"]
Readable(path) == disk[path].state = "written"
ReadAll(kind)  == [k \in Passes |-> disk[<<kind, k>>].items]

\* writeFileSync and write_text: the file is emptied, then written.
BeginWrite(path, content) ==
    /\ disk' = [disk EXCEPT ![path] = Truncated]
    /\ proc' = [script |-> "write", path |-> path, content |-> content]

Init ==
    /\ disk = [path \in Paths |-> Absent]
    /\ proc = Idle
    /\ runs = 0 /\ kills = 0

EndWrite ==
    /\ proc.script = "write"
    /\ disk' = [disk EXCEPT ![proc.path] = proc.content]
    /\ proc' = Idle
    /\ UNCHANGED bounds

\* Ctrl-C, or the machine.
Kill ==
    /\ proc # Idle /\ kills < MaxKills
    /\ proc' = Idle
    /\ kills' = kills + 1
    /\ UNCHANGED <<disk, runs>>

(***************************************************************************)
(* scripts/eval.ts                                                         *)
(***************************************************************************)
StartEval ==
    /\ proc = Idle /\ runs < MaxRuns
    /\ Validated = DOMAIN Gold
    /\ runs' = runs + 1
    /\ \E c \in Commands(runs') :
          proc' = [script |-> "eval", pass |-> c.pass, model |-> c.model, config |-> c.config,
                   dry |-> c.dry, budget |-> c.budget, attempt |-> 1, done |-> {},
                   todo |-> IF c.dry /\ Len(c.items) > 3 THEN SubSeq(c.items, 1, 3) ELSE c.items]
    /\ UNCHANGED <<disk, kills>>

Evaluating == proc.script = "eval" /\ proc.todo # <<>>

Record(item) == proc' = [proc EXCEPT !.done = @ \cup {item}, !.todo = Tail(@), !.attempt = 1]

EvalItem ==
    /\ Evaluating
    /\ \E x \in {y \in Answers(proc.config) : Sampled(runs, Head(proc.todo), y)} :
          Record(Judged(Head(proc.todo), Gold[Head(proc.todo)], x.clause, x.judgement,
                        x.confidence, x.agrees, x.verifierConfidence))
    /\ UNCHANGED <<disk, bounds>>

EvalItemThrows ==
    /\ Evaluating /\ Head(proc.todo) \in Flaky
    /\ IF proc.attempt < Attempts
         THEN proc' = [proc EXCEPT !.attempt = @ + 1]
         ELSE Record(Errored(Head(proc.todo), Gold[Head(proc.todo)]))
    /\ UNCHANGED <<disk, bounds>>

\* --budget-usd, tested between two items: any spend may exceed it.
BudgetStops ==
    /\ Evaluating /\ proc.budget /\ proc.attempt = 1 /\ proc.done # {}
    /\ proc' = [proc EXCEPT !.todo = <<>>]
    /\ UNCHANGED <<disk, bounds>>

FinishEval ==
    /\ proc.script = "eval" /\ proc.todo = <<>>
    /\ IF proc.dry
         THEN proc' = Idle /\ UNCHANGED disk
         ELSE BeginWrite(<<"raw", proc.pass>>,
                         [state |-> "written", model |-> proc.model, config |-> proc.config,
                          items |-> proc.done, summary |-> Summary(proc.done)])
    /\ UNCHANGED bounds

(***************************************************************************)
(* What is derived from the result files.                                  *)
(***************************************************************************)
Sanitize ==
    /\ proc = Idle
    /\ \E k \in Passes :
          /\ Readable(<<"raw", k>>)
          /\ LET raw == disk[<<"raw", k>>]
             IN  BeginWrite(<<"public", k>>, [raw EXCEPT !.items = {SanitizeItem(i) : i \in @}])
    /\ UNCHANGED bounds

Calibrating(public) ==
    LET rows == CollectRows(public)
    IN  [state |-> "written", model |-> (CHOOSE f \in Range(public) : TRUE).model,
         tranches |-> TrancheTable(rows), crossValidation |-> CrossValidate(rows),
         rows |-> rows]

BuildCalibration ==
    /\ proc = Idle /\ Validated = DOMAIN Gold
    /\ \A k \in Passes : Readable(<<"public", k>>)
    /\ LET public == [k \in Passes |-> disk[<<"public", k>>]]
       IN  /\ OneModel(public)
           /\ BeginWrite(Calibration, Calibrating(public))
    /\ UNCHANGED bounds

Collect ==
    /\ proc = Idle
    /\ \A k \in Passes : Readable(<<"raw", k>>) /\ Readable(<<"public", k>>)
    /\ CollectRuns(ReadAll("public"), ReadAll("raw"))
    /\ \E answers \in [Needs(ReadAll("public")) -> BOOLEAN] :
          BeginWrite(Calls, [state |-> "written", calls |-> answers, from |-> ReadAll("public")])
    /\ UNCHANGED bounds

Script == EvalItem \/ EvalItemThrows \/ BudgetStops \/ FinishEval \/ EndWrite
Operator == StartEval \/ Sanitize \/ BuildCalibration \/ Collect \/ Kill
Next == Script \/ Operator

Spec == Init /\ [][Next]_vars

(***************************************************************************)
(* Properties.                                                             *)
(***************************************************************************)
TypeOK ==
    /\ \A path \in Paths : disk[path].state \in {"absent", "truncated", "written"}
    /\ proc.script \in {"none", "eval", "write"}
    /\ runs \in 0..MaxRuns /\ kills \in 0..MaxKills

Writing(path) == proc.script = "write" /\ proc.path = path
PublicFiles == {k \in Passes : Readable(<<"public", k>>)}
RawFiles    == {k \in Passes : Readable(<<"raw", k>>)}

\* load_calibration: none from a missing or half-written file.
Table == IF Readable(Calibration) THEN disk[Calibration].tranches ELSE <<>>

\* Whatever the sidecar serves as a calibrated confidence, and whenever it
\* reads the file, at least MinN different items back it, scored in runs of one
\* model with raw confidences of that tranche, and it lies between the share of
\* them that was always right and the share that was right at least once
\* (calibration.py:153-180, main.py _calibrate).
ServedNumberIsEarned ==
    Table # <<>> =>
        \A r \in disk[Calibration].rows :
            LET served == Calibrate(Table, r.raw)
                rows   == {t \in disk[Calibration].rows : TrancheIndex(t.raw) = TrancheIndex(r.raw)}
                items  == {t.item : t \in rows}
                once   == {t.item : t \in {u \in rows : u.correct}}
                always == items \ {t.item : t \in {u \in rows : ~u.correct}}
            IN  served.calibrated =>
                    /\ Cardinality(items) >= MinN
                    /\ 4 * 100 * Cardinality(always) < (served.confidence + 4) * Cardinality(items)
                    /\ served.confidence * Cardinality(items) <= 4 * 100 * Cardinality(once)

Flip(rows, item) == {IF t.item = item THEN [t EXCEPT !.correct = ~@] ELSE t : t \in rows}

\* The cross-validation never shows an item its own answer: had every
\* prediction of an item been the opposite, its held-out predictions would be
\* the same (calibration.py:195-214).
HeldOutIsUnseen ==
    Writing(Calibration) =>
        LET rows == proc.content.rows
        IN  \A r \in rows :
                HeldOut(Flip(rows, r.item), [r EXCEPT !.correct = ~@]) = HeldOut(rows, r)

\* The scripts count the same things, from the file eval.ts writes or from its
\* sanitised copy, although each has its own filters: the summary, the
\* comparison table, the gap report with its two groups, and the gate, which
\* lets a run through only with a commit on the frozen items and at most
\* MaxExtra more committed errors than the baseline's worst run
\* (eval.ts:236-340, eval-compare.ts:3, eval-regression.ts:3-7).
ReportsAgree ==
    \A kind \in {"raw", "public"}, k \in Passes : Writing(<<kind, k>>) =>
        LET items == proc.content.items
            s == proc.content.summary
            m == Metrics(items)
            all == GapStats(items)
            dev == GapStats({i \in items : i.id \in Frozen})
            test == GapStats({i \in items : i.id \notin Frozen})
        IN  /\ <<m.scored, Cardinality(m.errored), m.correct, m.conf, m.perClass>>
                 = <<s.scored, s.errored, s.report.correct, s.report.confusion, s.report.perClass>>
            /\ <<m.committed, m.committedCorrect, Cardinality(m.silent), m.toReview>>
                 = <<s.report.gated.coverage, s.report.gated.committedCorrect,
                     s.report.gated.silentErrors, s.report.gated.abstained>>
            /\ <<m.retOk, m.vGivenOk, m.retBad, m.vGivenBad>>
                 = <<s.report.retrieval.correct, s.report.retrieval.verdictGivenCorrect,
                     s.report.retrieval.retBad, s.report.retrieval.verdictGivenWrong>>
            /\ all.scored = m.scored /\ all.committed = m.committed
            /\ all.falseGapIds \subseteq m.silent
            /\ all.falseGapIds = dev.falseGapIds \cup test.falseGapIds
            /\ all.trueGaps + Cardinality(all.missedGoldGapIds) = all.goldGaps
            /\ \A f \in {"committed", "goldGaps", "rawGaps", "trueGaps"} : all[f] = dev[f] + test[f]
            /\ \A b \in RawFiles :
                LET baseline == MakeBaseline({RunStats(disk[<<"raw", b>>].items, Frozen)})
                    known == Metrics(disk[<<"raw", b>>].items).silent \cap Frozen
                IN  GatePasses(baseline, RunStats(items, Frozen)) =>
                        /\ \E i \in items : i.id \in Frozen /\ ~Bad(i) /\ ~i.review
                        /\ Cardinality(m.silent \cap Frozen) <= Cardinality(known) + MaxExtra

\* The ablation's baseline is the recorded run: configuration (d) gives every
\* scored item of GAP_GUARD=verifier back as it was, and so the counts of the
\* comparison; a verdict it commits is committed by every configuration with
\* fewer guards; and once the collector has run on the present files, no
\* configuration lacks an answer (eval-ablation.ts:79-82, 84-89).  An item is
\* left out whose assessor wrote "insufficient", which is no verdict of its
\* schema and got its quote checked: the replay takes it for a normalised
\* insufficient_evidence, on which no guard runs.
Recorded == IF Readable(Calls) THEN disk[Calls].calls ELSE <<>>
Replayable(p) == /\ ~Bad(p) /\ p.gapCheck # "skipped_same_family" /\ ~ReplayThrows(p, Both)
                 /\ ~(VerbatimFails(p) /\ p.raw = "insufficient")

ReplayReproducesTheRun ==
    proc = Idle /\ disk[Calls] # Truncated =>
    /\ \A k \in PublicFiles :
        LET items == disk[<<"public", k>>].items
            own   == {p \in items : Replayable(p)}
            d     == Summarize(own, {Replay(p, Both, k, Recorded) : p \in own})
            m     == Metrics(own)
        IN  /\ \A p \in own : Reproduces(p, k, Recorded)
            /\ <<d.correct, d.committed, d.committedCorrect, d.silent>>
                 = <<m.correct, m.committed, m.committedCorrect, m.silent>>
            /\ d.falseGaps = GapStats(own).falseGapIds
            /\ \A p \in own, cfg \in Configurations :
                ~p.review /\ ~ReplayThrows(p, cfg) =>
                    LET r == Replay(p, cfg, k, Recorded) IN r.committed /\ r.verdict = p.pred
    /\ Readable(Calls) /\ PublicFiles = Passes =>
        (disk[Calls].from = ReadAll("public") =>
            \A k \in Passes, cfg \in Configurations : \A p \in disk[<<"public", k>>].items :
                Replay(p, cfg, k, Recorded).reason # "MISSING_VERIFIER_CALL")

(***************************************************************************)
(* A claim of the documentation that the code does not keep.               *)
(***************************************************************************)

\* scripts/eval.ts: "Review flag - same logic as compileNode": the recorded
\* reason is the one the product would give for the same judgement, with the
\* sidecar serving the present calibration file.
ProductReview(i) ==
    LET attested == Calibrate(Table, RawConfidence(i.confidence, i.verifierConfidence, i.agrees))
        block == IF i.reason \in BlockedReason THEN i.reason ELSE "none"
    IN  ReviewLadder(i.predClause # <<>>, block, i.agrees,
                     ~attested.calibrated \/ attested.confidence < 4 * ReviewThreshold)

ReviewFlagIsTheProducts ==
    \A k \in RawFiles : \A i \in disk[<<"raw", k>>].items :
        ~i.error => i.reason = ProductReview(i)
=============================================================================
