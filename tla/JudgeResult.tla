---------------------------- MODULE JudgeResult ----------------------------
(***************************************************************************)
(* What lib/graph/judge.ts may return, whoever calls it: the product       *)
(* (Judge shows that its steps return nothing else) or the harness that    *)
(* measures it (EvalHarness starts from it).                               *)
(***************************************************************************)
EXTENDS Calibration

CONSTANTS UnknownVerdict,   \* any verdict string outside the enumeration
          Levels,           \* the confidences a model may report, in percent
          NoClauseLevel,    \* the assessor's confidence without a citation: 0.2
          MidLevel,         \* the verifier's confidence without a citation: 0.5
          ReviewThreshold   \* in percent

Verdict == {"conformant", "gap", "insufficient_evidence"}

ASSUME LevelAssumption ==
    /\ UnknownVerdict \notin Verdict
    /\ Levels \subseteq 0..100
    /\ NoClauseLevel \in 0..100
    /\ MidLevel \in 0..100
    /\ ReviewThreshold \in 0..100

AssessorVerdict == Verdict \cup {UnknownVerdict}

GapOutcome == {"pass", "gap_off_subject", "gap_no_contradiction", "gap_verifier_unusable"}

BlockedReason == {"citation_not_verbatim", "citation_too_short", "gap_not_grounded",
                  "verifier_same_family"} \cup (GapOutcome \ {"pass"})

ReviewReason == BlockedReason \cup {"no_clause_found", "verifier_disagreement", "low_confidence"}

\* Process environment: GAP_GUARD, and the verifier's model family compared
\* with the assessor's.
Config == [gapGuard : {"lexical", "verifier"}, verifierFamily : {"unset", "same", "other"}]

\* How the guards may leave a cited verdict under a configuration: the raw and
\* the final verdict, what blocked it and the outcome of the gap check.
Judgement(rawVerdict, verdict, blockedReason, outcome) ==
    [raw |-> rawVerdict, verdict |-> verdict, blocked |-> blockedReason, gapCheck |-> outcome]

Withdrawn(rawVerdict, reason, outcome) ==
    Judgement(rawVerdict, "insufficient_evidence", reason, outcome)

GapJudgements(cfg) ==
    IF cfg.gapGuard = "lexical"
      THEN {Withdrawn("gap", "gap_not_grounded", "none"),
            Judgement("gap", "gap", IF cfg.verifierFamily = "other" THEN "none"
                                    ELSE "verifier_same_family", "none")}
    ELSE IF cfg.verifierFamily # "other"
      THEN {Withdrawn("gap", "verifier_same_family", "skipped_same_family")}
    ELSE {Judgement("gap", "gap", "none", "pass")}
         \cup {Withdrawn("gap", o, o) : o \in GapOutcome \ {"pass"}}

Judgements(cfg) ==
    {Judgement(v, v, "none", "none") : v \in AssessorVerdict \ {"gap"}}
    \cup {Withdrawn(v, reason, "none") : v \in AssessorVerdict \ {"insufficient_evidence"},
                                         reason \in {"citation_not_verbatim", "citation_too_short"}}
    \cup GapJudgements(cfg)

\* Without a citation no guard runs.
NoClauseJudgement == Judgement("insufficient_evidence", "insufficient_evidence", "none", "none")
=============================================================================
