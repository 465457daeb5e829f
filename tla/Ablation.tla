------------------------------ MODULE Ablation ------------------------------
(***************************************************************************)
(* scripts/eval-ablation.ts and eval-ablation-collect.ts: the guards       *)
(* replayed on the recorded assessor verdicts, with the verifier's answer  *)
(* taken from the run where the verdict it was asked about is the same,    *)
(* and from a fresh recorded call otherwise.                               *)
(***************************************************************************)
EXTENDS EvalReports, Functions

CONSTANTS Passes,     \* the result files: pass 1, pass 2
          MaxCalls    \* eval-ablation-collect.ts MAX_CALLS

Both           == [verbatim |-> TRUE, gap |-> TRUE]
Configurations == [verbatim : BOOLEAN, gap : BOOLEAN]

Key(pass, id, verdict, quoteGiven) ==
    [pass |-> pass, id |-> id, verdict |-> verdict, quote |-> quoteGiven]

VerbatimFails(p) == p.reason \in {"citation_not_verbatim", "citation_too_short"}

Guarded(p)   == p.predClause # <<>> /\ p.raw # "insufficient"
Verbatim(p, cfg) == Guarded(p) /\ cfg.verbatim /\ VerbatimFails(p)
GapRule(p, cfg)  == Guarded(p) /\ cfg.gap /\ p.raw = "gap" /\ ~Verbatim(p, cfg)

\* The gap guard has no recorded outcome to replay.
ReplayThrows(p, cfg) == GapRule(p, cfg) /\ (VerbatimFails(p) \/ p.gapCheck = "none")

ReplayBlock(p, cfg) ==
    IF Verbatim(p, cfg) THEN p.reason
    ELSE IF GapRule(p, cfg) /\ p.gapCheck # "pass" THEN p.gapCheck
    ELSE "none"

\* Mutant: a low confidence is reported before the verifier's disagreement.
ReplayConfidenceFirst(p, cfg, pass, calls) ==
    LET blocked == ReplayBlock(p, cfg)
        verdict == IF blocked = "none" THEN p.raw ELSE "insufficient"
        reason  == IF p.predClause = <<>> THEN "no_clause_found"
                   ELSE IF blocked # "none" THEN blocked
                   ELSE IF p.confidence < ReviewThreshold THEN "low_confidence"
                   ELSE IF ~p.agrees THEN "verifier_disagreement" ELSE "none"
    IN  [id |-> p.id, verdict |-> verdict, blocked |-> blocked, committed |-> reason = "none",
         reason |-> reason, correct |-> verdict = p.gold, needs |-> {}]

\* One item under one configuration.  calls is a function from keys to the
\* verifier's recorded answers; needs is the key looked up, if one is.
Replay(p, cfg, pass, calls) ==
    LET blocked  == ReplayBlock(p, cfg)
        verdict  == IF blocked = "none" THEN p.raw ELSE "insufficient"
        observed == verdict = p.pred /\ (blocked # "none") = (p.reason \in BlockedReason)
        key      == Key(pass, p.id, verdict, blocked = "none")
        known    == observed \/ key \in DOMAIN calls
        agrees   == IF observed THEN p.agrees ELSE known /\ calls[key]
        reason   == IF p.predClause # <<>> /\ blocked = "none" /\ ~known
                      THEN "MISSING_VERIFIER_CALL"
                    ELSE ReviewLadder(p.predClause # <<>>, blocked, agrees,
                                      p.confidence < ReviewThreshold)
    IN  [id |-> p.id, verdict |-> verdict, blocked |-> blocked, committed |-> reason = "none",
         reason |-> reason, correct |-> verdict = p.gold,
         needs |-> IF observed THEN {} ELSE {key}]

\* The row of a pass in the table: the items and their replays.
Summarize(items, rs) ==
    LET gold == [x \in {i.id : i \in items} |-> ItemOf(items, x).gold]
        com  == {r \in rs : r.committed}
        gp   == {r \in com : r.verdict = "gap"}
    IN  [n |-> Cardinality(items), correct |-> Cardinality({r \in rs : r.correct}),
         committed |-> Cardinality(com),
         committedCorrect |-> Cardinality({r \in com : r.correct}),
         silent |-> {r.id : r \in {x \in com : ~x.correct}},
         confRecallK |-> Cardinality({r \in rs : gold[r.id] = "conformant"
                                                 /\ r.verdict = "conformant"}),
         confN |-> Cardinality({i \in items : i.gold = "conformant"}),
         gapTrue |-> Cardinality({r \in gp : gold[r.id] = "gap"}),
         gapCommitted |-> Cardinality(gp),
         gapGold |-> Cardinality({i \in items : i.gold = "gap"}),
         falseGaps |-> {r.id : r \in {x \in gp : gold[x.id] # "gap"}}]

\* The sanity check of configuration (d).
Reproduces(p, pass, calls) ==
    LET r == Replay(p, Both, pass, calls)
    IN  r.verdict = p.pred /\ r.committed = ~p.review /\ r.reason = p.reason

\* What the collector asks for: the keys the replay of any pass needs under
\* any configuration, without recorded answers.
Throws(pub)  == \E k \in DOMAIN pub, cfg \in Configurations :
                    \E p \in pub[k] : ReplayThrows(p, cfg)
Needs(pub)   == UNION {UNION {Replay(p, cfg, k, <<>>).needs : p \in pub[k]}
                       : k \in DOMAIN pub, cfg \in Configurations}

\* It stops with an error on a replay that throws, on more calls than its cap,
\* and on an item whose raw record is missing or cites no clause.
CollectRuns(pub, raw) ==
    /\ ~Throws(pub)
    /\ Cardinality(Needs(pub)) <= MaxCalls
    /\ \A key \in Needs(pub) :
          \E i \in raw[key.pass] : i.id = key.id /\ i.predClause # <<>>
=============================================================================
