------------------------------- MODULE Judge -------------------------------
(***************************************************************************)
(* The evaluation of one requirement: lib/graph/judge.ts (assess, citation *)
(* guards, gap check, verifier), then lib/evaluate-requirement.ts          *)
(* (attestation by the sidecar, review decision).                          *)
(*                                                                         *)
(* pc names the awaited call the evaluation is in.  The code between two   *)
(* awaits runs without interruption, so it belongs to the step that        *)
(* receives the first call's result.  Between two steps the clause may be  *)
(* ingested again with another text.                                       *)
(***************************************************************************)
EXTENDS CitationCheck, JudgeResult

CONSTANTS Requirement,      \* the salient terms of the requirement
          Clauses,          \* the texts the cited clause may hold
          Quotes,           \* the quotes an assessor may return
          Calibrations      \* the tables calibration.json may hold

ASSUME JudgeAssumption ==
    /\ Requirement \subseteq SalientStems
    /\ Clauses \subseteq Text
    /\ <<>> \in Clauses            \* getClause found nothing
    /\ Quotes \subseteq Text
    /\ <<>> \in Quotes             \* an empty or missing quote

(***************************************************************************)
(* Data.                                                                   *)
(***************************************************************************)
\* A gap-check reply: the two answers of its JSON object ("missing" when not a
\* boolean) and whether the words it copies are present and verbatim in the
\* passage and in the requirement; or a reply without a JSON object; or the
\* "ERROR: ..." line that stands for a failed call.
Answer      == {"yes", "no", "missing"}
ParsedReply == [parsed : {TRUE}, same_subject : Answer, contradicts : Answer, words : BOOLEAN]
Unparseable == [parsed |-> FALSE, error |-> FALSE]
CallError   == [parsed |-> FALSE, error |-> TRUE]
GapReply    == ParsedReply \cup {Unparseable, CallError}

\* The last parseable reply counts.
InterpretGapCheck(replies) ==
    LET parsed == {i \in 1..Len(replies) : replies[i].parsed}
        last   == replies[CHOOSE i \in parsed : \A j \in parsed : j <= i]
    IN  IF parsed = {} THEN "gap_verifier_unusable"
        ELSE IF "missing" \in {last.same_subject, last.contradicts}
          THEN "gap_verifier_unusable"
        ELSE IF last.same_subject = "no" THEN "gap_off_subject"
        ELSE IF last.contradicts = "no" THEN "gap_no_contradiction"
        ELSE IF ~last.words THEN "gap_verifier_unusable"
        ELSE "pass"

(***************************************************************************)
(* The evaluation.                                                         *)
(***************************************************************************)
VARIABLES config,     \* the process environment
          stored,     \* the text the cited clause holds in the graph now
          cited,      \* retrieval returned a citation
          pc,         \* the call the evaluation awaits
          raw,        \* the assessor's answer: verdict, quote, confidence
          a,          \* the assessment: verdict and canonical quote
          full,       \* the clause text the guards read
          blocked,    \* blockedReason, or "none"
          excerpt,    \* the citation's excerpt, <<>> when not set
          replies,    \* the raw replies of the gap check
          verifier,   \* what the verifier was asked and what it answered
          row         \* the evaluated row, once pc = "done"

world == <<config, cited>>
vars  == <<config, cited, stored, pc, raw, a, full, blocked, excerpt, replies, verifier, row>>

\* assess without citations
NoClauseAnswer == [verdict |-> "insufficient_evidence", quote |-> <<>>, confidence |-> NoClauseLevel]

Init ==
    /\ config \in Config
    /\ stored \in Clauses
    /\ cited \in BOOLEAN
    /\ pc = "assess"
    /\ raw = NoClauseAnswer
    /\ a = [verdict |-> "insufficient_evidence", quote |-> <<>>]
    /\ full = <<>>
    /\ blocked = "none"
    /\ excerpt = <<>>
    /\ replies = <<>>
    /\ verifier = [verdict |-> "insufficient_evidence", quote |-> <<>>,
                   agrees |-> FALSE, confidence |-> 0]
    /\ row = <<>>

\* No citation: assess and verify answer without any call.
AssessNoClause ==
    /\ pc = "assess" /\ ~cited
    /\ raw' = NoClauseAnswer
    /\ a' = [verdict |-> NoClauseAnswer.verdict, quote |-> <<>>]
    /\ verifier' = [verdict |-> a'.verdict, quote |-> <<>>,
                    agrees |-> a'.verdict = "insufficient_evidence", confidence |-> MidLevel]
    /\ pc' = "attest"
    /\ UNCHANGED <<world, stored, full, blocked, excerpt, replies, row>>

\* The assessor's verdict is not compared with the enumeration.
AssessReply ==
    /\ pc = "assess" /\ cited
    /\ \E verdict \in AssessorVerdict, quote \in Quotes, confidence \in Levels :
          /\ raw' = [verdict |-> verdict, quote |-> quote, confidence |-> confidence]
          /\ a' = [verdict |-> verdict, quote |-> quote]
    /\ pc' = "clauseText"
    /\ UNCHANGED <<world, stored, full, blocked, excerpt, replies, verifier, row>>

\* The clause is read again, and the deterministic guards run on what it holds now.
ReadClause ==
    /\ pc = "clauseText"
    /\ \E quote \in {CanonicalizeQuote(raw.quote, stored)} :
       \E guard \in {GuardVerdict(raw.verdict, quote, Requirement, stored,
                                config.gapGuard = "lexical")} :
          LET accepted == raw.verdict # "insufficient_evidence" /\ guard.reason = "none"
              checkGap == accepted /\ raw.verdict = "gap" /\ config.gapGuard = "verifier"
              noFamily == checkGap /\ config.verifierFamily # "other"
          IN  /\ full' = stored
              /\ a' = [verdict |-> IF noFamily THEN "insufficient_evidence" ELSE guard.verdict,
                       quote   |-> quote]
              /\ blocked' = IF noFamily THEN "verifier_same_family" ELSE guard.reason
              /\ excerpt' = IF accepted THEN quote ELSE <<>>
              /\ pc' = IF checkGap /\ ~noFamily THEN "gapCheck" ELSE "verify"
    /\ UNCHANGED <<world, stored, raw, replies, verifier, row>>

\* Mutant: the retry forgets the earlier replies, and so its own bound.
GapCheckRetryForgets ==
    /\ pc = "gapCheck" /\ replies \in {<<>>, <<Unparseable>>}
    /\ replies' = IF replies = <<>> THEN <<Unparseable>> ELSE <<>>
    /\ UNCHANGED <<world, stored, pc, raw, a, full, blocked, excerpt, verifier, row>>

\* The first gap-check reply holds no JSON object: one more call.
GapCheckRetry ==
    /\ pc = "gapCheck" /\ replies = <<>>
    /\ replies' = <<Unparseable>>
    /\ UNCHANGED <<world, stored, pc, raw, a, full, blocked, excerpt, verifier, row>>

GapCheckReply ==
    /\ pc = "gapCheck"
    /\ \E reply \in GapReply :
          /\ reply = Unparseable => replies # <<>>
          /\ replies' = Append(replies, reply)
    /\ LET outcome == InterpretGapCheck(replies')
        IN  IF outcome = "pass"
              THEN UNCHANGED <<a, blocked>>
              ELSE /\ a' = [verdict |-> "insufficient_evidence", quote |-> a.quote]
                   /\ blocked' = outcome
    /\ pc' = "verify"
    /\ UNCHANGED <<world, stored, raw, full, excerpt, verifier, row>>

\* Mutant: the verifier is asked about the assessor's own verdict.
VerifyReplyOfRaw ==
    /\ pc = "verify"
    /\ \E agrees \in BOOLEAN, confidence \in Levels :
          verifier' = [verdict |-> raw.verdict,
                       quote   |-> IF blocked = "none" THEN a.quote ELSE <<>>,
                       agrees  |-> agrees, confidence |-> confidence]
    /\ pc' = "attest"
    /\ UNCHANGED <<world, stored, raw, a, full, blocked, excerpt, replies, row>>

\* Mutant: GAP_GUARD=lexical trusts a verifier of the assessor's own family.
VerifyReplyAnyFamily ==
    /\ pc = "verify"
    /\ \E agrees \in BOOLEAN, confidence \in Levels :
          verifier' = [verdict |-> a.verdict,
                       quote   |-> IF blocked = "none" THEN a.quote ELSE <<>>,
                       agrees  |-> agrees, confidence |-> confidence]
    /\ pc' = "attest"
    /\ UNCHANGED <<world, stored, raw, a, full, blocked, excerpt, replies, row>>

\* The verifier judges the verdict as it stands after the guards; under
\* GAP_GUARD=lexical a gap it could not check independently is blocked here.
VerifyReply ==
    /\ pc = "verify"
    /\ \E agrees \in BOOLEAN, confidence \in Levels :
          verifier' = [verdict |-> a.verdict,
                       quote   |-> IF blocked = "none" THEN a.quote ELSE <<>>,
                       agrees  |-> agrees, confidence |-> confidence]
    /\ blocked' = IF /\ blocked = "none" /\ a.verdict = "gap"
                     /\ config.gapGuard = "lexical" /\ config.verifierFamily # "other"
                    THEN "verifier_same_family" ELSE blocked
    /\ pc' = "attest"
    /\ UNCHANGED <<world, stored, raw, a, full, excerpt, replies, row>>

\* Mutant: the trace looks for the quote with its own spelling only.
QuoteStatusExact(q, t) ==
    IF q = <<>> THEN "none"
    ELSE IF ~Occurs(q, t) THEN "not_verbatim"
    ELSE IF Len(q) < MinQuoteWords THEN "too_short" ELSE "verified"

QuoteStatus(q, t) ==
    IF q = <<>> THEN "none"
    ELSE IF CheckQuote(q, t) = "ok" THEN "verified" ELSE CheckQuote(q, t)

\* Mutant: a blocked verdict is judged by its confidence like any other.
ReviewDecisionIgnoresBlock(attested) ==
    IF ~cited THEN "no_clause_found"
    ELSE IF ~verifier.agrees THEN "verifier_disagreement"
    ELSE IF ~attested.calibrated \/ attested.confidence < 4 * ReviewThreshold THEN "low_confidence"
    ELSE "none"

\* Why the row goes to review, or "none".
ReviewDecision(attested) ==
    ReviewLadder(cited, blocked, verifier.agrees,
                 ~attested.calibrated \/ attested.confidence < 4 * ReviewThreshold)

\* The sidecar attests the verdict; the review decision and the row follow.
AttestReply ==
    /\ pc = "attest"
    /\ \E table \in Calibrations :
          LET attested == Calibrate(table, RawConfidence(raw.confidence, verifier.confidence,
                                                         verifier.agrees))
          IN  row' = [verdict    |-> a.verdict,
                      excerpt    |-> excerpt,
                      review     |-> ReviewDecision(attested),
                      confidence |-> attested.confidence,
                      calibrated |-> attested.calibrated,
                      signed     |-> a.verdict,
                      trace      |-> [rawVerdict |-> raw.verdict, guard |-> blocked,
                                      quote |-> QuoteStatus(raw.quote, full)],
                      rejected   |-> QuoteStatus(raw.quote, full) \notin {"none", "verified"}]
    /\ pc' = "done"
    /\ UNCHANGED <<world, stored, raw, a, full, blocked, excerpt, replies, verifier>>

\* A call outside the gap check throws, and so does the evaluation.
CallFails ==
    /\ pc \in {"assess", "clauseText", "verify", "attest"}
    /\ pc = "assess" => cited
    /\ pc' = "failed"
    /\ UNCHANGED <<world, stored, raw, a, full, blocked, excerpt, replies, verifier, row>>

\* scripts/ingest.ts runs again for the same clause.
Ingest ==
    /\ stored' \in Clauses
    /\ UNCHANGED <<world, pc, raw, a, full, blocked, excerpt, replies, verifier, row>>

Evaluate ==
    \/ AssessNoClause \/ AssessReply \/ ReadClause \/ GapCheckRetry \/ GapCheckReply
    \/ VerifyReply \/ AttestReply

Next == Evaluate \/ CallFails \/ Ingest

\* The evaluation is one promise chain: it goes on as soon as a call returns,
\* and every call is taken to return or to throw.
Spec == Init /\ [][Next]_vars /\ WF_vars(Evaluate)

(***************************************************************************)
(* Properties.                                                             *)
(***************************************************************************)
Reviewed  == row.review # "none"
Committed == pc = "done" /\ ~Reviewed

TypeOK ==
    /\ config \in Config /\ stored \in Clauses /\ cited \in BOOLEAN
    /\ pc \in {"assess", "clauseText", "gapCheck", "verify", "attest", "done", "failed"}
    /\ raw \in [verdict : AssessorVerdict, quote : Quotes, confidence : 0..100]
    /\ a \in [verdict : AssessorVerdict, quote : Text]
    /\ full \in Clauses
    /\ blocked \in BlockedReason \cup {"none"}
    /\ excerpt \in Text
    /\ replies \in Seq(GapReply)
    /\ verifier \in [verdict : AssessorVerdict, quote : Text, agrees : BOOLEAN,
                     confidence : 0..100]
    /\ pc = "done" =>
          /\ row.verdict \in AssessorVerdict
          /\ row.review \in ReviewReason \cup {"none"}
          /\ row.calibrated \in BOOLEAN /\ row.rejected \in BOOLEAN

\* What the detail of a row shows as its confidence.
ConfidenceDisplay ==
    CASE Reviewed                    -> [kind |-> "review", reason |-> row.review]
      [] ~Reviewed /\ row.calibrated  -> [kind |-> "calibrated", number |-> row.confidence]
      [] ~Reviewed /\ ~row.calibrated -> [kind |-> "uncalibrated", number |-> row.confidence]

\* The tranche of a raw confidence, by its edges: closed below and open above,
\* but for the last, which is closed.
FallsIn(i, conf) ==
    /\ 4 * TrancheEdges[i] <= conf
    /\ conf < 4 * TrancheEdges[i + 1] \/ i = Len(TrancheEdges) - 1

\* The number is the accuracy that a calibration file reports for the tranche
\* of the raw confidence, measured on enough items.
Measured(conf, number) ==
    \E table \in Calibrations \ {<<>>} : \E i \in 1..(Len(TrancheEdges) - 1) :
        FallsIn(i, conf) /\ table[i].n >= MinN /\ number = 4 * table[i].accuracy

\* A committed verdict has a verifier that agreed and shows a confidence above
\* the threshold, which is never the model's own number but the accuracy of the
\* tranche that number falls in, on an edge and at the top too, when enough items
\* measured it; one that asserts something rests on an excerpt that occurs word
\* for word, long enough, in the clause text the guards read, whatever was
\* ingested meanwhile (judge.ts:69-76, evaluate-requirement.ts:39-46,
\* confidence-display.ts:17-28, calibration.py:61).
CommittedVerdictIsGrounded ==
    Committed =>
        /\ verifier.agrees
        /\ ConfidenceDisplay.kind = "calibrated" /\ ~(ConfidenceDisplay.number < 4 * ReviewThreshold)
        /\ Measured(RawConfidence(raw.confidence, verifier.confidence, verifier.agrees),
                    ConfidenceDisplay.number)
        /\ row.verdict # "insufficient_evidence" =>
              cited /\ Occurs(row.excerpt, full) /\ Len(row.excerpt) >= MinQuoteWords

\* The last reply answers both gap-check questions with yes, and copies words
\* that are in the texts.
Confirms(rs) ==
    /\ rs # <<>>
    /\ LET last == rs[Len(rs)]
       IN  last.parsed /\ last.same_subject = "yes" /\ last.contradicts = "yes" /\ last.words

\* A gap is committed only after a model of another family confirmed it: by
\* the two gap-check questions, or under GAP_GUARD=lexical by a grounded excerpt
\* and the verifier's agreement (judge.ts:78-99, 113-116).
CommittedGapIsConfirmed ==
    Committed /\ row.verdict = "gap" =>
        /\ config.verifierFamily = "other" /\ verifier.agrees
        /\ IF config.gapGuard = "verifier"
             THEN Confirms(replies)
             ELSE GapGrounding(row.excerpt, Requirement)

\* The verdict that is stored and signed is the one the verifier was asked
\* about, and for an asserting verdict it saw a quote only if the guards
\* verified it (judge.ts:111; attest in evaluate-requirement.ts:32-36).
VerifierJudgedTheStoredVerdict ==
    pc = "done" =>
        /\ row.verdict = verifier.verdict /\ row.signed = verifier.verdict
        /\ verifier.quote # <<>> /\ verifier.verdict # "insufficient_evidence" =>
              verifier.quote = row.excerpt /\ Occurs(verifier.quote, full)

\* The guards only ever withdraw a verdict: a stored verdict that differs from
\* the assessor's is insufficient_evidence, is in review for the guard's
\* reason, and the trace tells both (judge.ts:72-105, trace.ts:45-55).
GuardsOnlyWithdraw ==
    pc = "done" /\ row.verdict # row.trace.rawVerdict =>
        /\ row.verdict = "insufficient_evidence"
        /\ row.trace.guard # "none" /\ row.review = row.trace.guard

\* The outcome of the gap check, for a judgement that reached the verifier.
GapCheckOutcome ==
    IF replies # <<>> THEN InterpretGapCheck(replies)
    ELSE IF blocked = "verifier_same_family" /\ config.gapGuard = "verifier"
      THEN "skipped_same_family"
    ELSE "none"

\* The guards only ever withdraw a verdict, each for its own reason and under
\* its own configuration: whatever was quoted, ingested meanwhile or replied, the
\* judgement is one of those the harness, the ablation and the calibration count
\* on, and no reason is left on a verdict that stands but that of a lexical gap
\* no other family checked (judge.ts:72-118).
JudgementIsSound ==
    pc = "attest" =>
        Judgement(raw.verdict, a.verdict, blocked, GapCheckOutcome)
            \in (IF cited THEN Judgements(config) ELSE {NoClauseJudgement})

\* The trace, computed from the assessor's raw quote, agrees with the excerpt,
\* computed from the canonical one: an excerpt is a verified quote, an asserting
\* verdict without one has its quote reported as rejected or absent, and only
\* an unverified quote goes to the local rejected-quote table (trace.ts:37-58).
TraceMatchesExcerpt ==
    pc = "done" =>
        /\ row.excerpt # <<>> => row.trace.quote = "verified" /\ ~row.rejected
        /\ row.trace.guard = "citation_too_short" => row.trace.quote = "too_short"
        /\ row.trace.guard = "citation_not_verbatim" => row.trace.quote \in {"none", "not_verbatim"}
        /\ row.rejected => row.trace.quote \in {"too_short", "not_verbatim"}

\* How many more calls an evaluation may await at most, when it awaits the call
\* at and the gap check has been answered a number of times.
Ahead(at, answers) ==
    CASE at = "assess"     -> 6
      [] at = "clauseText" -> 5
      [] at = "gapCheck"   -> 4 - answers
      [] at = "verify"     -> 2
      [] at = "attest"     -> 1
      [] at = "done"       -> 0
      [] at = "failed"     -> 0

CallsAhead == Ahead(pc, Len(replies))

\* An evaluation makes six calls at most, whatever the models answer and however
\* often the clause is ingested meanwhile: each answer brings it nearer to the
\* row, and after the second reply of the gap check, in prose or not, there is no
\* third question (judge.ts:60-118, evaluate-requirement.ts:29-46).
EvaluationDescends ==
    [][<<pc, raw, a, full, blocked, excerpt, replies, verifier, row>>'
          # <<pc, raw, a, full, blocked, excerpt, replies, verifier, row>>
       => CallsAhead' \in 0..(CallsAhead - 1)]_vars

\* Every evaluation ends, with a row or by throwing: the gap check asks at most
\* twice (judge.ts:90-95).
EvaluationEnds == <>(pc \in {"done", "failed"})

\* The abstract promise this evaluation keeps.
RowOf == [verdict   |-> row.verdict,
          review    |-> row.review,
          excerpt   |-> row.excerpt # <<>>,
          confirmed |-> verifier.agrees /\ config.verifierFamily = "other",
          rejected  |-> row.rejected]

Outcome == CASE pc = "done"              -> [status |-> "decided", row |-> RowOf]
             [] pc = "failed"            -> [status |-> "thrown"]
             [] pc \notin {"done", "failed"} -> [status |-> "pending"]

Promise == INSTANCE RowPromise WITH
    RowVerdict  <- AssessorVerdict,
    GuardReason <- BlockedReason \ {"verifier_same_family"},
    OtherReason <- {"verifier_same_family", "no_clause_found", "verifier_disagreement",
                    "low_confidence"},
    outcome     <- Outcome

\* The evaluation implements RowPromise.
KeepsThePromise == Promise!Spec

(***************************************************************************)
(* Claims of the documentation that the code does not keep.                *)
(***************************************************************************)

\* README.md, Expected behaviour: a row whose verifier disagrees has the
\* verdict insufficient evidence.
DisagreementIsInsufficient ==
    pc = "done" /\ row.review = "verifier_disagreement" => row.verdict = "insufficient_evidence"

\* lib/conformance-contract.ts: a row's verdict is one of the three verdicts.
CommittedVerdictIsKnown == Committed => row.verdict \in Verdict
=============================================================================
