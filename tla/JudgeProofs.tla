----------------------------- MODULE JudgeProofs -----------------------------
(***************************************************************************)
(* Proofs about Judge, for every value of its constants.                   *)
(***************************************************************************)
EXTENDS Judge, SequenceTheorems, WellFoundedInduction, TLAPS

(***************************************************************************)
(* The guards.                                                             *)
(***************************************************************************)

\* Canonicalising a quote twice changes nothing (canonicalizeQuote,
\* lib/citation-check.ts): what the trace and the guards look at is the same.
LEMMA CanonicalizeIdempotent ==
    ASSUME NEW q, NEW t
    PROVE  CanonicalizeQuote(CanonicalizeQuote(q, t), t) = CanonicalizeQuote(q, t)
  BY DEF CanonicalizeQuote

\* The guards reach the same conclusion on the raw and on the canonical quote.
LEMMA CheckQuoteOfCanonical ==
    ASSUME NEW q, NEW t
    PROVE  CheckQuote(CanonicalizeQuote(q, t), t) = CheckQuote(q, t)
  BY CanonicalizeIdempotent DEF CheckQuote

\* An accepted canonical quote occurs in the clause and is long enough.
LEMMA AcceptedQuote ==
    ASSUME NEW q, NEW t, q = CanonicalizeQuote(q, t), CheckQuote(q, t) = "ok", Len(q) \in Nat
    PROVE  q # <<>> /\ Occurs(q, t) /\ Len(q) >= MinQuoteWords
  BY ThresholdAssumption DEF CheckQuote

\* A canonical quote is a text.
LEMMA CanonicalizeType ==
    ASSUME NEW q \in Text, NEW t \in Text
    PROVE  CanonicalizeQuote(q, t) \in Text
  <1>1. ASSUME q # <<>> PROVE FlipFirst(q) \in Text
    <2>1. 1 \in 1..Len(q) /\ q[1] \in Word
      BY <1>1 DEF Text
    <2>2. [q[1] EXCEPT !.initial = CASE @ = "upper" -> "lower"
                                     [] @ = "lower" -> "upper"
                                     [] OTHER       -> @] \in Word
      BY <2>1 DEF Word
    <2> QED
      BY <2>1, <2>2 DEF FlipFirst, Text
  <1> QED
    BY <1>1 DEF CanonicalizeQuote

\* checkQuote answers one of its three statuses.
LEMMA CheckQuoteType ==
    ASSUME NEW q, NEW t PROVE CheckQuote(q, t) \in QuoteCheck
  BY DEF CheckQuote, QuoteCheck

\* The gap check answers one of its four outcomes.
LEMMA InterpretType ==
    ASSUME NEW rs PROVE InterpretGapCheck(rs) \in GapOutcome
  BY DEF InterpretGapCheck, GapOutcome

\* A retried call appends its reply after the earlier ones.
LEMMA RepliesAppend ==
    ASSUME NEW rs \in Seq(GapReply), NEW reply \in GapReply
    PROVE  /\ Len(Append(rs, reply)) = Len(rs) + 1
           /\ Append(rs, reply)[Len(rs) + 1] = reply
           /\ \A i \in 1..Len(rs) : Append(rs, reply)[i] = rs[i]
  BY AppendProperties

\* A pass is the last reply's: the retry only follows an unparseable reply.
LEMMA PassConfirms ==
    ASSUME NEW rs \in {<<>>, <<Unparseable>>}, NEW reply \in GapReply,
           InterpretGapCheck(Append(rs, reply)) = "pass"
    PROVE  Confirms(Append(rs, reply))
<1> DEFINE all == Append(rs, reply)
           parsed == {i \in 1..Len(all) : all[i].parsed}
<1>1. /\ all # <<>> /\ Len(all) \in {1, 2} /\ all[Len(all)] = reply
      /\ \A i \in 1..(Len(all) - 1) : all[i] = Unparseable
  <2>1. Unparseable \in GapReply
    BY DEF GapReply
  <2> HIDE DEF all
  <2>2. CASE rs = <<>>
    <3>1. rs \in Seq(GapReply) /\ Len(rs) = 0
      BY <2>2
    <3>2. Len(all) = 1 /\ all[1] = reply
      BY <3>1, RepliesAppend DEF all
    <3> QED
      BY <3>2
  <2>3. CASE rs = <<Unparseable>>
    <3>1. rs \in Seq(GapReply) /\ Len(rs) = 1 /\ rs[1] = Unparseable
      BY <2>1, <2>3
    <3>2. /\ Len(all) = Len(rs) + 1 /\ all[Len(rs) + 1] = reply
          /\ \A i \in 1..Len(rs) : all[i] = rs[i]
      BY <3>1, RepliesAppend, ZenonT(60) DEF all
    <3>3. Len(all) = 2 /\ all[2] = reply /\ all[1] = Unparseable
      BY <3>1, <3>2
    <3>4. all # <<>>
      BY <3>3
    <3> QED
      BY <3>3, <3>4
  <2> QED
    BY <2>2, <2>3
<1>2. parsed # {}
  BY DEF InterpretGapCheck
<1> HIDE DEF all
<1>3. \A i \in parsed : i = Len(all)
  <2>1. ~Unparseable.parsed
    BY DEF Unparseable
  <2>2. \A i \in 1..Len(all) : i = Len(all) \/ i \in 1..(Len(all) - 1)
    BY <1>1
  <2> QED
    BY <1>1, <2>1, <2>2
<1>4. parsed = {Len(all)} /\ reply.parsed
  BY <1>1, <1>2, <1>3
<1>5. (CHOOSE i \in parsed : \A j \in parsed : j <= i) = Len(all)
  BY <1>1, <1>4
<1>6. /\ reply.same_subject \in Answer /\ reply.contradicts \in Answer /\ reply.words \in BOOLEAN
  <2>1. reply # Unparseable /\ reply # CallError
    BY <1>4 DEF Unparseable, CallError
  <2>2. reply \in ParsedReply
    BY <2>1, SMTT(30) DEF GapReply
  <2> QED
    BY <2>2 DEF ParsedReply
<1>7. reply.same_subject = "yes" /\ reply.contradicts = "yes" /\ reply.words
  <2>1. InterpretGapCheck(all) = "pass"
    BY DEF all
  <2> QED
    BY <1>1, <1>4, <1>5, <1>6, <2>1 DEF InterpretGapCheck, Answer
<1> QED
  BY <1>1, <1>4, <1>7 DEF Confirms, all

(***************************************************************************)
(* The inductive invariant: what each stage of the evaluation leaves       *)
(* behind.                                                                 *)
(***************************************************************************)
Asserts == a.verdict # "insufficient_evidence"

\* Before the guards nothing has been decided.
Undecided ==
    pc \in {"assess", "clauseText"} =>
        /\ blocked = "none" /\ excerpt = <<>> /\ replies = <<>>
        /\ pc = "clauseText" => cited /\ a.verdict = raw.verdict

\* After them: the quote is canonical, an excerpt is an accepted quote, a reason
\* is the quote's own or withdraws the verdict, and without a reason the verdict
\* is the assessor's.
Guarded ==
    pc \in {"gapCheck", "verify", "attest", "done"} =>
        /\ a.quote = CanonicalizeQuote(raw.quote, full)
        /\ excerpt # <<>> => excerpt = a.quote /\ CheckQuote(a.quote, full) = "ok"
        /\ Asserts => cited /\ CheckQuote(a.quote, full) = "ok" /\ excerpt = a.quote
        /\ a.verdict # raw.verdict => ~Asserts /\ blocked # "none"
        /\ blocked = "citation_too_short" => CheckQuote(a.quote, full) = "too_short"
        /\ blocked = "citation_not_verbatim" => CheckQuote(a.quote, full) = "not_verbatim"
        /\ blocked \notin {"none", "verifier_same_family"} => ~Asserts
        /\ ~cited => blocked = "none"

\* What stands behind a gap that is still alive.
GapGuarded ==
    pc \in {"gapCheck", "verify", "attest", "done"} /\ a.verdict = "gap" =>
        /\ config.gapGuard = "lexical" => GapGrounding(a.quote, Requirement)
        /\ config.gapGuard = "verifier" =>
              /\ config.verifierFamily = "other"
              /\ pc # "gapCheck" => Confirms(replies)
        /\ config.gapGuard = "lexical" /\ blocked = "none" /\ pc \in {"attest", "done"} =>
              config.verifierFamily = "other"

Checking ==
    pc = "gapCheck" => blocked = "none" /\ a.verdict = "gap" /\ a.verdict = raw.verdict
                       /\ cited /\ config.gapGuard = "verifier"
                       /\ replies \in {<<>>, <<Unparseable>>}

\* The verifier was asked about the verdict that is stored.
Verified ==
    pc \in {"attest", "done"} =>
        /\ verifier.verdict = a.verdict
        /\ verifier.quote # <<>> => verifier.quote = a.quote

\* The row is the conclusion of the stages before it.
RowMatches ==
    pc = "done" =>
        /\ row.verdict = a.verdict /\ row.signed = a.verdict /\ row.excerpt = excerpt
        /\ row.trace.rawVerdict = raw.verdict /\ row.trace.guard = blocked
        /\ row.trace.quote = QuoteStatus(raw.quote, full)
        /\ row.rejected = (row.trace.quote \notin {"none", "verified"})
        /\ ~cited => row.review = "no_clause_found"
        /\ cited /\ blocked # "none" => row.review = blocked
        /\ cited /\ blocked = "none" /\ ~verifier.agrees => row.review = "verifier_disagreement"
        /\ row.review = "none" =>
              /\ cited /\ blocked = "none" /\ verifier.agrees
              /\ row.calibrated /\ ~(row.confidence < 4 * ReviewThreshold)
        /\ row.calibrated => Measured(RawConfidence(raw.confidence, verifier.confidence,
                                                    verifier.agrees), row.confidence)
        /\ row.review \in {"none", "no_clause_found", "verifier_disagreement", "low_confidence",
                           blocked}

Inv == Undecided /\ Guarded /\ GapGuarded /\ Checking /\ Verified /\ RowMatches

(***************************************************************************)
(* Type correctness.                                                       *)
(***************************************************************************)
LEMMA EmptyText == <<>> \in Text
  BY DEF Text

LEMMA QuoteIsText == ASSUME NEW q \in Quotes PROVE q \in Text
  BY JudgeAssumption, LevelAssumption

\* Every variable keeps its type.
THEOREM TypeCorrect == Spec => []TypeOK
<1> USE DEF AssessorVerdict, Verdict
<1>1. Init => TypeOK
  BY EmptyText, JudgeAssumption, LevelAssumption
     DEF Init, TypeOK, Config, NoClauseAnswer, BlockedReason, GapOutcome
<1>2. TypeOK /\ [Next]_vars => TypeOK'
  <2> SUFFICES ASSUME TypeOK, [Next]_vars
               PROVE  TypeOK'
    OBVIOUS
  <2>1. CASE AssessNoClause
    BY <2>1, EmptyText, JudgeAssumption, LevelAssumption DEF AssessNoClause, TypeOK, world, NoClauseAnswer
  <2>2. CASE AssessReply
    <3>1. PICK v \in AssessorVerdict, q \in Quotes, c \in Levels :
             /\ raw' = [verdict |-> v, quote |-> q, confidence |-> c]
             /\ a' = [verdict |-> v, quote |-> q]
      BY <2>2 DEF AssessReply
    <3> QED
      BY <2>2, <3>1, QuoteIsText, JudgeAssumption, LevelAssumption DEF AssessReply, TypeOK, world
  <2>3. CASE ReadClause
    <3>1. stored \in Text /\ raw.quote \in Text
      BY JudgeAssumption, LevelAssumption DEF TypeOK
    <3> DEFINE q == CanonicalizeQuote(raw.quote, stored)
               g == GuardVerdict(raw.verdict, q, Requirement, stored,
                                 config.gapGuard = "lexical")
    <3>2. q \in Text
      BY <3>1, CanonicalizeType
    <3>3. /\ g.reason \in BlockedReason \cup {"none"}
          /\ g.verdict \in {raw.verdict, "insufficient_evidence"}
      BY DEF BlockedReason, GuardVerdict
    <3>4. raw.verdict \in AssessorVerdict
      BY DEF TypeOK
    <3>5. /\ a' \in [verdict : AssessorVerdict, quote : Text]
          /\ blocked' \in BlockedReason \cup {"none"}
          /\ excerpt' \in {q, <<>>}
          /\ full' = stored
          /\ pc' \in {"gapCheck", "verify"}
      <4> HIDE DEF q, g
      <4>1. /\ full' = stored
            /\ a'.verdict \in {g.verdict, "insufficient_evidence"}
            /\ a' = [verdict |-> a'.verdict, quote |-> q]
            /\ blocked' \in {g.reason, "verifier_same_family"}
            /\ excerpt' \in {q, <<>>}
            /\ pc' \in {"gapCheck", "verify"}
        BY <2>3 DEF ReadClause, q, g
      <4> QED
        BY <4>1, <3>2, <3>3, <3>4 DEF BlockedReason
    <3> QED
      BY <2>3, <3>2, <3>5, EmptyText DEF ReadClause, TypeOK, world
  <2>4. CASE GapCheckRetry
    BY <2>4 DEF GapCheckRetry, TypeOK, world, GapReply
  <2>5. CASE GapCheckReply
    <3> DEFINE outcome == InterpretGapCheck(replies')
    <3>1. outcome \in GapOutcome
      BY InterpretType
    <3> HIDE DEF outcome
    <3>2. PICK reply \in GapReply : replies' = Append(replies, reply)
      BY <2>5 DEF GapCheckReply
    <3>3. replies' \in Seq(GapReply)
      BY <3>2 DEF TypeOK
    <3>4. \/ UNCHANGED <<a, blocked>>
          \/ /\ a' = [verdict |-> "insufficient_evidence", quote |-> a.quote]
             /\ blocked' = outcome /\ outcome # "pass"
      BY <2>5 DEF GapCheckReply, outcome
    <3>5. a' \in [verdict : AssessorVerdict, quote : Text] /\ blocked' \in BlockedReason \cup {"none"}
      BY <3>1, <3>4 DEF TypeOK, BlockedReason
    <3> QED
      BY <2>5, <3>3, <3>5 DEF GapCheckReply, TypeOK, world
  <2>6. CASE VerifyReply
    BY <2>6, EmptyText, JudgeAssumption, LevelAssumption DEF VerifyReply, TypeOK, world, BlockedReason
  <2>7. CASE AttestReply
    BY <2>7 DEF AttestReply, TypeOK, world, ReviewDecision, ReviewLadder, ReviewReason, Calibrate
  <2>8. CASE CallFails
    BY <2>8 DEF CallFails, TypeOK, world
  <2>9. CASE Ingest
    BY <2>9 DEF Ingest, TypeOK, world
  <2>10. CASE UNCHANGED vars
    BY <2>10 DEF vars, TypeOK
  <2> QED
    BY <2>1, <2>2, <2>3, <2>4, <2>5, <2>6, <2>7, <2>8, <2>9, <2>10 DEF Next, Evaluate
<1> QED
  BY <1>1, <1>2, PTL DEF Spec

(***************************************************************************)
(* The stages, one lemma per step that adds to the invariant.              *)
(***************************************************************************)

\* The guards establish what Guarded, GapGuarded and Checking say.
LEMMA ReadClauseStep ==
    ASSUME TypeOK, Inv, ReadClause PROVE Inv'
<1> DEFINE q == CanonicalizeQuote(raw.quote, stored)
           g == GuardVerdict(raw.verdict, q, Requirement, stored, config.gapGuard = "lexical")
           accepted == raw.verdict # "insufficient_evidence" /\ g.reason = "none"
           checkGap == accepted /\ raw.verdict = "gap" /\ config.gapGuard = "verifier"
           noFamily == checkGap /\ config.verifierFamily # "other"
<1>1. /\ pc = "clauseText" /\ cited /\ replies = <<>>
      /\ UNCHANGED <<config, cited, raw, replies, verifier, row>>
      /\ full' = stored
      /\ a'.verdict = (IF noFamily THEN "insufficient_evidence" ELSE g.verdict)
      /\ a'.quote = q
      /\ blocked' = IF noFamily THEN "verifier_same_family" ELSE g.reason
      /\ excerpt' = IF accepted THEN q ELSE <<>>
      /\ pc' = IF checkGap /\ ~noFamily THEN "gapCheck" ELSE "verify"
  BY DEF ReadClause, world, Inv, Undecided
<1>2. \/ /\ g.reason = "none" /\ g.verdict = raw.verdict
         /\ raw.verdict # "insufficient_evidence" => CheckQuote(q, stored) = "ok"
         /\ raw.verdict = "gap" /\ config.gapGuard = "lexical" => GapGrounding(q, Requirement)
      \/ /\ g.verdict = "insufficient_evidence" /\ raw.verdict # "insufficient_evidence"
         /\ \/ g.reason = "citation_too_short" /\ CheckQuote(q, stored) = "too_short"
            \/ g.reason = "citation_not_verbatim" /\ CheckQuote(q, stored) = "not_verbatim"
            \/ g.reason = "gap_not_grounded" /\ raw.verdict = "gap" /\ CheckQuote(q, stored) = "ok"
  <2> HIDE DEF q
  <2> QED
    BY CheckQuoteType DEF GuardVerdict, QuoteCheck
<1>3. q = CanonicalizeQuote(raw.quote, stored)
  OBVIOUS
<1>4. config.gapGuard \in {"lexical", "verifier"}
  BY DEF TypeOK, Config
<1> HIDE DEF q, g
<1>5. Guarded'
  BY <1>1, <1>2, <1>3 DEF Guarded, Asserts
<1>6. GapGuarded'
  BY <1>1, <1>2, <1>4 DEF GapGuarded
<1>7. Checking'
  BY <1>1, <1>2 DEF Checking
<1> QED
  BY <1>1, <1>5, <1>6, <1>7 DEF Inv, Undecided, Verified, RowMatches

\* A gap-check answer either passes or withdraws the gap.
LEMMA GapCheckStep ==
    ASSUME TypeOK, Inv, GapCheckReply PROVE Inv'
<1>1. PICK reply \in GapReply : replies' = Append(replies, reply)
  BY DEF GapCheckReply
<1>2. replies' # <<>>
  BY <1>1 DEF TypeOK
<1> DEFINE outcome == InterpretGapCheck(replies')
<1>3. outcome \in GapOutcome
  BY InterpretType
<1>4. /\ pc = "gapCheck" /\ pc' = "verify"
      /\ UNCHANGED <<config, cited, raw, full, excerpt, verifier, row>>
      /\ IF outcome = "pass"
           THEN UNCHANGED <<a, blocked>>
           ELSE /\ a'.verdict = "insufficient_evidence" /\ a'.quote = a.quote
                /\ blocked' = outcome
  BY DEF GapCheckReply, world
<1>5. outcome = "pass" => Confirms(replies')
  BY <1>1, <1>4, PassConfirms DEF Inv, Checking
<1>6. Confirms(replies') = Confirms(replies)'
  OBVIOUS
<1> HIDE DEF outcome
<1> QED
  BY <1>2, <1>3, <1>4, <1>5, <1>6
     DEF Inv, Undecided, Guarded, GapGuarded, Checking, Verified, RowMatches, Asserts, GapOutcome

\* The verifier answers about the guarded verdict.
LEMMA VerifyStep ==
    ASSUME TypeOK, Inv, VerifyReply PROVE Inv'
<1>1. /\ pc = "verify" /\ pc' = "attest"
      /\ UNCHANGED <<config, cited, raw, a, full, excerpt, replies, row>>
      /\ verifier'.verdict = a.verdict
      /\ verifier'.quote = IF blocked = "none" THEN a.quote ELSE <<>>
      /\ blocked' = IF /\ blocked = "none" /\ a.verdict = "gap"
                       /\ config.gapGuard = "lexical" /\ config.verifierFamily # "other"
                      THEN "verifier_same_family" ELSE blocked
  BY DEF VerifyReply, world
<1>2. cited \in BOOLEAN
  BY DEF TypeOK
<1> QED
  BY <1>1, <1>2
     DEF Inv, Undecided, Guarded, GapGuarded, Checking, Verified, RowMatches, Asserts

\* A set of numbers has a least one.
LEMMA Smallest == ASSUME NEW T \in SUBSET Nat, T # {} PROVE \E n \in T : \A m \in T : n <= m
<1>1. PICK x \in T : \A y \in T : ~(<<y, x>> \in OpToRel(<, Nat))
  BY NatLessThanWellFounded, WFMin
<1>2. ASSUME NEW y \in T PROVE x <= y
  <2>1. x \in Nat /\ y \in Nat
    OBVIOUS
  <2>2. y < x => <<y, x>> \in OpToRel(<, Nat)
    BY <2>1, Zenon DEF OpToRel
  <2>3. ~(y < x)
    BY <1>1, <2>2, Zenon
  <2> QED
    BY <2>1, <2>3
<1> QED
  BY <1>2

\* The index the sidecar computes is a tranche the raw confidence falls in.
LEMMA TrancheEncloses ==
    ASSUME NEW conf \in Nat
    PROVE  /\ TrancheIndex(conf) \in 1..(Len(TrancheEdges) - 1)
           /\ FallsIn(TrancheIndex(conf), conf)
<1>0. PICK last \in Nat : last = Len(TrancheEdges) - 1 /\ last >= 1
  <2>1. TrancheEdges \in Seq(Nat) /\ Len(TrancheEdges) > 1
    BY CalibrationAssumption
  <2>2. Len(TrancheEdges) \in Nat
    BY <2>1, LenProperties, SMTT(30)
  <2>3. Len(TrancheEdges) - 1 \in Nat /\ Len(TrancheEdges) - 1 >= 1
    BY <2>1, <2>2
  <2> QED
    BY <2>3
<1> DEFINE Ending == {i \in 1..last : i = last \/ conf < 4 * TrancheEdges[i + 1]}
<1>1. \A i \in 1..(last + 1) : TrancheEdges[i] \in Nat
  BY <1>0, CalibrationAssumption
<1>2. last \in Ending /\ Ending \in SUBSET Nat
  BY <1>0
<1>3. PICK n \in Ending : \A m \in Ending : n <= m
  <2> HIDE DEF Ending
  <2> QED
    BY <1>2, Smallest
<1>4. n \in 1..last /\ (n = last \/ conf < 4 * TrancheEdges[n + 1])
  OBVIOUS
<1>5. ASSUME NEW j \in 1..(n - 1) PROVE conf >= 4 * TrancheEdges[j + 1]
  <2>1. j \in 1..last /\ j # last /\ ~(n <= j)
    BY <1>0, <1>4
  <2>2. j \notin Ending
    BY <1>3, <2>1
  <2>3. ~(conf < 4 * TrancheEdges[j + 1])
    BY <2>1, <2>2
  <2>4. TrancheEdges[j + 1] \in Nat
    BY <1>0, <1>1, <2>1
  <2> QED
    BY <2>3, <2>4
<1> HIDE DEF Ending
<1>6. \E i \in 1..last : /\ i = last \/ conf < 4 * TrancheEdges[i + 1]
                         /\ \A j \in 1..(i - 1) : conf >= 4 * TrancheEdges[j + 1]
  BY <1>4, <1>5
<1>7. PICK k : /\ k = TrancheIndex(conf) /\ k \in 1..last
               /\ k = last \/ conf < 4 * TrancheEdges[k + 1]
               /\ \A j \in 1..(k - 1) : conf >= 4 * TrancheEdges[j + 1]
  BY <1>0, <1>6, Zenon DEF TrancheIndex
<1>8. 4 * TrancheEdges[k] <= conf
  <2>1. CASE k = 1
    BY <2>1, CalibrationAssumption
  <2>2. CASE k # 1
    <3>1. k - 1 \in 1..(k - 1) /\ (k - 1) + 1 = k /\ k \in 1..(last + 1)
      BY <1>0, <1>7, <2>2
    <3>2. conf >= 4 * TrancheEdges[(k - 1) + 1]
      BY <1>7, <3>1
    <3>3. conf >= 4 * TrancheEdges[k] /\ TrancheEdges[k] \in Nat
      BY <1>1, <3>1, <3>2
    <3> QED
      BY <3>3
  <2> QED
    BY <2>1, <2>2
<1> QED
  BY <1>0, <1>7, <1>8 DEF FallsIn

\* A calibrated confidence is a measured one.
LEMMA CalibratedIsMeasured ==
    ASSUME NEW table \in Calibrations, NEW conf \in Nat, Calibrate(table, conf).calibrated
    PROVE  Measured(conf, Calibrate(table, conf).confidence)
<1> DEFINE i == TrancheIndex(conf)
<1>1. /\ table # <<>> /\ table[i].n >= MinN
      /\ Calibrate(table, conf).confidence = 4 * table[i].accuracy
  BY DEF Calibrate
<1>2. i \in 1..(Len(TrancheEdges) - 1) /\ FallsIn(i, conf)
  BY TrancheEncloses
<1> HIDE DEF i
<1> QED
  BY <1>1, <1>2, Zenon DEF Measured

\* The row repeats what the stages left.
LEMMA AttestStep ==
    ASSUME TypeOK, Inv, AttestReply PROVE Inv'
<1>1. PICK table \in Calibrations :
         LET attested == Calibrate(table, RawConfidence(raw.confidence, verifier.confidence,
                                                        verifier.agrees))
         IN  row' = [verdict    |-> a.verdict,
                     excerpt    |-> excerpt,
                     review     |-> ReviewDecision(attested),
                     confidence |-> attested.confidence,
                     calibrated |-> attested.calibrated,
                     signed     |-> a.verdict,
                     trace      |-> [rawVerdict |-> raw.verdict, guard |-> blocked,
                                     quote |-> QuoteStatus(raw.quote, full)],
                     rejected   |-> QuoteStatus(raw.quote, full) \notin {"none", "verified"}]
  BY DEF AttestReply
<1> DEFINE attested == Calibrate(table, RawConfidence(raw.confidence, verifier.confidence,
                                                      verifier.agrees))
<1>2. /\ pc = "attest" /\ pc' = "done"
      /\ UNCHANGED <<config, cited, raw, a, full, blocked, excerpt, replies, verifier>>
  BY DEF AttestReply, world
<1>3. /\ row'.verdict = a.verdict /\ row'.signed = a.verdict /\ row'.excerpt = excerpt
      /\ row'.trace.rawVerdict = raw.verdict /\ row'.trace.guard = blocked
      /\ row'.trace.quote = QuoteStatus(raw.quote, full)
      /\ row'.rejected = (QuoteStatus(raw.quote, full) \notin {"none", "verified"})
      /\ row'.review = ReviewDecision(attested)
      /\ row'.calibrated = attested.calibrated /\ row'.confidence = attested.confidence
  BY <1>1
<1>4. attested.calibrated =>
         Measured(RawConfidence(raw.confidence, verifier.confidence, verifier.agrees),
                  attested.confidence)
  <2>1. raw.confidence \in Nat /\ verifier.confidence \in Nat
    <3>1. /\ raw \in [verdict : AssessorVerdict, quote : Quotes, confidence : 0..100]
          /\ verifier \in [verdict : AssessorVerdict, quote : Text, agrees : BOOLEAN,
                           confidence : 0..100]
      BY Zenon DEF TypeOK
    <3> QED
      BY <3>1
  <2>2. /\ 2 * (raw.confidence + verifier.confidence) \in Nat
        /\ raw.confidence + verifier.confidence \in Nat
    BY <2>1
  <2>3. RawConfidence(raw.confidence, verifier.confidence, verifier.agrees) \in Nat
    BY <2>2, Zenon DEF RawConfidence
  <2> QED
    BY <2>3, CalibratedIsMeasured
<1> HIDE DEF attested
<1>5. RowMatches'
  <2>1. QuoteStatus(raw.quote, full)' = QuoteStatus(raw.quote, full)
    BY <1>2 DEF QuoteStatus, CheckQuote, CanonicalizeQuote
  <2>2. cited \in BOOLEAN /\ blocked \in BlockedReason \cup {"none"}
    BY DEF TypeOK
  <2> QED
    BY <1>2, <1>3, <1>4, <2>1, <2>2 DEF RowMatches, ReviewDecision, ReviewLadder, BlockedReason, GapOutcome
<1> QED
  BY <1>2, <1>5 DEF Inv, Undecided, Guarded, GapGuarded, Checking, Verified, Asserts

\* The stages' invariant holds of every behaviour.
THEOREM StagesInvariant == Spec => []Inv
<1>1. Init => Inv
  BY DEF Init, Inv, Undecided, Guarded, GapGuarded, Checking, Verified, RowMatches
<1>2. TypeOK /\ Inv /\ [Next]_vars => Inv'
  <2> SUFFICES ASSUME TypeOK, Inv, [Next]_vars
               PROVE  Inv'
    OBVIOUS
  <2> USE DEF Inv, Undecided, Guarded, GapGuarded, Checking, Verified, RowMatches, Asserts
  <2>1. CASE AssessNoClause
    BY <2>1 DEF AssessNoClause, world, NoClauseAnswer, CanonicalizeQuote
  <2>2. CASE AssessReply
    BY <2>2 DEF AssessReply, world
  <2>3. CASE ReadClause
    BY <2>3, ReadClauseStep
  <2>4. CASE GapCheckRetry
    BY <2>4 DEF GapCheckRetry, world
  <2>5. CASE GapCheckReply
    BY <2>5, GapCheckStep
  <2>6. CASE VerifyReply
    BY <2>6, VerifyStep
  <2>7. CASE AttestReply
    BY <2>7, AttestStep
  <2>8. CASE CallFails
    BY <2>8 DEF CallFails, world
  <2>9. CASE Ingest
    BY <2>9 DEF Ingest, world
  <2>10. CASE UNCHANGED vars
    BY <2>10 DEF vars
  <2> QED
    BY <2>1, <2>2, <2>3, <2>4, <2>5, <2>6, <2>7, <2>8, <2>9, <2>10 DEF Next, Evaluate
<1> QED
  BY <1>1, <1>2, TypeCorrect, PTL DEF Spec

(***************************************************************************)
(* The properties.                                                         *)
(***************************************************************************)

\* A committed verdict that asserts something is grounded, verified, agreed with,
\* and shows the accuracy measured in its own tranche, above the threshold, under
\* any interleaving with ingests.
THEOREM Grounded == Spec => []CommittedVerdictIsGrounded
<1>1. TypeOK /\ Inv => CommittedVerdictIsGrounded
  <2> SUFFICES ASSUME TypeOK, Inv, Committed PROVE CommittedVerdictIsGrounded
    BY DEF CommittedVerdictIsGrounded
  <2>1. /\ verifier.agrees /\ row.calibrated /\ ~(row.confidence < 4 * ReviewThreshold)
        /\ Measured(RawConfidence(raw.confidence, verifier.confidence, verifier.agrees),
                    row.confidence)
    BY DEF Committed, Reviewed, Inv, RowMatches
  <2>2. ConfidenceDisplay = [kind |-> "calibrated", number |-> row.confidence]
    BY <2>1 DEF Committed, ConfidenceDisplay
  <2>3. ASSUME row.verdict # "insufficient_evidence"
        PROVE  cited /\ Occurs(row.excerpt, full) /\ Len(row.excerpt) >= MinQuoteWords
    <3>1. /\ row.excerpt = a.quote /\ CheckQuote(a.quote, full) = "ok"
          /\ a.quote = CanonicalizeQuote(raw.quote, full)
      BY <2>3 DEF Committed, Inv, Guarded, RowMatches, Asserts
    <3>2. a.quote = CanonicalizeQuote(a.quote, full)
      BY <3>1, CanonicalizeIdempotent
    <3>3. Len(a.quote) \in Nat
      BY DEF TypeOK, Text
    <3>4. Occurs(a.quote, full) /\ Len(a.quote) >= MinQuoteWords
      BY <3>1, <3>2, <3>3, AcceptedQuote
    <3> QED
      BY <3>1, <3>4 DEF Committed, Reviewed, Inv, RowMatches
  <2> QED
    BY <2>1, <2>2, <2>3 DEF CommittedVerdictIsGrounded
<1> QED
  BY <1>1, TypeCorrect, StagesInvariant, PTL

\* A committed gap was confirmed by a model of another family.
THEOREM GapConfirmed == Spec => []CommittedGapIsConfirmed
<1>1. TypeOK /\ Inv => CommittedGapIsConfirmed
  BY DEF CommittedGapIsConfirmed, Committed, Reviewed, Inv, Guarded, GapGuarded, RowMatches,
         Asserts, TypeOK, Config
<1> QED
  BY <1>1, TypeCorrect, StagesInvariant, PTL

\* The stored and signed verdict is the one the verifier was asked about.
THEOREM VerifierJudged == Spec => []VerifierJudgedTheStoredVerdict
<1>1. TypeOK /\ Inv => VerifierJudgedTheStoredVerdict
  <2> SUFFICES ASSUME TypeOK, Inv, pc = "done"
               PROVE  /\ row.verdict = verifier.verdict /\ row.signed = verifier.verdict
                      /\ verifier.quote # <<>> /\ verifier.verdict # "insufficient_evidence" =>
                            verifier.quote = row.excerpt /\ Occurs(verifier.quote, full)
    BY DEF VerifierJudgedTheStoredVerdict
  <2>1. row.verdict = verifier.verdict /\ row.signed = verifier.verdict
    BY DEF Inv, RowMatches, Verified
  <2>2. ASSUME verifier.quote # <<>>, verifier.verdict # "insufficient_evidence"
        PROVE  verifier.quote = row.excerpt /\ Occurs(verifier.quote, full)
    <3>1. /\ verifier.quote = a.quote /\ row.excerpt = a.quote
          /\ CheckQuote(a.quote, full) = "ok" /\ a.quote = CanonicalizeQuote(raw.quote, full)
      BY <2>2 DEF Inv, Verified, Guarded, RowMatches, Asserts
    <3>2. a.quote = CanonicalizeQuote(a.quote, full) /\ Len(a.quote) \in Nat
      BY <3>1, CanonicalizeIdempotent DEF TypeOK, Text
    <3> QED
      BY <3>1, <3>2, AcceptedQuote
  <2> QED
    BY <2>1, <2>2
<1> QED
  BY <1>1, TypeCorrect, StagesInvariant, PTL

\* A guard can only withdraw a verdict, and then says so in the review and the trace.
THEOREM OnlyWithdraw == Spec => []GuardsOnlyWithdraw
<1>1. TypeOK /\ Inv => GuardsOnlyWithdraw
  BY DEF GuardsOnlyWithdraw, Inv, Guarded, RowMatches, Asserts, TypeOK
<1> QED
  BY <1>1, TypeCorrect, StagesInvariant, PTL

\* The trace's quote status, computed from the raw quote, agrees with the
\* excerpt and with the guard's reason, computed from the canonical one.
THEOREM TraceAgrees == Spec => []TraceMatchesExcerpt
<1>1. TypeOK /\ Inv => TraceMatchesExcerpt
  <2> SUFFICES ASSUME TypeOK, Inv, pc = "done"
               PROVE  TraceMatchesExcerpt
    BY DEF TraceMatchesExcerpt
  <2>1. CheckQuote(a.quote, full) = CheckQuote(raw.quote, full)
    BY CheckQuoteOfCanonical DEF Inv, Guarded
  <2>2. raw.quote = <<>> => a.quote = <<>> /\ CheckQuote(a.quote, full) = "not_verbatim"
    BY <2>1 DEF Inv, Guarded, CanonicalizeQuote, CheckQuote
  <2>3. CheckQuote(raw.quote, full) \in QuoteCheck
    BY CheckQuoteType
  <2> QED
    BY <2>1, <2>2, <2>3
       DEF TraceMatchesExcerpt, Inv, Guarded, RowMatches, QuoteStatus, QuoteCheck, Asserts
<1> QED
  BY <1>1, TypeCorrect, StagesInvariant, PTL

(***************************************************************************)
(* The judgements the harness counts on.                                   *)
(***************************************************************************)

\* How a cited verdict of v may be left, case by case.
LEMMA JudgementOf ==
    ASSUME NEW cfg, NEW v \in AssessorVerdict, NEW w, NEW b, NEW o,
           \/ v # "gap" /\ w = v /\ b = "none" /\ o = "none"
           \/ /\ v # "insufficient_evidence" /\ w = "insufficient_evidence" /\ o = "none"
              /\ b \in {"citation_not_verbatim", "citation_too_short"}
           \/ /\ v = "gap" /\ cfg.gapGuard = "lexical" /\ o = "none"
              /\ \/ w = "insufficient_evidence" /\ b = "gap_not_grounded"
                 \/ w = "gap" /\ b = IF cfg.verifierFamily = "other" THEN "none"
                                     ELSE "verifier_same_family"
           \/ /\ v = "gap" /\ cfg.gapGuard # "lexical" /\ cfg.verifierFamily # "other"
              /\ w = "insufficient_evidence" /\ b = "verifier_same_family"
              /\ o = "skipped_same_family"
           \/ /\ v = "gap" /\ cfg.gapGuard # "lexical" /\ cfg.verifierFamily = "other"
              /\ \/ w = "gap" /\ b = "none" /\ o = "pass"
                 \/ w = "insufficient_evidence" /\ b = o /\ o \in GapOutcome \ {"pass"}
    PROVE  Judgement(v, w, b, o) \in Judgements(cfg)
  BY DEF Judgement, Withdrawn, GapJudgements, Judgements

\* What the verifier's answer will leave as the reason.
Settled ==
    IF /\ blocked = "none" /\ a.verdict = "gap"
       /\ config.gapGuard = "lexical" /\ config.verifierFamily # "other"
      THEN "verifier_same_family" ELSE blocked

\* The gap check is only asked of another family, and from the guards on the
\* judgement is one of the set, but for the reason that the verifier's own step
\* adds.
Judged ==
    /\ pc = "gapCheck" => config.verifierFamily = "other"
    /\ pc = "verify" =>
          /\ cited
          /\ Judgement(raw.verdict, a.verdict, Settled, GapCheckOutcome) \in Judgements(config)
    /\ JudgementIsSound

\* The guards on the quote, and the gap check that a configuration rules out.
LEMMA ReadClauseJudged ==
    ASSUME TypeOK, Inv, Judged, ReadClause PROVE Judged'
<1> DEFINE q == CanonicalizeQuote(raw.quote, stored)
           g == GuardVerdict(raw.verdict, q, Requirement, stored, config.gapGuard = "lexical")
           accepted == raw.verdict # "insufficient_evidence" /\ g.reason = "none"
           checkGap == accepted /\ raw.verdict = "gap" /\ config.gapGuard = "verifier"
           noFamily == checkGap /\ config.verifierFamily # "other"
<1>1. /\ cited /\ cited' /\ replies = <<>>
      /\ UNCHANGED <<config, raw, replies>>
      /\ a'.verdict = (IF noFamily THEN "insufficient_evidence" ELSE g.verdict)
      /\ blocked' = IF noFamily THEN "verifier_same_family" ELSE g.reason
      /\ pc' = IF checkGap /\ ~noFamily THEN "gapCheck" ELSE "verify"
  BY DEF ReadClause, world, Inv, Undecided
<1>2. \/ g.reason = "none" /\ g.verdict = raw.verdict
      \/ /\ g.verdict = "insufficient_evidence" /\ raw.verdict # "insufficient_evidence"
         /\ \/ g.reason \in {"citation_too_short", "citation_not_verbatim"}
            \/ /\ g.reason = "gap_not_grounded" /\ raw.verdict = "gap"
               /\ config.gapGuard = "lexical"
  BY DEF GuardVerdict
<1>3. config.gapGuard \in {"lexical", "verifier"} /\ raw.verdict \in AssessorVerdict
  BY DEF TypeOK, Config
<1> HIDE DEF q, g
<1>4. GapCheckOutcome' = IF blocked' = "verifier_same_family" /\ config.gapGuard = "verifier"
                           THEN "skipped_same_family" ELSE "none"
  BY <1>1 DEF GapCheckOutcome
<1>5. ASSUME pc' = "verify"
      PROVE  Judgement(raw.verdict, a'.verdict, Settled', GapCheckOutcome') \in Judgements(config)
  <2>1. Settled' = IF /\ blocked' = "none" /\ a'.verdict = "gap"
                      /\ config.gapGuard = "lexical" /\ config.verifierFamily # "other"
                     THEN "verifier_same_family" ELSE blocked'
    BY <1>1 DEF Settled
  <2> DEFINE w == a'.verdict
             b == Settled'
             o == GapCheckOutcome'
             cfg == config
             v == raw.verdict
  <2>2. CASE noFamily
    <3>1. /\ v = "gap" /\ cfg.gapGuard # "lexical" /\ cfg.verifierFamily # "other"
          /\ w = "insufficient_evidence" /\ b = "verifier_same_family"
          /\ o = "skipped_same_family"
      BY <1>1, <1>4, <2>1, <2>2
    <3> QED
      BY <1>3, <3>1, JudgementOf
  <2>3. CASE ~noFamily /\ g.reason = "none"
    <3>1. ~checkGap /\ w = v
      BY <1>1, <1>2, <1>5, <2>3
    <3>2. o = "none"
      BY <1>1, <1>4, <2>3
    <3>3. CASE v # "gap"
      <4>1. b = "none"
        BY <1>1, <2>1, <2>3, <3>1, <3>3
      <4> QED
        BY <1>3, <3>1, <3>2, <3>3, <4>1, JudgementOf
    <3>4. CASE v = "gap"
      <4>1. cfg.gapGuard = "lexical"
        BY <1>3, <2>3, <3>1, <3>4
      <4>2. b = IF cfg.verifierFamily = "other" THEN "none" ELSE "verifier_same_family"
        BY <1>1, <2>1, <2>3, <3>1, <3>4, <4>1
      <4> QED
        BY <1>3, <3>1, <3>2, <3>4, <4>1, <4>2, JudgementOf
    <3> QED
      BY <3>3, <3>4
  <2>4. CASE ~noFamily /\ g.reason # "none"
    <3>1. w = "insufficient_evidence" /\ v # "insufficient_evidence" /\ b = g.reason
      BY <1>1, <1>2, <2>1, <2>4
    <3>2. o = "none"
      BY <1>1, <1>2, <1>4, <2>4
    <3> QED
      BY <1>2, <1>3, <2>4, <3>1, <3>2, JudgementOf
  <2> QED
    BY <2>2, <2>3, <2>4
<1>6. pc' = "gapCheck" => config'.verifierFamily = "other"
  BY <1>1
<1>7. JudgementIsSound'
  BY <1>1 DEF JudgementIsSound
<1> QED
  BY <1>1, <1>5, <1>6, <1>7 DEF Judged

\* The gap check's answer decides alone.
LEMMA GapCheckJudged ==
    ASSUME TypeOK, Inv, Judged, GapCheckReply PROVE Judged'
<1> DEFINE outcome == InterpretGapCheck(replies')
<1>1. /\ pc = "gapCheck" /\ pc' = "verify" /\ UNCHANGED <<config, cited, raw>>
      /\ IF outcome = "pass"
           THEN UNCHANGED <<a, blocked>>
           ELSE a'.verdict = "insufficient_evidence" /\ blocked' = outcome
  BY DEF GapCheckReply, world
<1>2. /\ blocked = "none" /\ a.verdict = "gap" /\ raw.verdict = "gap" /\ cited
      /\ config.gapGuard = "verifier" /\ config.verifierFamily = "other"
  BY <1>1 DEF Inv, Checking, Judged
<1>3. outcome \in GapOutcome
  BY InterpretType
<1>4. GapCheckOutcome' = outcome
  <2>1. PICK reply \in GapReply : replies' = Append(replies, reply)
    BY DEF GapCheckReply
  <2>2. replies' # <<>>
    BY <2>1 DEF TypeOK
  <2> QED
    BY <2>2 DEF GapCheckOutcome, InterpretGapCheck
<1> HIDE DEF outcome
<1>5. Settled' = blocked'
  BY <1>1, <1>2 DEF Settled
<1>6. raw.verdict \in AssessorVerdict
  BY DEF TypeOK
<1>7. Judgement(raw.verdict, a'.verdict, blocked', outcome) \in Judgements(config)
  <2>1. CASE outcome = "pass"
    BY <1>1, <1>2, <1>6, <2>1, JudgementOf
  <2>2. CASE outcome # "pass"
    BY <1>1, <1>2, <1>3, <1>6, <2>2, JudgementOf
  <2> QED
    BY <2>1, <2>2
<1> QED
  BY <1>1, <1>2, <1>4, <1>5, <1>7 DEF Judged, JudgementIsSound

\* The verifier's step leaves the reason that was still missing.
LEMMA VerifyJudged ==
    ASSUME TypeOK, Inv, Judged, VerifyReply PROVE Judged'
<1>1. /\ pc = "verify" /\ pc' = "attest" /\ UNCHANGED <<config, cited, raw, a, replies>>
      /\ blocked' = Settled
  BY DEF VerifyReply, world, Settled
<1>2. GapCheckOutcome' = GapCheckOutcome
  BY <1>1 DEF GapCheckOutcome, Settled, InterpretGapCheck
<1> QED
  BY <1>1, <1>2 DEF Judged, JudgementIsSound

\* Whatever the models answer, the judgement is one that the harness, the
\* ablation and the calibration count on (JudgementIsSound).
THEOREM JudgementsSound == Spec => []JudgementIsSound
<1>1. Init => Judged
  BY DEF Init, Judged, JudgementIsSound
<1>2. TypeOK /\ Inv /\ Judged /\ [Next]_vars => Judged'
  <2> SUFFICES ASSUME TypeOK, Inv, Judged, [Next]_vars
               PROVE  Judged'
    OBVIOUS
  <2>1. CASE AssessNoClause
    <3>1. /\ pc' = "attest" /\ ~cited' /\ raw'.verdict = "insufficient_evidence"
          /\ a'.verdict = "insufficient_evidence" /\ blocked' = "none" /\ replies' = <<>>
      BY <2>1 DEF AssessNoClause, world, NoClauseAnswer, Inv, Undecided
    <3>2. GapCheckOutcome' = "none"
      BY <3>1 DEF GapCheckOutcome
    <3> QED
      BY <3>1, <3>2 DEF Judged, JudgementIsSound, NoClauseJudgement
  <2>2. CASE AssessReply
    BY <2>2 DEF AssessReply, world, Judged, JudgementIsSound
  <2>3. CASE ReadClause
    BY <2>3, ReadClauseJudged
  <2>4. CASE GapCheckRetry
    BY <2>4 DEF GapCheckRetry, world, Judged, JudgementIsSound
  <2>5. CASE GapCheckReply
    BY <2>5, GapCheckJudged
  <2>6. CASE VerifyReply
    BY <2>6, VerifyJudged
  <2>7. CASE AttestReply
    BY <2>7 DEF AttestReply, world, Judged, JudgementIsSound
  <2>8. CASE CallFails
    BY <2>8 DEF CallFails, world, Judged, JudgementIsSound
  <2>9. CASE Ingest
    BY <2>9 DEF Ingest, world, Judged, JudgementIsSound, Settled, GapCheckOutcome,
               InterpretGapCheck
  <2>10. CASE UNCHANGED vars
    BY <2>10 DEF vars, Judged, JudgementIsSound, Settled, GapCheckOutcome, InterpretGapCheck
  <2> QED
    BY <2>1, <2>2, <2>3, <2>4, <2>5, <2>6, <2>7, <2>8, <2>9, <2>10 DEF Next, Evaluate
<1>3. Judged => JudgementIsSound
  BY DEF Judged
<1> QED
  BY <1>1, <1>2, <1>3, TypeCorrect, StagesInvariant, PTL DEF Spec

(***************************************************************************)
(* The evaluation implements RowPromise.                                   *)
(***************************************************************************)

\* The calls ahead, stage by stage.
LEMMA AheadAt ==
    ASSUME NEW answers
    PROVE  /\ Ahead("assess", answers) = 6
           /\ Ahead("clauseText", answers) = 5
           /\ Ahead("gapCheck", answers) = 4 - answers
           /\ Ahead("verify", answers) = 2
           /\ Ahead("attest", answers) = 1
           /\ Ahead("done", answers) = 0
           /\ Ahead("failed", answers) = 0
  BY DEF Ahead

\* Whatever is answered, every step of an evaluation but an ingestion leaves it
\* fewer calls to make (EvaluationDescends).
THEOREM CallsBounded == Spec => EvaluationDescends
<1> DEFINE Own == <<pc, raw, a, full, blocked, excerpt, replies, verifier, row>>
           Descends == Own' # Own => CallsAhead' \in 0..(CallsAhead - 1)
<1>1. Inv /\ [Next]_vars => [Descends]_vars
  <2> SUFFICES ASSUME Inv, Next, Own' # Own PROVE CallsAhead' \in 0..(CallsAhead - 1)
    OBVIOUS
  <2> HIDE DEF Own, Descends
  <2>1. CallsAhead = Ahead(pc, Len(replies)) /\ CallsAhead' = Ahead(pc', Len(replies'))
    BY DEF CallsAhead
  <2>2. CASE AssessNoClause \/ AssessReply \/ VerifyReply \/ AttestReply \/ CallFails
    <3>1. \/ pc = "assess" /\ pc' \in {"attest", "clauseText", "failed"}
          \/ pc = "clauseText" /\ pc' = "failed"
          \/ pc = "verify" /\ pc' \in {"attest", "failed"}
          \/ pc = "attest" /\ pc' \in {"done", "failed"}
      BY <2>2 DEF AssessNoClause, AssessReply, VerifyReply, AttestReply, CallFails
    <3> QED
      BY <2>1, <3>1, AheadAt
  <2>3. CASE ReadClause
    <3>1. pc = "clauseText" /\ replies = <<>> /\ replies' = <<>> /\ pc' \in {"gapCheck", "verify"}
      BY <2>3 DEF ReadClause, Inv, Undecided
    <3>2. Len(replies') = 0
      BY <3>1
    <3> QED
      BY <2>1, <3>1, <3>2, AheadAt
  <2>4. CASE GapCheckRetry
    <3>1. pc = "gapCheck" /\ pc' = "gapCheck" /\ Len(replies) = 0 /\ Len(replies') = 1
      BY <2>4 DEF GapCheckRetry
    <3> QED
      BY <2>1, <3>1, AheadAt
  <2>5. CASE GapCheckReply
    <3>1. pc = "gapCheck" /\ pc' = "verify"
      BY <2>5 DEF GapCheckReply
    <3>2. CASE replies = <<>>
      BY <2>1, <3>1, <3>2, AheadAt
    <3>3. CASE replies = <<Unparseable>>
      <4>1. Len(replies) = 1
        BY <3>3
      <4>2. CallsAhead = 4 - 1 /\ CallsAhead' = 2
        BY <2>1, <3>1, <4>1, AheadAt
      <4> QED
        BY <4>2
    <3> QED
      BY <3>1, <3>2, <3>3 DEF Inv, Checking
  <2>6. ~Ingest
    BY DEF Ingest, Own
  <2> QED
    BY <2>2, <2>3, <2>4, <2>5, <2>6 DEF Next, Evaluate
<1> HIDE DEF Descends
<1>2. Spec => [][Descends]_vars
  BY <1>1, StagesInvariant, PTL DEF Spec
<1> QED
  BY <1>2 DEF EvaluationDescends, Descends

\* A finished evaluation hands over a row that keeps the promise.
LEMMA RowKeepsPromise ==
    ASSUME TypeOK, Inv, CommittedVerdictIsGrounded, CommittedGapIsConfirmed,
           TraceMatchesExcerpt, pc = "done"
    PROVE  RowOf \in Promise!Row /\ Promise!Promised(RowOf)
<1>1. RowOf \in Promise!Row
  BY DEF RowOf, Promise!Row, TypeOK, ReviewReason
<1>2. /\ RowOf.review = "none" /\ RowOf.verdict # "insufficient_evidence" => RowOf.excerpt
      /\ RowOf.review = "none" /\ RowOf.verdict = "gap" => RowOf.confirmed
      /\ RowOf.excerpt => ~RowOf.rejected
  <2>1. Committed /\ row.verdict # "insufficient_evidence" => row.excerpt # <<>>
    <3> SUFFICES ASSUME Committed, row.verdict # "insufficient_evidence"
                 PROVE  row.excerpt # <<>>
      OBVIOUS
    <3>1. Len(row.excerpt) >= MinQuoteWords
      BY DEF CommittedVerdictIsGrounded
    <3> QED
      BY <3>1, ThresholdAssumption
  <2> QED
    BY <2>1 DEF RowOf, CommittedGapIsConfirmed, TraceMatchesExcerpt, Committed, Reviewed, TypeOK
<1>3. RowOf.review \in BlockedReason \ {"verifier_same_family"} =>
        RowOf.verdict = "insufficient_evidence"
  BY DEF RowOf, Inv, RowMatches, Guarded, Asserts, BlockedReason, GapOutcome
<1> QED
  BY <1>1, <1>2, <1>3 DEF Promise!Promised, Promise!Committed

\* Every behaviour of the evaluation is one RowPromise allows.
THEOREM Implements == Spec => KeepsThePromise
<1> DEFINE Facts == /\ TypeOK /\ Inv /\ CommittedVerdictIsGrounded
                    /\ CommittedGapIsConfirmed /\ TraceMatchesExcerpt
           Kept == pc = "done" => RowOf \in Promise!Row /\ Promise!Promised(RowOf)
<1>1. Init => Promise!Init
  BY DEF Init, Promise!Init, Promise!Pending, Outcome
<1>2. Facts => Kept
  BY RowKeepsPromise
<1>3. Kept' /\ [Next]_vars => [Promise!Next]_Outcome
  <2> SUFFICES ASSUME Kept', [Next]_vars
               PROVE  Promise!Next \/ Outcome' = Outcome
    OBVIOUS
  <2>1. CASE pc \in {"done", "failed"}
    <3>1. UNCHANGED <<pc, config, verifier, row>>
      BY <2>1 DEF Next, Evaluate, AssessNoClause, AssessReply, ReadClause, GapCheckRetry,
                  GapCheckReply, VerifyReply, AttestReply, CallFails, Ingest, vars, world
    <3> QED
      BY <3>1 DEF Outcome, RowOf
  <2>2. CASE pc \notin {"done", "failed"}
    <3>1. Outcome = [status |-> "pending"]
      BY <2>2 DEF Outcome
    <3>2. CASE pc' = "done"
      <4>1. RowOf' \in Promise!Row /\ Promise!Promised(RowOf')
        BY <3>2
      <4>2. Outcome' = [status |-> "decided", row |-> RowOf']
        BY <3>2 DEF Outcome
      <4> QED
        BY <3>1, <4>1, <4>2
           DEF Promise!Next, Promise!Decide, Promise!Decided, Promise!Pending
    <3>3. CASE pc' = "failed"
      BY <3>1, <3>3 DEF Outcome, Promise!Next, Promise!Throw, Promise!Thrown, Promise!Pending
    <3>4. CASE pc' \notin {"done", "failed"}
      BY <3>1, <3>4 DEF Outcome
    <3> QED
      BY <3>2, <3>3, <3>4
  <2> QED
    BY <2>1, <2>2
<1> QED
  BY <1>1, <1>2, <1>3, TypeCorrect, StagesInvariant, Grounded, GapConfirmed, TraceAgrees, PTL
     DEF Spec, KeepsThePromise, Promise!Spec
=============================================================================
