---------------------------- MODULE CitationCheck ----------------------------
(***************************************************************************)
(* The deterministic citation guards of lib/citation-check.ts.             *)
(*                                                                         *)
(* A text (a clause, a quote) is the sequence of its words after           *)
(* normalizeWs.  A word keeps what the guards look at: its stem (every     *)
(* character but the case of its first letter), the case of its first      *)
(* letter, and whether it ends a sentence.  Quotes cut inside a word are   *)
(* not represented.                                                        *)
(***************************************************************************)
EXTENDS Integers, Sequences, FiniteSets

CONSTANTS Stems,            \* the stems that occur in texts
          Modals,           \* the stems NORMATIVE_RE matches: shall, must
          SalientStems,     \* the stems salientTerms keeps
          MinQuoteWords,    \* MIN_QUOTE_WORDS
          MinSharedTerms,   \* MIN_SHARED_TERMS
          MinCoverage       \* MIN_SUBJECT_COVERAGE, in percent

ASSUME ThresholdAssumption ==
    /\ MinQuoteWords \in Nat \ {0}
    /\ MinSharedTerms \in Nat \ {0}
    /\ MinCoverage \in 0..100

Word == [stem : Stems, initial : {"upper", "lower", "none"}, ends : BOOLEAN]
Text == Seq(Word)

QuoteCheck == {"ok", "too_short", "not_verbatim"}

(***************************************************************************)
(* The verbatim check.                                                     *)
(***************************************************************************)

\* q is the slice of t that starts after its first i words.
OccursAt(q, t, i) ==
    /\ i + Len(q) <= Len(t)
    /\ \A k \in 1..Len(q) : t[i + k] = q[k]

Occurs(q, t) == \E i \in 0..Len(t) : OccursAt(q, t, i)

FlipFirst(q) ==
    [q EXCEPT ![1].initial = CASE @ = "upper" -> "lower"
                               [] @ = "lower" -> "upper"
                               [] OTHER       -> @]

\* The clause's own spelling of a quote that is exact up to the case of its
\* first letter; any other quote is returned unchanged.
CanonicalizeQuote(q, t) ==
    IF q # <<>> /\ ~Occurs(q, t) /\ Occurs(FlipFirst(q), t)
      THEN FlipFirst(q)
      ELSE q

\* Mutant: the minimum length is not checked.
CheckQuoteAnyLength(q, t) ==
    LET c == CanonicalizeQuote(q, t)
    IN  IF c = <<>> \/ ~Occurs(c, t) THEN "not_verbatim" ELSE "ok"

CheckQuote(q, t) ==
    LET c == CanonicalizeQuote(q, t)
    IN  IF c = <<>> \/ ~Occurs(c, t) THEN "not_verbatim"
        ELSE IF Len(c) < MinQuoteWords THEN "too_short"
        ELSE "ok"

(***************************************************************************)
(* The lexical rule for gaps.  The code keeps the normative sentence that  *)
(* shares most terms with the requirement and tests it; the two            *)
(* thresholds are monotone in the number of shared terms, so that sentence *)
(* passes exactly when some sentence does.                                 *)
(***************************************************************************)

\* The maximal runs <<from, to>> of words of q without a sentence end inside.
Sentences(q) ==
    {s \in (1..Len(q)) \X (1..Len(q)) :
        /\ s[1] <= s[2]
        /\ s[1] = 1 \/ q[s[1] - 1].ends
        /\ s[2] = Len(q) \/ q[s[2]].ends
        /\ \A k \in s[1]..(s[2] - 1) : ~q[k].ends}

StemsOf(q, s) == {q[k].stem : k \in s[1]..s[2]}

GapGrounding(q, requirement) ==
    \E s \in Sentences(q) :
        LET shared == requirement \cap StemsOf(q, s) \cap SalientStems
        IN  /\ StemsOf(q, s) \cap Modals # {}
            /\ Cardinality(shared) >= MinSharedTerms
            /\ 100 * Cardinality(shared) >= MinCoverage * Cardinality(requirement)

\* Mutant: an ungrounded gap is withdrawn without a reason.
GuardVerdictSilent(verdict, q, requirement, t, lexicalGap) ==
    IF verdict = "insufficient_evidence" \/ CheckQuote(q, t) # "ok"
      THEN [verdict |-> "insufficient_evidence",
            reason  |-> IF verdict = "insufficient_evidence" THEN "none"
                        ELSE IF CheckQuote(q, t) = "too_short" THEN "citation_too_short"
                        ELSE "citation_not_verbatim"]
      ELSE [verdict |-> IF verdict = "gap" /\ lexicalGap /\ ~GapGrounding(q, requirement)
                          THEN "insufficient_evidence" ELSE verdict,
            reason  |-> "none"]

(***************************************************************************)
(* guardVerdict: the verdict it lets through and the reason it gives, or   *)
(* "none".  requirement is the set of the requirement's salient terms.     *)
(***************************************************************************)
GuardVerdict(verdict, q, requirement, t, lexicalGap) ==
    LET check == CheckQuote(q, t)
        reason == IF verdict = "insufficient_evidence" THEN "none"
                  ELSE IF check = "too_short" THEN "citation_too_short"
                  ELSE IF check = "not_verbatim" THEN "citation_not_verbatim"
                  ELSE IF verdict = "gap" /\ lexicalGap /\ ~GapGrounding(q, requirement)
                    THEN "gap_not_grounded"
                  ELSE "none"
    IN  [verdict |-> IF reason = "none" THEN verdict ELSE "insufficient_evidence",
         reason  |-> reason]
=============================================================================
