--------------------------- MODULE GoverningForce ---------------------------
(***************************************************************************)
(* lib/normative.ts: the normative force of the sentence that governs a    *)
(* requirement, beside the clause-level force that the parser stored.  A   *)
(* text is a sequence of tokens: modal words, "not", line breaks, the end  *)
(* of a sentence, and salient terms.                                       *)
(***************************************************************************)
EXTENDS SpecParser, FiniteSets

CONSTANTS Term,           \* salient terms
          MinOverlap      \* MIN_OVERLAP

ASSUME GoverningAssumption ==
    /\ IsFiniteSet(Term) /\ Term \cap {"shall", "should", "may", "not", "nl", "stop"} = {}
    /\ MinOverlap \in Nat \ {0}

Modal == {"shall", "should", "may"}
Token == Modal \cup {"not", "nl", "stop"} \cup Term

VARIABLES clauseText,     \* the clause
          flat,           \* the cited excerpt, its line breaks turned into spaces
          wanted,         \* salientTerms(requirement)
          word,           \* the next token to look at
          governing       \* the segment that leads: force, modal, overlap

governingVars == <<clauseText, flat, wanted, word, governing>>

NoSegment == [force |-> "none", modal |-> 0, overlap |-> 0]

Flat(text) ==
    LET read[i \in 0..Len(text)] ==
            IF i = 0 THEN <<>>
            ELSE IF text[i] = "nl" THEN read[i - 1] ELSE Append(read[i - 1], text[i])
    IN  read[Len(text)]

GoverningInit(text, excerpt, requirement) ==
    /\ clauseText = text
    /\ flat = Flat(excerpt)
    /\ wanted = requirement
    /\ word = 1
    /\ governing = NoSegment

\* The keyword a pattern matches at position i: two words count only when they
\* follow each other.
KeywordAt(t, i) ==
    LET negated == i < Len(t) /\ t[i + 1] = "not"
    IN  IF t[i] = "shall" THEN IF negated THEN "shall_not" ELSE "shall"
        ELSE IF t[i] = "should" THEN IF negated THEN "should_not" ELSE "should"
        ELSE IF t[i] = "may" THEN "may" ELSE "none"

\* detectNormative of the clause as it is stored, line breaks included.
ClauseForce == DetectNormative({KeywordAt(clauseText, i) : i \in 1..Len(clauseText)})

\* No modal or sentence end in flat between i and j, both excluded.
Clear(kinds, i, j) == \A l \in (i + 1)..(j - 1) : flat[l] \notin kinds

\* Token l belongs to the segment of the modal at m: it follows m up to the next
\* modal or the end of the sentence, or precedes the sentence's first modal.
InSegment(m, l) ==
    \/ m <= l /\ Clear(Modal \cup {"stop"}, m, l) /\ (l = m \/ flat[l] \notin Modal)
    \/ l < m /\ Clear(Modal \cup {"stop"}, l - 1, m)

Overlap(m) == Cardinality({flat[l] : l \in {j \in 1..Len(flat) : InSegment(m, j)}} \cap wanted)

\* Mutant: the last of the segments that share as many terms governs.
LookAtLastWins ==
    /\ word <= Len(flat)
    /\ governing' =
          IF flat[word] \in Modal /\ Overlap(word) >= MinOverlap /\ Overlap(word) >= governing.overlap
            THEN [force |-> KeywordAt(flat, word), modal |-> word, overlap |-> Overlap(word)]
            ELSE governing
    /\ word' = word + 1
    /\ UNCHANGED <<clauseText, flat, wanted>>

LookAt ==
    /\ word <= Len(flat)
    /\ governing' =
          IF flat[word] \in Modal /\ Overlap(word) >= MinOverlap /\ Overlap(word) > governing.overlap
            THEN [force |-> KeywordAt(flat, word), modal |-> word, overlap |-> Overlap(word)]
            ELSE governing
    /\ word' = word + 1
    /\ UNCHANGED <<clauseText, flat, wanted>>

GoverningNext == LookAt

Strength(force) == CHOOSE i \in 1..Len(Forces) : Forces[i] = force

ModalIsBroken == \E i \in 1..(Len(clauseText) - 1) : clauseText[i] \in Modal /\ clauseText[i + 1] = "nl"

\* The Norm column answers for the sentence that shares most terms with the
\* requirement, the earliest of those, and never claims a stronger force than
\* the parser found anywhere in the clause; a two-word keyword that the text
\* breaks over two lines is the exception, the parser reads it as its first word.
GoverningForceIsOfTheClause ==
    /\ word > Len(flat) =>
          \A m \in 1..Len(flat) :
             flat[m] \in Modal /\ Overlap(m) >= MinOverlap =>
                \/ Overlap(m) < governing.overlap
                \/ Overlap(m) = governing.overlap /\ governing.modal <= m
    /\ governing # NoSegment /\ ~ModalIsBroken =>
          Strength(ClauseForce) <= Strength(governing.force)
=============================================================================
