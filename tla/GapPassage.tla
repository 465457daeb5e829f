----------------------------- MODULE GapPassage -----------------------------
(***************************************************************************)
(* lib/gap-check.ts: the passage and the notes that the verifier reads to  *)
(* confirm a gap.  A clause is the sequence of its lines, of which the     *)
(* code looks at the first characters; lengths and offsets count lines,    *)
(* and a quote covers whole lines.                                         *)
(***************************************************************************)
EXTENDS Integers, Sequences

CONSTANTS MaxBulletExtension, MaxNotes     \* the two caps, in lines

ASSUME PassageAssumption == MaxBulletExtension \in Nat /\ MaxNotes \in Nat

Kind == {"blank", "bullet", "note", "text"}

VARIABLES clause,
          quoted,      \* the first and last line of the quote
          colon,       \* the quote ends with ":"
          pos,         \* the line the next paragraph starts at
          gathering,   \* "bullets", then "notes", then "done"
          end,         \* the last line of the passage
          notes,       \* the first lines of the paragraphs kept as notes
          used,        \* their total length
          truncated    \* notesTruncated

passageVars == <<clause, quoted, colon, pos, gathering, end, notes, used, truncated>>

\* The paragraph that starts at line p ends before the first blank line that a
\* further line follows; a second blank line in a row then begins the next
\* paragraph.
ParagraphEnd(p) ==
    LET breaks == {k \in p..(Len(clause) - 2) : clause[k + 1] = "blank"}
    IN  IF breaks = {} THEN Len(clause) ELSE CHOOSE k \in breaks : \A j \in breaks : k <= j

NextParagraph(p) == ParagraphEnd(p) + 2

\* A blank line by itself: a paragraph without a character is no paragraph, but
\* a line of spaces is one.
IsBlankParagraph(p) == ParagraphEnd(p) = p /\ clause[p] = "blank"

IsBullet(p) == clause[p] = "bullet"
IsNote(p)   == clause[p] = "note"

\* locateQuote found the quote.
PassageInit(text, lines, endsInColon) ==
    /\ clause = text
    /\ quoted = lines
    /\ colon = endsInColon
    /\ pos = 1
    /\ gathering = IF endsInColon THEN "bullets" ELSE "notes"
    /\ end = lines[2]
    /\ notes = <<>> /\ used = 0 /\ truncated = FALSE

\* Mutant: the cap counts the paragraph alone, not the whole extension.
ExtendPassageCapsParagraph ==
    /\ gathering = "bullets" /\ pos <= Len(clause)
    /\ LET stop == ParagraphEnd(pos)
       IN  \/ /\ pos <= end \/ IsBlankParagraph(pos)
              /\ pos' = NextParagraph(pos) /\ UNCHANGED <<gathering, end>>
           \/ /\ pos > end
              /\ IF (IsBullet(pos) \/ IsNote(pos)) /\ stop - pos < MaxBulletExtension
                   THEN pos' = NextParagraph(pos) /\ end' = stop /\ UNCHANGED gathering
                 ELSE pos' = 1 /\ gathering' = "notes" /\ UNCHANGED end
    /\ UNCHANGED <<clause, quoted, colon, notes, used, truncated>>

\* A bullet or NOTE paragraph right after the passage joins it, up to the cap;
\* the first other paragraph, a line of spaces too, ends the passage.
ExtendPassage ==
    /\ gathering = "bullets" /\ pos <= Len(clause)
    /\ LET stop == ParagraphEnd(pos)
       IN  \/ /\ pos <= end \/ IsBlankParagraph(pos)
              /\ pos' = NextParagraph(pos) /\ UNCHANGED <<gathering, end>>
           \/ /\ pos > end
              /\ IF (IsBullet(pos) \/ IsNote(pos)) /\ stop - quoted[2] <= MaxBulletExtension
                   THEN pos' = NextParagraph(pos) /\ end' = stop /\ UNCHANGED gathering
                 ELSE pos' = 1 /\ gathering' = "notes" /\ UNCHANGED end
    /\ UNCHANGED <<clause, quoted, colon, notes, used, truncated>>

PassageEnds ==
    /\ gathering = "bullets" /\ pos > Len(clause)
    /\ gathering' = "notes" /\ pos' = 1
    /\ UNCHANGED <<clause, quoted, colon, end, notes, used, truncated>>

\* A NOTE paragraph outside the passage is kept; the first that would pass the
\* cap ends the list.
CollectNote ==
    /\ gathering = "notes" /\ pos <= Len(clause)
    /\ LET stop == ParagraphEnd(pos)
       IN  IF ~IsNote(pos) \/ (quoted[1] <= pos /\ stop <= end)
             THEN pos' = NextParagraph(pos) /\ UNCHANGED <<gathering, notes, used, truncated>>
           ELSE IF used + (stop - pos + 1) > MaxNotes
             THEN truncated' = TRUE /\ gathering' = "done" /\ UNCHANGED <<pos, notes, used>>
           ELSE /\ pos' = NextParagraph(pos)
                /\ notes' = Append(notes, pos)
                /\ used' = used + (stop - pos + 1)
                /\ UNCHANGED <<gathering, truncated>>
    /\ UNCHANGED <<clause, quoted, colon, end>>

NotesEnd ==
    /\ gathering = "notes" /\ pos > Len(clause)
    /\ gathering' = "done"
    /\ UNCHANGED <<clause, quoted, colon, pos, end, notes, used, truncated>>

PassageNext == ExtendPassage \/ PassageEnds \/ CollectNote \/ NotesEnd

\* A line after exactly one blank line starts a paragraph.
StartsParagraph(p) ==
    p = 1 \/ (p > 2 /\ clause[p - 1] = "blank" /\ clause[p - 2] # "blank" /\ clause[p] # "blank")

\* What the verifier is given: beyond the quote itself the passage takes in only
\* the bullets and NOTEs that follow, within its cap; and no NOTE of the clause
\* that stands after one blank line is withheld without notesTruncated saying
\* so, for a NOTE that makes the behaviour permitted must be able to refute the
\* gap.
VerifierSeesNotes ==
    /\ end - quoted[2] <= MaxBulletExtension
    /\ used <= MaxNotes
    /\ \A p \in (quoted[2] + 1)..end : StartsParagraph(p) => IsBullet(p) \/ IsNote(p)
    /\ gathering = "done" /\ ~truncated =>
          \A p \in 1..Len(clause) :
             IsNote(p) /\ StartsParagraph(p) =>
                p \in quoted[1]..end \/ \E i \in 1..Len(notes) : notes[i] = p
=============================================================================
