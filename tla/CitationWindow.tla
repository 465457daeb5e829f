--------------------------- MODULE CitationWindow ---------------------------
(***************************************************************************)
(* lib/citation-window.ts: the stretch of a long clause that the assessor  *)
(* and the verifier read.  A line has a length (its line break included)   *)
(* and the salient terms it holds.                                         *)
(***************************************************************************)
EXTENDS Integers, Sequences, FiniteSets

CONSTANTS Terms,        \* salient terms
          WindowChars   \* WINDOW_CHARS

ASSUME WindowAssumption == IsFiniteSet(Terms) /\ WindowChars \in Nat \ {0}

Line == [len : Nat \ {0}, terms : SUBSET Terms]

VARIABLES lines,      \* the clause
          salient,    \* salientTerms(requirement)
          from,      \* the line the next stretch starts at
          best        \* the stretch that leads: score, first and last line

windowVars == <<lines, salient, from, best>>

\* Where line i starts, in characters: Start[Len(lines) + 1] is the length.
StartsOf(ls) ==
    LET start[i \in 1..(Len(ls) + 1)] == IF i = 1 THEN 0 ELSE start[i - 1] + ls[i - 1].len
    IN  start

Start(i) == StartsOf(lines)[i]

Fits(i, j) == Start(j + 1) - Start(i) <= WindowChars

Covered(i, j) == UNION {lines[k].terms \cap salient : k \in i..j}

WindowInit(clause, requirement) ==
    /\ lines = clause
    /\ salient = requirement
    /\ from = 1
    /\ best = [score |-> -1, first |-> 1, last |-> 1]

Short == Start(Len(lines) + 1) <= WindowChars

\* The last line of the longest stretch from line i that fits, i - 1 when line
\* i alone does not.
Reach(i) ==
    LET ends == {j \in i..Len(lines) : Fits(i, j)}
    IN  IF ends = {} THEN i - 1 ELSE CHOOSE j \in ends : \A k \in ends : k <= j

\* Mutant: of two stretches that cover as much, the later one wins.
ExtendFromLastBest ==
    /\ ~Short /\ from <= Len(lines)
    /\ LET last  == Reach(from)
           score == Cardinality(Covered(from, last))
       IN  best' = IF score >= best.score
                     THEN [score |-> score, first |-> from,
                           last |-> IF last < from THEN from ELSE last]
                     ELSE best
    /\ from' = from + 1
    /\ UNCHANGED <<lines, salient>>

\* Mutant: a line longer than the window is not taken by its head.
ExtendFromDropsHead ==
    /\ ~Short /\ from <= Len(lines)
    /\ LET last  == Reach(from)
           score == Cardinality(Covered(from, last))
       IN  best' = IF score > best.score
                     THEN [score |-> score, first |-> from, last |-> last]
                     ELSE best
    /\ from' = from + 1
    /\ UNCHANGED <<lines, salient>>

\* One turn of the loop: extend from line `from` while it fits.  A line longer
\* than the window covers nothing, whatever it contains.
ExtendFrom ==
    /\ ~Short /\ from <= Len(lines)
    /\ LET last  == Reach(from)
           score == Cardinality(Covered(from, last))
       IN  best' = IF score > best.score
                     THEN [score |-> score, first |-> from,
                           last |-> IF last < from THEN from ELSE last]
                     ELSE best
    /\ from' = from + 1
    /\ UNCHANGED <<lines, salient>>

WindowNext == ExtendFrom

Selected == ~Short /\ from > Len(lines)

\* The slice [start, end) of the clause that is returned.
SelectWindow ==
    IF Short THEN [start |-> 0, end |-> Start(Len(lines) + 1)]
    ELSE LET start == Start(best.first)
             stop  == Start(best.last + 1)
         IN  [start |-> start,
              end |-> IF stop < start + WindowChars THEN stop ELSE start + WindowChars]

\* The window is a non-empty slice within its size, and no stretch of whole
\* lines that fits covers more terms of the requirement, nor as many earlier.  A
\* line too long to fit is shown only when it is the first of the clause and
\* nothing that fits covers a term, and then by a whole window of it.
WindowCoversMost ==
    Selected =>
        /\ SelectWindow.start < SelectWindow.end
        /\ SelectWindow.end - SelectWindow.start <= WindowChars
        /\ \A i, j \in 1..Len(lines) :
              i <= j /\ Fits(i, j) =>
                  \/ Cardinality(Covered(i, j)) < best.score
                  \/ Cardinality(Covered(i, j)) = best.score /\ best.first <= i
        /\ best.score = 0 => best.first = 1
        /\ ~Fits(best.first, best.last) =>
              best.score = 0 /\ SelectWindow = [start |-> 0, end |-> WindowChars]
=============================================================================
