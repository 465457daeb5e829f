--------------------------- MODULE ExtractionMatch ---------------------------
(***************************************************************************)
(* lib/extraction-match.ts: the greedy one-to-one matching between the     *)
(* requirements a person listed and those the model extracted.  The Dice   *)
(* coefficient of a pair of texts is the pair's score, in percent.         *)
(***************************************************************************)
EXTENDS Integers, FiniteSets

CONSTANTS Expected, Extracts,   \* the positions in the two lists
          MatchThreshold

ASSUME MatchAssumption ==
    Expected \subseteq Nat /\ Extracts \subseteq Nat /\ MatchThreshold \in 0..100

Pairs == Expected \X Extracts

VARIABLES dice,       \* the score of every pair
          cand,       \* the candidate pairs not yet looked at
          pairs       \* the pairs matched so far

matchVars == <<dice, cand, pairs>>

MatchInit(scores) ==
    /\ dice = scores
    /\ cand = {c \in Pairs : scores[c] >= MatchThreshold}
    /\ pairs = {}

\* The order of the candidates: by score, best first, then by position.
Before(p, q) ==
    \/ dice[p] > dice[q]
    \/ dice[p] = dice[q] /\ (p[1] < q[1] \/ (p[1] = q[1] /\ p[2] < q[2]))

Used(c) == \E p \in pairs : p[1] = c[1] \/ p[2] = c[2]

\* Mutant: an extracted requirement that merges two expected ones counts for both.
TakeBestReusesExtracted ==
    \E c \in cand :
        /\ \A d \in cand : d = c \/ Before(c, d)
        /\ cand' = cand \ {c}
        /\ pairs' = IF \E p \in pairs : p[1] = c[1] THEN pairs ELSE pairs \cup {c}
        /\ UNCHANGED dice

TakeBest ==
    \E c \in cand :
        /\ \A d \in cand : d = c \/ Before(c, d)
        /\ cand' = cand \ {c}
        /\ pairs' = IF Used(c) THEN pairs ELSE pairs \cup {c}
        /\ UNCHANGED dice

MatchNext == TakeBest

Missed == {e \in Expected : \A p \in pairs : p[1] # e}
Extra  == {x \in Extracts : \A p \in pairs : p[2] # x}

\* The recall and the precision that are reported rest on a one-to-one matching
\* that no pair of requirements would rather leave: two requirements alike
\* enough to match are not both left over, nor is one of them matched with a
\* less similar partner while the other is free to take it.
MatchingIsStable ==
    /\ \A p, q \in pairs : (p[1] = q[1] \/ p[2] = q[2]) => p = q
    /\ cand = {} =>
          \A c \in Pairs :
             dice[c] >= MatchThreshold =>
                \E p \in pairs : (p[1] = c[1] \/ p[2] = c[2]) /\ dice[p] >= dice[c]
=============================================================================
