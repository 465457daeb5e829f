---------------------------- MODULE Calibration ----------------------------
(***************************************************************************)
(* What training, serving and reviewing share: the raw confidence, the     *)
(* tranche it falls in, the sidecar's lookup (vidimus-svc/calibration.py,  *)
(* main.py) and the ladder of review reasons.                              *)
(*                                                                         *)
(* Raw confidences are in quarters of a percent, so that both halvings     *)
(* stay exact; accuracies are in percent, rounded down.  The confidence    *)
(* intervals are left out.                                                 *)
(***************************************************************************)
EXTENDS Integers, Sequences, FiniteSets

CONSTANTS TrancheEdges,     \* calibration.TRANCHE_EDGES, in percent
          MinN              \* calibration.MIN_N

ASSUME CalibrationAssumption ==
    /\ TrancheEdges \in Seq(Nat) /\ Len(TrancheEdges) > 1
    /\ TrancheEdges[1] = 0
    /\ MinN \in Nat

RawConfidence(assessor, verifier, agrees) ==
    IF agrees THEN 2 * (assessor + verifier) ELSE assessor + verifier

\* Mutant: a raw confidence on an edge belongs to the lower tranche.
TrancheIndexEdgeBelow(raw) ==
    LET last == Len(TrancheEdges) - 1
    IN  CHOOSE i \in 1..last :
            /\ i = last \/ raw <= 4 * TrancheEdges[i + 1]
            /\ \A j \in 1..(i - 1) : raw > 4 * TrancheEdges[j + 1]

TrancheIndex(raw) ==
    LET last == Len(TrancheEdges) - 1
    IN  CHOOSE i \in 1..last :
            /\ i = last \/ raw < 4 * TrancheEdges[i + 1]
            /\ \A j \in 1..(i - 1) : raw >= 4 * TrancheEdges[j + 1]

\* <<>> is an absent or unreadable calibration file, which is read again for
\* every attestation.
Calibrate(table, raw) ==
    IF table # <<>> /\ table[TrancheIndex(raw)].n >= MinN
      THEN [calibrated |-> TRUE, confidence |-> 4 * table[TrancheIndex(raw)].accuracy]
      ELSE [calibrated |-> FALSE, confidence |-> raw]

\* Why a verdict goes to review, or "none".
ReviewLadder(hasCitation, block, agrees, low) ==
    IF ~hasCitation THEN "no_clause_found"
    ELSE IF block # "none" THEN block
    ELSE IF ~agrees THEN "verifier_disagreement"
    ELSE IF low THEN "low_confidence"
    ELSE "none"
=============================================================================
