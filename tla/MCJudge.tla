------------------------------ MODULE MCJudge ------------------------------
(***************************************************************************)
(* A small instance of Judge: a clause of one normative sentence and a     *)
(* plain one, ingested again with the normative sentence reworded.         *)
(***************************************************************************)
EXTENDS Judge

W(stem, initial, ends) == [stem |-> stem, initial |-> initial, ends |-> ends]

the    == W("the", "lower", FALSE)
The    == W("the", "upper", FALSE)
ue     == W("UE", "none", FALSE)
shall  == W("shall", "lower", FALSE)
may    == W("may", "lower", FALSE)
report == W("report", "lower", TRUE)
timer  == W("timer", "lower", FALSE)
runs   == W("runs", "lower", TRUE)

MCStems   == {"the", "UE", "shall", "may", "report", "timer", "runs"}
MCModals  == {"shall"}
MCSalient == {"report", "timer", "UE"}

Normative == <<The, ue, shall, report>>
Permitted == <<The, ue, may, report>>
Plain     == <<The, timer, runs>>

MCRequirement == {"report", "UE"}
MCClauses == {<<>>, Normative \o Plain, Permitted \o Plain}

\* none; exact; exact up to the first letter; exact but not normative; too
\* short; invented.
MCQuotes == {<<>>, Normative, <<the, ue, shall, report>>, <<report>> \o Plain,
             <<The, timer>>, <<shall, timer, ue, report>>}

\* The confidences 60 and 100 give raw ones inside a tranche, on an edge (80, and
\* 50 after a disagreement) and at the closed top; the tables have tranches with
\* one item too few, with just enough and with more.
MCTrancheEdges == <<0, 50, 80, 100>>
T(n, accuracy) == [n |-> n, accuracy |-> accuracy]
MCCalibrations == {<<>>, <<T(2, 90), T(12, 60), T(10, 94)>>, <<T(12, 85), T(12, 78), T(9, 96)>>}
=============================================================================
