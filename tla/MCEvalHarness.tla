--------------------------- MODULE MCEvalHarness ---------------------------
(***************************************************************************)
(* A small instance of EvalHarness: three items, two passes, two runs.     *)
(* The first item of the first run gets every answer the judge may give;   *)
(* elsewhere a few.                                                        *)
(***************************************************************************)
EXTENDS EvalHarness

Clause == <<5, 3>>
MCGold == [R1 |-> [verdict |-> "gap", clause |-> Clause, difficulty |-> "easy"],
           R2 |-> [verdict |-> "conformant", clause |-> Clause, difficulty |-> "hard"],
           R3 |-> [verdict |-> "insufficient", clause |-> <<>>, difficulty |-> "easy"]]
MCValidated    == DOMAIN MCGold
MCItems == <<"R1", "R2", "R3">>
Other   == [gapGuard |-> "verifier", verifierFamily |-> "other"]
Lexical == [gapGuard |-> "lexical", verifierFamily |-> "same"]
Command(pass, model, config, items, options) ==
    [pass |-> pass, model |-> model, config |-> config, items |-> items,
     dry |-> "dry-run" \in options, budget |-> "budget-usd" \in options]

\* The second run is the other pass, with the same model or another one, or
\* the first pass again, on the frozen items.
MCCommands(r) ==
    IF r = 1 THEN {Command(1, "m1", Other, MCItems, {}), Command(1, "m1", Lexical, <<"R1">>, {})}
    ELSE {Command(2, "m1", Other, MCItems, {}), Command(2, "m2", Other, <<"R1">>, {}),
          Command(1, "m1", Other, <<"R1", "R2">>, {"budget-usd"}), Command(2, "m1", Other, MCItems, {"dry-run"})}

MCClauses      == {<<5, 3>>, <<5, 3, 1>>, <<6>>}
MCFrozen       == {"R1", "R2"}
MCTrancheEdges == <<0, 80, 100>>
MCFoldOf       == [R1 |-> 0, R2 |-> 1, R3 |-> 1]

Plain(v) == Judgement(v, v, "none", "none")

MCSampled(run, id, y) ==
    IF run = 1 /\ id = "R1"
      THEN /\ y.clause \in {Clause, <<>>} /\ y.verifierConfidence # 90
           /\ y.judgement.blocked = "none" \/ (y.confidence = 90 /\ y.agrees)
      ELSE /\ y.agrees /\ y.confidence # 60 /\ y.verifierConfidence # 60
           /\ y.judgement \in {Plain("conformant"), NoClauseJudgement,
                              Judgement("gap", "gap", "none", "pass")}
           /\ y.clause = CASE id = "R1" -> <<6>> [] id = "R2" -> <<5, 3, 1>> [] id = "R3" -> IF run = 1 THEN <<6>> ELSE <<>>
           /\ run = 1 => y.judgement # Judgement("gap", "gap", "none", "pass")
=============================================================================
