---------------------------- MODULE MCRetrieval ----------------------------
(***************************************************************************)
(* A small instance of Retrieval: two organisations that ingest different  *)
(* editions of the standard.                                               *)
(***************************************************************************)
EXTENDS Retrieval, TLC

CONSTANTS acme, telco, first, second, scope, timers, invented, q1

MCOrg   == (first :> acme) @@ (second :> telco)

\* The second edition repeats a heading and refers forward.
MCOrder == (first :> <<scope, timers>>) @@ (second :> <<timers, scope, timers>>)

MCReferences == (first :> {<<timers, scope>>, <<scope, invented>>})
                @@ (second :> {<<timers, scope>>})

MCAsker == (q1 :> acme)
=============================================================================
