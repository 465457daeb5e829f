----------------------------- MODULE MCSidecar -----------------------------
(***************************************************************************)
(* A small instance of Sidecar: a developer's container, whose key is in   *)
(* the directory or nowhere, and an instance with a key of its own.        *)
(***************************************************************************)
EXTENDS Sidecar, TLC

CONSTANTS dev, cloud, verdict, other

MCEnvKey == [i \in Instances |-> IF i = cloud THEN 2 ELSE NoKey]

MCSymmetry == Permutations(Contents)
=============================================================================
