----------------------------- MODULE MCApiKeys -----------------------------
(***************************************************************************)
(* A small instance of ApiKeys and Authentication: two scripts that        *)
(* create, two that rotate, a client of each transport.                    *)
(***************************************************************************)
EXTENDS Authentication
=============================================================================
