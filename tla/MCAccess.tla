------------------------------ MODULE MCAccess ------------------------------
(***************************************************************************)
(* Access for TLC: the constants are given in access.cfg.                  *)
(***************************************************************************)
EXTENDS Access, TLC

\* Requests are interchangeable.
AccessSymmetry == Permutations(Request)
=============================================================================
