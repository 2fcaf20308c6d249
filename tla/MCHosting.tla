----------------------------- MODULE MCHosting ------------------------------
(***************************************************************************)
(* Hosting for TLC: the constants are given in hosting.cfg.                *)
(***************************************************************************)
EXTENDS Hosting, TLC

\* Requests are interchangeable.
HostingSymmetry == Permutations(Request)
=============================================================================
