----------------------------- MODULE MCStartup ------------------------------
(***************************************************************************)
(* Start-up and login for TLC.  The threshold is lowered to two failures   *)
(* and a lock to two minutes, so that locking, re-locking and expiry happen *)
(* within a few steps.                                                     *)
(***************************************************************************)
EXTENDS Startup
=============================================================================
