----------------------------- MODULE MCConsole ------------------------------
(***************************************************************************)
(* The console tab with the server's sessions for TLC.                     *)
(***************************************************************************)
EXTENDS Console, TLC

ConsoleSymmetry == Permutations(Request) \cup Permutations(Call)
=============================================================================
