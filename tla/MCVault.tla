------------------------------ MODULE MCVault -------------------------------
(***************************************************************************)
(* Vault for TLC: the constants are given in vault.cfg.                    *)
(***************************************************************************)
EXTENDS Vault, TLC

\* Requests, and names, are interchangeable.
VaultSymmetry == Permutations(Request) \cup Permutations(Name)
=============================================================================
