----------------------------- MODULE MCDNSZone ------------------------------
(***************************************************************************)
(* DNSZone for TLC: the constants are given in the .cfg files.             *)
(***************************************************************************)
EXTENDS DNSZone, TLC

\* Requests are interchangeable; so are contents, and record types.
DNSSymmetry == Permutations(Request) \cup Permutations(Content) \cup Permutations(Type)
=============================================================================
