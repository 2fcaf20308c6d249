---------------------------- MODULE MCAuditChain ----------------------------
(***************************************************************************)
(* AuditChain for TLC: the constants are given in the .cfg files.          *)
(***************************************************************************)
EXTENDS AuditChain, TLC

\* Requests and events are interchangeable: only equality of either matters.
RecorderSymmetry == Permutations(Recorder) \cup Permutations(Event)
=============================================================================
