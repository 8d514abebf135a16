---------------------------- MODULE MCRequestGate ----------------------------
(***************************************************************************)
(* Small instances of RequestGate.                                         *)
(***************************************************************************)
EXTENDS RequestGate, TLC

GateSymmetry == Permutations(Replicas) \union Permutations(Requests)

=============================================================================
