----------------------- MODULE MCRequestTransaction -----------------------
(* Small instances of RequestTransaction for TLC. *)
EXTENDS RequestTransaction, TLC

RequestSymmetry == Permutations(Requests)
Symmetry == Permutations(Requests) \cup Permutations(Clients)
=============================================================================
