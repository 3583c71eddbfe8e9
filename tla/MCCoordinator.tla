---------------------------- MODULE MCCoordinator ----------------------------
(* Coordinator on a small instance; requests are interchangeable. *)
EXTENDS Coordinator, TLC

RequestSymmetry == Permutations(Requests)

=============================================================================
