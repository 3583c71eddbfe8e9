-------------------------- MODULE MCProtocolSession --------------------------
(* ProtocolSession on a small instance; requests are interchangeable. *)
EXTENDS ProtocolSession, TLC

RequestSymmetry == Permutations(Requests)

=============================================================================
