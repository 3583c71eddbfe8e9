--------------------------- MODULE MCLedgerClients ---------------------------
(* LedgerClients on a small instance; requests and outcomes are each        *)
(* interchangeable.                                                         *)
EXTENDS LedgerClients, TLC

ClientSymmetry == Permutations(Requests) \cup Permutations(Outcomes)

(* The last restoration made, the checkpoint is read no more: states that   *)
(* differ only in it have the same successors, and LedgerAudit was checked  *)
(* of it where it was taken.                                                *)
WithoutUsedCheckpoint ==
    <<ledger, closed, undone, retired,
      IF ledger.alloc.pool < MaxPools THEN <<saved>> ELSE <<>> >>

=============================================================================
