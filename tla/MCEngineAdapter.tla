--------------------------- MODULE MCEngineAdapter ---------------------------
(* EngineAdapter on a small instance; requests are interchangeable.        *)
EXTENDS EngineAdapter, TLC

RequestSymmetry == Permutations(Requests)

\* One row of one slot, and two rows that share three.
SmallShapes == {[rows |-> 1, slots |-> 1], [rows |-> 2, slots |-> 3]}

(* A recovery command that left the outbox is read no more, and none comes  *)
(* back without being handed over again: states that differ only in such    *)
(* commands have the same successors.                                       *)
WithoutAnsweredCommands ==
    LET waiting == {outbox[r] : r \in DOMAIN outbox}
    IN  <<vars, active, submitted, batches, recoveries \cap waiting, refused \cap waiting>>

=============================================================================
