------------------------------- MODULE PageSlots -------------------------------
(***************************************************************************)
(* The page allocator and the transaction metadata of the Rust crate       *)
(* fissionspec-core: a free list threaded through the slots, generations   *)
(* that retire a slot instead of wrapping, and handles that are copied     *)
(* freely and presented again late, twice or to another pool.              *)
(***************************************************************************)
EXTENDS Naturals, FiniteSets

CONSTANTS
    Capacity,         \* N, the slots of the pool
    MaxGeneration,    \* u64::MAX
    Pool, Foreign,    \* the pool's identity and that of another pool
    Branches, Epochs

\* Assumed of the constants.
SlotsConstants ==
    /\ Capacity \in Nat /\ MaxGeneration \in Nat \ {0}
    /\ Pool # Foreign

Slots == 0..(Capacity - 1)
End == Capacity       \* FREE_LIST_END
Generations == 1..MaxGeneration

VARIABLES
    slotAt,           \* [generation, next, allocated, retired]
    freeHead,
    issued,           \* the handles the pool has returned, all of them
    released,         \* those that were released
    branch            \* the transaction of each branch, once begun

vars == <<slotAt, freeHead, issued, released, branch>>

Slot(generation, next, allocated, retired) ==
    [generation |-> generation, next |-> next, allocated |-> allocated, retired |-> retired]
Handle(pool, index, generation) == [pool |-> pool, index |-> index, generation |-> generation]

Free(i) == ~slotAt[i].allocated /\ ~slotAt[i].retired

Contains(h) ==
    /\ h.pool = Pool /\ h.index \in Slots
    /\ slotAt[h.index].allocated /\ slotAt[h.index].generation = h.generation

----------------------------------------------------------------------------
(* The allocator.                                                          *)

Allocate ==
    /\ freeHead # End
    /\ slotAt' = [slotAt EXCEPT ![freeHead] = Slot(@.generation, End, TRUE, @.retired)]
    /\ freeHead' = slotAt[freeHead].next
    /\ issued' = issued \cup {Handle(Pool, freeHead, slotAt[freeHead].generation)}
    /\ UNCHANGED <<released, branch>>

\* Every handle the caller may still hold, and those of the other pool.
Presented == issued \cup {Handle(Foreign, i, 1) : i \in 0..Capacity}

\* A released slot keeps its generation (PagesSound).
WrongReleased(slot) == Slot(slot.generation, freeHead, FALSE, FALSE)

\* The slot afterwards: free in its next generation, or retired for good.
Released(slot) ==
    IF slot.generation + 1 <= MaxGeneration
    THEN Slot(slot.generation + 1, freeHead, FALSE, FALSE)
    ELSE Slot(slot.generation, End, FALSE, TRUE)

Release(h) ==
    /\ h.pool = Pool /\ h.index \in Slots
    /\ slotAt[h.index].generation = h.generation
    /\ slotAt[h.index].allocated
    /\ slotAt' = [slotAt EXCEPT ![h.index] = Released(@)]
    /\ freeHead' = IF slotAt[h.index].generation + 1 <= MaxGeneration THEN h.index ELSE freeHead
    /\ released' = released \cup {h}
    /\ UNCHANGED <<issued, branch>>

----------------------------------------------------------------------------
(* Transactions.  An optional value is a set of at most one element.       *)

Optional(S) == {{}} \cup {{x} : x \in S}
Handles == Optional(issued \cup {Handle(Foreign, 0, 1)})
Parents == Optional(Branches)

Begun(b) == b \in DOMAIN branch

Begin(b, epoch, parent, checkpoint) ==
    /\ ~Begun(b)
    /\ branch' = [c \in DOMAIN branch \cup {b} |->
                     IF c = b THEN [epoch |-> epoch, parent |-> parent, checkpoint |-> checkpoint,
                                    tail |-> checkpoint, state |-> "open"]
                     ELSE branch[c]]
    /\ UNCHANGED <<slotAt, freeHead, issued, released>>

SamePool(checkpoint, tail) == \A h \in checkpoint, k \in tail : h.pool = k.pool

Prepare(b, epoch, tail) ==
    /\ Begun(b) /\ epoch = branch[b].epoch
    /\ branch[b].state = "open" /\ SamePool(branch[b].checkpoint, tail)
    /\ branch' = [branch EXCEPT ![b] = [@ EXCEPT !.tail = tail, !.state = "prepared"]]
    /\ UNCHANGED <<slotAt, freeHead, issued, released>>

CommitInto(b, epoch, parent) ==
    /\ Begun(b) /\ epoch = branch[b].epoch /\ parent = branch[b].parent
    /\ branch[b].state \in {"open", "prepared"}
    /\ branch' = [branch EXCEPT ![b] = [@ EXCEPT !.state = "committed"]]
    /\ UNCHANGED <<slotAt, freeHead, issued, released>>

\* A repeated abort is answered without a change.
Abort(b, epoch) ==
    /\ Begun(b) /\ epoch = branch[b].epoch
    /\ branch[b].state \in {"open", "prepared", "aborted"}
    /\ branch' = [branch EXCEPT ![b] = [@ EXCEPT !.state = "aborted"]]
    /\ UNCHANGED <<slotAt, freeHead, issued, released>>

----------------------------------------------------------------------------

Init ==
    /\ slotAt = [i \in Slots |-> Slot(1, i + 1, FALSE, FALSE)]
    /\ freeHead = 0
    /\ issued = {} /\ released = {} /\ branch = <<>>

Next ==
    \/ Allocate
    \/ \E h \in Presented : Release(h)
    \/ \E b \in Branches, e \in Epochs :
          \/ \E p \in Parents, h \in Handles : Begin(b, e, p, h)
          \/ \E h \in Handles : Prepare(b, e, h)
          \/ \E p \in Parents : CommitInto(b, e, p)
          \/ Abort(b, e)

Spec == Init /\ [][Next]_vars

----------------------------------------------------------------------------
(* Properties.                                                             *)

\* The slots that at most k links from the head lead to.
reach[k \in 0..Capacity] ==
    IF k = 0 THEN {freeHead} \ {End}
    ELSE reach[k - 1] \cup ({slotAt[i].next : i \in reach[k - 1]} \ {End})

\* The free list, followed as far as there are slots.
Chain == reach[Capacity]

\* No copy of a released handle is live again, whatever reused its slot, and
\* no handle the pool has not issued is live.
StaleHandlesDead ==
    /\ \A h \in released : ~Contains(h)
    /\ \A i \in Slots : slotAt[i].allocated => Handle(Pool, i, slotAt[i].generation) \in issued

\* The free list holds exactly the slots that are neither handed out nor
\* retired, however releases, stale releases and retirements followed each
\* other; released handles stay dead; a branch keeps to one pool's pages.
PagesSound ==
    /\ Chain = {i \in Slots : Free(i)}
    /\ StaleHandlesDead
    /\ \A b \in DOMAIN branch : SamePool(branch[b].checkpoint, branch[b].tail)

=============================================================================
