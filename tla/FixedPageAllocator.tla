-------------------------- MODULE FixedPageAllocator --------------------------
(***************************************************************************)
(* The page allocator of fissionspec/ledger.py as pure operators on        *)
(*                                                                         *)
(*   [pool : the namespace of its handles,                                 *)
(*    gen  : the generation of every page (0 before its first lease),      *)
(*    live : leases, a function from the leased pages to [handle, owner],  *)
(*    free : the free list, a set: the heap always yields its minimum]     *)
(*                                                                         *)
(* A handle is the capability of one lease.  Owners are diagnostic.        *)
(*                                                                         *)
(* An operator named Wrong... is a plausible mistake in the operator that  *)
(* follows it, for the property named beside it to catch.                  *)
(***************************************************************************)
EXTENDS Integers, FiniteSets

CONSTANT PageCount

ASSUME PageCountAssumption == PageCount \in Nat \ {0}

Pages == 0 .. PageCount - 1

Handle(page, gen, pool) == [page |-> page, gen |-> gen, pool |-> pool]

NewAllocator(pool) ==
    [pool |-> pool, gen |-> [p \in Pages |-> 0],
     live |-> [p \in {} |-> 0], free |-> Pages]

-----------------------------------------------------------------------------
\* The i-th page that successive calls to allocate take.
NthFree(a, i) ==
    CHOOSE p \in a.free : Cardinality({q \in a.free : q < p}) = i - 1

\* A page is leased again under the generation it was released with
\* (CoordinatesNeverReused).
WrongNextGen(a, p) == IF a.gen[p] = 0 THEN 1 ELSE a.gen[p]

NextGen(a, p) == a.gen[p] + 1

\* The handles of the n leases that n successive calls to allocate return.
Leases(a, n) ==
    [i \in 1..n |-> Handle(NthFree(a, i), NextGen(a, NthFree(a, i)), a.pool)]

\* allocate, n times, for one owner; n is at most Cardinality(a.free).
Allocate(a, n, owner) ==
    LET taken == {NthFree(a, i) : i \in 1..n}
        gen   == [p \in Pages |-> IF p \in taken THEN NextGen(a, p) ELSE a.gen[p]]
    IN  [a EXCEPT
            !.gen  = gen,
            !.live = [p \in DOMAIN a.live \cup taken |->
                         IF p \in taken
                         THEN [handle |-> Handle(p, gen[p], a.pool), owner |-> owner]
                         ELSE a.live[p]],
            !.free = @ \ taken]

IsLive(a, h) == h.page \in DOMAIN a.live /\ a.live[h.page].handle = h

\* release, for every handle of a set of live handles: their leases end.
Release(a, handles) ==
    LET returned == {p \in DOMAIN a.live : a.live[p].handle \in handles}
    IN  [a EXCEPT
            !.live = [p \in DOMAIN a.live \ returned |-> a.live[p]],
            !.free = @ \cup returned]

\* reassign, for every handle of a set of live handles.
Reassign(a, handles, owner) ==
    LET moved == {h.page : h \in handles}
    IN  [a EXCEPT !.live = [p \in DOMAIN a.live |->
            IF p \in moved THEN [a.live[p] EXCEPT !.owner = owner] ELSE a.live[p]]]

\* The old namespace is kept (StaleHandlesInert).
WrongRebase(a, pool) == a

\* from_snapshot: the same leases, in a fresh namespace.
Rebase(a, pool) ==
    [a EXCEPT
        !.pool = pool,
        !.live = [p \in DOMAIN a.live |-> [a.live[p] EXCEPT !.handle.pool = pool]]]

LiveHandles(a) == {a.live[p].handle : p \in DOMAIN a.live}

-----------------------------------------------------------------------------
\* audit(): the pages are partitioned, and every lease is of the current
\* generation of its page and of this pool.
AllocatorAudit(a) ==
    /\ a.free \cap DOMAIN a.live = {}
    /\ a.free \cup DOMAIN a.live = Pages
    /\ \A p \in DOMAIN a.live : a.live[p].handle = Handle(p, a.gen[p], a.pool)

=============================================================================
