----------------------- MODULE SpeculativeLedger_proofs -----------------------
(***************************************************************************)
(* Lemmas about the operators of FixedPageAllocator and SpeculativeLedger, *)
(* which carry the proofs about LedgerClients and about Coordinator.       *)
(*                                                                         *)
(* What the ledger must keep is custody: who holds which pages.  Custody   *)
(* relates an allocator to a set of holdings <<owner, spans>>, so that     *)
(* each method is one step on both: pages are leased to a new holding,     *)
(* holdings are released, or a branch takes the place of the tail of a     *)
(* trunk.  The last part lifts this to ledgers, method by method, with the *)
(* alignment of spans and the consistency of epochs.                       *)
(***************************************************************************)
EXTENDS SpeculativeLedger, FiniteSetTheorems, SequenceTheorems, WellFoundedInduction, TLAPS

-----------------------------------------------------------------------------
(* Counting: the k-th element of a finite set of pages exists. *)

Below(S, m) == {q \in S : q < m}

\* A set of naturals that is not empty has a least element.
LEMMA LeastNatural ==
    ASSUME NEW T, T \subseteq Nat, T # {}
    PROVE  \E x \in T : \A y \in T : x <= y
  <1> DEFINE R == OpToRel(<, Nat)
  <1>1. IsWellFoundedOn(R, Nat)
    BY NatLessThanWellFounded
  <1>2. \A x, y \in Nat : <<y, x>> \in R <=> y < x
    BY DEF OpToRel
  <1> HIDE DEF R
  <1>3. PICK x \in T : \A y \in T : ~ (<<y, x>> \in R)
    BY <1>1, WFMin
  <1>4. ASSUME NEW y \in T
        PROVE  x <= y
    <2>1. x \in Nat /\ y \in Nat
      OBVIOUS
    <2>2. ~ (y < x)
      BY <1>2, <1>3, <2>1, Zenon
    <2> QED BY <2>1, <2>2
  <1> QED BY <1>4

LEMMA BelowFinite ==
    ASSUME NEW S, S \subseteq Pages, NEW m
    PROVE  IsFiniteSet(S) /\ IsFiniteSet(Below(S, m)) /\ Cardinality(Below(S, m)) \in Nat
  <1>1. IsFiniteSet(Pages)
    BY PageCountAssumption, FS_Interval DEF Pages
  <1>2. IsFiniteSet(S)
    BY <1>1, FS_Subset
  <1>3. Below(S, m) \in SUBSET S
    BY DEF Below
  <1>4. IsFiniteSet(Below(S, m))
    BY <1>2, <1>3, FS_Subset
  <1> QED BY <1>2, <1>4, FS_CardinalityType

LEMMA BelowNext ==
    ASSUME NEW S, S \subseteq Pages, NEW m \in Nat
    PROVE  Cardinality(Below(S, m + 1)) =
               IF m \in S THEN Cardinality(Below(S, m)) + 1 ELSE Cardinality(Below(S, m))
  <1>0. \A q \in S : q \in Int
    BY PageCountAssumption DEF Pages
  <1>1. IsFiniteSet(Below(S, m))
    BY BelowFinite
  <1>2. CASE m \in S
    <2>1. \A q \in S : q < m + 1 <=> q < m \/ q = m
      BY <1>0
    <2>2. ~ (m < m)
      OBVIOUS
    <2>3. Below(S, m + 1) = Below(S, m) \cup {m} /\ m \notin Below(S, m)
      BY <1>2, <2>1, <2>2, Zenon DEF Below
    <2> QED BY <1>1, <1>2, <2>3, FS_AddElement
  <1>3. CASE m \notin S
    <2>1. \A q \in S : q < m + 1 <=> q < m
      BY <1>0, <1>3
    <2>2. Below(S, m + 1) = Below(S, m)
      BY <2>1, Zenon DEF Below
    <2> QED BY <1>3, <2>2
  <1> QED BY <1>2, <1>3

\* With k elements to spare, some element has exactly k below it.
LEMMA KthExists ==
    ASSUME NEW S, S \subseteq Pages, NEW k \in Nat, k < Cardinality(S)
    PROVE  \E p \in S : Cardinality(Below(S, p)) = k
  <1> DEFINE Count(m) == Cardinality(Below(S, m))
             T == {m \in Nat : Count(m) > k}
  <1>1. Count(PageCount) = Cardinality(S)
    <2>1. \A q \in S : q < PageCount
      BY PageCountAssumption DEF Pages
    <2>2. Below(S, PageCount) = S
      BY <2>1, Zenon DEF Below
    <2> QED BY <2>2
  <1>2. PageCount \in T
    BY <1>1, PageCountAssumption
  <1>3. PICK m \in T : \A y \in T : m <= y
    <2>1. T \subseteq Nat /\ T # {}
      BY <1>2
    <2> HIDE DEF T
    <2> QED BY <2>1, LeastNatural
  <1>4. Count(0) = 0
    <2>1. \A q \in S : ~ (q < 0)
      BY PageCountAssumption DEF Pages
    <2>2. Below(S, 0) = {}
      BY <2>1, Zenon DEF Below
    <2> QED BY <2>2, FS_EmptySet
  <1>5. m # 0
    BY <1>3, <1>4
  <1>6. m - 1 \in Nat /\ (m - 1) + 1 = m
    BY <1>3, <1>5
  <1>7. ~(Count(m - 1) > k) /\ Count(m) > k
    BY <1>3, <1>6
  <1>8. Count(m - 1) \in Nat /\ Count(m) \in Nat
    BY BelowFinite
  <1>9. Count((m - 1) + 1) = IF m - 1 \in S THEN Count(m - 1) + 1 ELSE Count(m - 1)
    BY <1>6, BelowNext
  <1>10. Count(m) = IF m - 1 \in S THEN Count(m - 1) + 1 ELSE Count(m - 1)
    BY <1>6, <1>9
  <1>11. m - 1 \in S /\ Count(m - 1) = k
    <2> HIDE DEF Count, T
    <2> QED BY <1>7, <1>8, <1>10
  <1> QED BY <1>11

\* Successive allocations take free pages.
LEMMA NthFreeIsFree ==
    ASSUME NEW a, a.free \subseteq Pages, NEW i \in Nat, 1 <= i, i <= Cardinality(a.free)
    PROVE  NthFree(a, i) \in a.free
  <1>1. IsFiniteSet(a.free) /\ Cardinality(a.free) \in Nat
    BY BelowFinite, FS_CardinalityType
  <1>2. i - 1 \in Nat /\ i - 1 < Cardinality(a.free)
    BY <1>1
  <1>3. \E p \in a.free : Cardinality(Below(a.free, p)) = i - 1
    BY <1>2, KthExists
  <1> QED BY <1>3 DEF Below, NthFree

-----------------------------------------------------------------------------
(* The allocator: its leases are named by page, generation and namespace. *)

Sane(a) ==
    /\ a \in [pool : Nat, gen : [Pages -> Nat], live : {a.live}, free : SUBSET Pages]
    /\ DOMAIN a.live \subseteq Pages
    /\ \A p \in DOMAIN a.live :
          a.live[p] \in [handle : {Handle(p, a.gen[p], a.pool)}, owner : {a.live[p].owner}]

\* h was made, and does not name a live lease, now or later.
Past(a, h) ==
    /\ h \in [page : Pages, gen : Nat, pool : 0 .. a.pool]
    /\ h.pool = a.pool =>
          /\ h.gen <= a.gen[h.page]
          /\ h.page \in DOMAIN a.live => h.gen < a.gen[h.page]

\* b is a in the same namespace, and no handle comes back to life.
Follows(a, b) ==
    /\ Sane(b)
    /\ b.pool = a.pool
    /\ \A h : Past(a, h) => Past(b, h)
    /\ \A h \in LiveHandles(a) \ LiveHandles(b) : Past(b, h)

LEMMA PastIsDead ==
    ASSUME NEW a, Sane(a), NEW h, Past(a, h)
    PROVE  ~ IsLive(a, h)
  BY DEF Sane, Past, IsLive, Handle

LEMMA FollowsTransitive ==
    ASSUME NEW a, NEW b, NEW c, Follows(a, b), Follows(b, c)
    PROVE  Follows(a, c)
  BY DEF Follows

LEMMA AllocateFollows ==
    ASSUME NEW a, Sane(a), NEW n \in Nat, n <= Cardinality(a.free), NEW owner
    PROVE  Follows(a, Allocate(a, n, owner))
  <1> DEFINE taken == {NthFree(a, i) : i \in 1..n}
             gen == [p \in Pages |-> IF p \in taken THEN NextGen(a, p) ELSE a.gen[p]]
             live == [p \in DOMAIN a.live \cup taken |->
                         IF p \in taken
                         THEN [handle |-> Handle(p, gen[p], a.pool), owner |-> owner]
                         ELSE a.live[p]]
             b == Allocate(a, n, owner)
  <1>1. taken \subseteq a.free /\ taken \subseteq Pages
    <2>1. a.free \subseteq Pages
      BY DEF Sane
    <2>2. IsFiniteSet(a.free) /\ Cardinality(a.free) \in Nat
      BY <2>1, BelowFinite, FS_CardinalityType
    <2>3. \A i \in 1..n : NthFree(a, i) \in a.free
      BY <2>1, <2>2, NthFreeIsFree
    <2> QED BY <2>1, <2>3
  <1>2. /\ b.pool = a.pool /\ b.gen = gen /\ b.live = live /\ b.free = a.free \ taken
        /\ b \in [pool : {a.pool}, gen : {gen}, live : {live}, free : {a.free \ taken}]
    BY DEF Allocate, Sane
  <1> HIDE DEF taken, b
  <1>3. gen \in [Pages -> Nat] /\ \A p \in Pages : a.gen[p] \in Nat /\ a.gen[p] <= gen[p]
                                       /\ (p \in taken => a.gen[p] < gen[p])
    BY DEF NextGen, Sane
  <1>4. \A p \in Pages \ taken : gen[p] = a.gen[p]
    OBVIOUS
  <1>5. DOMAIN live = DOMAIN a.live \cup taken
    OBVIOUS
  <1>6. \A p \in taken : live[p] = [handle |-> Handle(p, gen[p], a.pool), owner |-> owner]
    OBVIOUS
  <1>7. \A p \in DOMAIN a.live \ taken : live[p] = a.live[p]
    OBVIOUS
  <1> HIDE DEF gen, live
  <1>8. Sane(b)
    BY <1>1, <1>2, <1>3, <1>4, <1>5, <1>6, <1>7 DEF Sane
  <1>9. ASSUME NEW h, Past(a, h)
        PROVE  Past(b, h)
    BY <1>1, <1>2, <1>3, <1>4, <1>5, <1>9 DEF Past
  <1>10. ASSUME NEW h \in LiveHandles(a) \ LiveHandles(b)
         PROVE  Past(b, h)
    <2>1. PICK p \in DOMAIN a.live : h = a.live[p].handle
      BY DEF LiveHandles
    <2>2. h = Handle(p, a.gen[p], a.pool) /\ p \in Pages /\ a.pool \in Nat
      BY <2>1 DEF Sane
    <2>3. p \in taken
      BY <1>2, <1>5, <1>7, <2>1 DEF LiveHandles
    <2> QED BY <1>2, <1>3, <2>2, <2>3 DEF Past, Handle
  <1> QED BY <1>2, <1>8, <1>9, <1>10 DEF Follows, b

LEMMA ReleaseFollows ==
    ASSUME NEW a, Sane(a), NEW handles
    PROVE  Follows(a, Release(a, handles))
  <1> DEFINE returned == {p \in DOMAIN a.live : a.live[p].handle \in handles}
             live == [p \in DOMAIN a.live \ returned |-> a.live[p]]
             b == Release(a, handles)
  <1>1. returned \subseteq DOMAIN a.live /\ DOMAIN a.live \subseteq Pages
    BY DEF Sane
  <1>2. /\ b.pool = a.pool /\ b.gen = a.gen /\ b.live = live /\ b.free = a.free \cup returned
        /\ b \in [pool : {a.pool}, gen : {a.gen}, live : {live}, free : {a.free \cup returned}]
    BY DEF Release, Sane
  <1>3. DOMAIN live = DOMAIN a.live \ returned /\ \A p \in DOMAIN live : live[p] = a.live[p]
    OBVIOUS
  <1> HIDE DEF returned, live, b
  <1>4. Sane(b)
    BY <1>1, <1>2, <1>3 DEF Sane
  <1>5. ASSUME NEW h, Past(a, h)
        PROVE  Past(b, h)
    BY <1>2, <1>3, <1>5 DEF Past
  <1>6. ASSUME NEW h \in LiveHandles(a) \ LiveHandles(b)
        PROVE  Past(b, h)
    <2>1. PICK p \in DOMAIN a.live : h = a.live[p].handle
      BY DEF LiveHandles
    <2>2. h = Handle(p, a.gen[p], a.pool) /\ p \in Pages /\ a.pool \in Nat /\ a.gen[p] \in Nat
      BY <2>1 DEF Sane
    <2>3. p \notin DOMAIN live
      BY <1>2, <1>3, <2>1 DEF LiveHandles
    <2> QED BY <1>2, <2>2, <2>3 DEF Past, Handle
  <1> QED BY <1>2, <1>4, <1>5, <1>6 DEF Follows, b

LEMMA ReassignFollows ==
    ASSUME NEW a, Sane(a), NEW handles, NEW owner
    PROVE  Follows(a, Reassign(a, handles, owner))
  <1> DEFINE moved == {h.page : h \in handles}
             live == [p \in DOMAIN a.live |->
                         IF p \in moved THEN [a.live[p] EXCEPT !.owner = owner] ELSE a.live[p]]
             b == Reassign(a, handles, owner)
  <1>1. /\ b.pool = a.pool /\ b.gen = a.gen /\ b.live = live /\ b.free = a.free
        /\ b \in [pool : {a.pool}, gen : {a.gen}, live : {live}, free : {a.free}]
    BY DEF Reassign, Sane
  <1>2. /\ DOMAIN live = DOMAIN a.live
        /\ \A p \in DOMAIN a.live :
              live[p] \in [handle : {a.live[p].handle}, owner : {live[p].owner}]
    BY DEF Sane
  <1> HIDE DEF live, b
  <1>3. Sane(b)
    BY <1>1, <1>2 DEF Sane
  <1>4. \A h : Past(a, h) => Past(b, h)
    BY <1>1, <1>2 DEF Past
  <1>5. LiveHandles(a) = LiveHandles(b)
    BY <1>1, <1>2 DEF LiveHandles
  <1> QED BY <1>1, <1>3, <1>4, <1>5 DEF Follows, b

\* A restored allocator: every handle ever made is of an older namespace.
LEMMA RebaseOutlives ==
    ASSUME NEW a, Sane(a), NEW old, Sane(old)
    PROVE  /\ Sane(Rebase(a, old.pool + 1))
           /\ \A h : Past(old, h) => Past(Rebase(a, old.pool + 1), h)
           /\ \A h \in LiveHandles(old) : Past(Rebase(a, old.pool + 1), h)
  <1> DEFINE pool == old.pool + 1
             live == [p \in DOMAIN a.live |-> [a.live[p] EXCEPT !.handle.pool = pool]]
             b == Rebase(a, pool)
  <1>1. old.pool \in Nat /\ pool \in Nat
    BY DEF Sane
  <1>2. /\ b.pool = pool
        /\ b \in [pool : {pool}, gen : {a.gen}, live : {live}, free : {a.free}]
    BY DEF Rebase, Sane
  <1>3. /\ DOMAIN live = DOMAIN a.live
        /\ \A p \in DOMAIN a.live :
              live[p] \in [handle : {Handle(p, a.gen[p], pool)}, owner : {live[p].owner}]
    BY DEF Sane, Handle
  <1> HIDE DEF live, b
  <1>4. Sane(b)
    BY <1>1, <1>2, <1>3 DEF Sane
  <1>5. \A h : Past(old, h) => Past(b, h)
    BY <1>1, <1>2 DEF Past
  <1>6. ASSUME NEW h \in LiveHandles(old)
        PROVE  Past(b, h)
    <2>1. PICK p \in DOMAIN old.live : h = old.live[p].handle
      BY DEF LiveHandles
    <2>2. h = Handle(p, old.gen[p], old.pool) /\ p \in Pages /\ old.gen[p] \in Nat
      BY <2>1 DEF Sane
    <2> QED BY <1>1, <1>2, <2>2 DEF Past, Handle
  <1> QED BY <1>4, <1>5, <1>6 DEF b

-----------------------------------------------------------------------------
(* Custody: every lease belongs to one place of one holding.               *)

\* h = <<owner, spans>>: the spans are distinct leases of that owner.
Holds(a, h) ==
    /\ \A x \in SpanHandles(h[2]) :
          /\ x.page \in DOMAIN a.live
          /\ a.live[x.page].handle = x
          /\ a.live[x.page].owner = h[1]
    /\ \A i, j \in 1 .. Len(h[2]) : h[2][i].handle = h[2][j].handle => i = j

Custody(a, H) ==
    /\ Sane(a)
    /\ a.free \cap DOMAIN a.live = {}
    /\ a.free \cup DOMAIN a.live = Pages
    /\ \A h \in H : h = <<h[1], h[2]>> /\ Holds(a, h)
    /\ \A g, h \in H : g[1] = h[1] => g = h
    /\ \A p \in DOMAIN a.live : \E h \in H : a.live[p].handle \in SpanHandles(h[2])

HandlesOf(H) == UNION {SpanHandles(h[2]) : h \in H}

LEMMA HandleFields ==
    ASSUME NEW p, NEW g, NEW k
    PROVE  Handle(p, g, k).page = p /\ Handle(p, g, k).gen = g /\ Handle(p, g, k).pool = k
  BY DEF Handle

LEMMA Held ==
    ASSUME NEW a, NEW H, Custody(a, H), NEW h \in H, NEW x \in SpanHandles(h[2])
    PROVE  /\ x.page \in DOMAIN a.live
           /\ a.live[x.page].handle = x
           /\ a.live[x.page].owner = h[1]
  BY DEF Custody, Holds

\* A lease is held in one holding.
LEMMA HeldOnce ==
    ASSUME NEW a, NEW H, Custody(a, H), NEW g \in H, NEW h \in H,
           NEW x \in SpanHandles(g[2]), NEW y \in SpanHandles(h[2]), x.page = y.page
    PROVE  g = h /\ x = y
  <1>1. a.live[x.page].handle = x /\ a.live[x.page].owner = g[1]
    BY Held
  <1>2. a.live[y.page].handle = y /\ a.live[y.page].owner = h[1]
    BY Held
  <1>3. x = y /\ g[1] = h[1]
    BY <1>1, <1>2
  <1> QED BY <1>3 DEF Custody

\* What n allocations for one owner do.
Taken(a, n) == {NthFree(a, i) : i \in 1 .. n}

LEMMA AllocateParts ==
    ASSUME NEW a, Sane(a), NEW n \in Nat, n <= Cardinality(a.free), NEW owner
    PROVE  LET b == Allocate(a, n, owner)
           IN  /\ Taken(a, n) \subseteq a.free
               /\ \A i, j \in 1 .. n : NthFree(a, i) = NthFree(a, j) => i = j
               /\ b.pool = a.pool
               /\ b.gen = [p \in Pages |-> IF p \in Taken(a, n) THEN a.gen[p] + 1 ELSE a.gen[p]]
               /\ b.free = a.free \ Taken(a, n)
               /\ DOMAIN b.live = DOMAIN a.live \cup Taken(a, n)
               /\ \A p \in Taken(a, n) :
                     /\ b.live[p].handle = Handle(p, a.gen[p] + 1, a.pool)
                     /\ b.live[p].owner = owner
               /\ \A p \in DOMAIN a.live \ Taken(a, n) : b.live[p] = a.live[p]
  <1>1. a.free \subseteq Pages
    BY DEF Sane
  <1>2. IsFiniteSet(a.free) /\ Cardinality(a.free) \in Nat
    BY <1>1, BelowFinite, FS_CardinalityType
  <1>3. \A i \in 1 .. n : NthFree(a, i) \in a.free
    BY <1>1, <1>2, NthFreeIsFree
  <1>4. \A i \in 1 .. n : Cardinality({q \in a.free : q < NthFree(a, i)}) = i - 1
    <2> SUFFICES ASSUME NEW i \in 1 .. n
                 PROVE  Cardinality({q \in a.free : q < NthFree(a, i)}) = i - 1
      OBVIOUS
    <2>1. i - 1 \in Nat /\ i - 1 < Cardinality(a.free)
      BY <1>2
    <2>2. \E p \in a.free : Cardinality(Below(a.free, p)) = i - 1
      BY <1>1, <2>1, KthExists
    <2> QED BY <2>2 DEF Below, NthFree
  <1>5. \A i, j \in 1 .. n : NthFree(a, i) = NthFree(a, j) => i = j
    <2> SUFFICES ASSUME NEW i \in 1 .. n, NEW j \in 1 .. n, NthFree(a, i) = NthFree(a, j)
                 PROVE  i = j
      OBVIOUS
    <2>1. i - 1 = j - 1
      BY <1>4
    <2> QED BY <2>1
  <1>6. Taken(a, n) \subseteq a.free
    BY <1>3 DEF Taken
  <1>7. \A p \in Taken(a, n) : p \in Pages
    BY <1>1, <1>6
  <1> QED BY <1>5, <1>6, <1>7 DEF Allocate, Taken, NextGen, Sane

LEMMA CustodyAllocate ==
    ASSUME NEW a, NEW H, Custody(a, H),
           NEW n \in Nat, n <= Cardinality(a.free),
           NEW owner, \A h \in H : h[1] # owner,
           NEW pages, Len(pages) = n,
           \A i \in 1 .. n : pages[i].handle = Leases(a, n)[i]
    PROVE  Custody(Allocate(a, n, owner), H \cup {<<owner, pages>>})
  <1> DEFINE b == Allocate(a, n, owner)
             taken == Taken(a, n)
             new == <<owner, pages>>
  <1>0. Sane(a)
    BY DEF Custody
  <1>1. /\ taken \subseteq a.free
        /\ \A i, j \in 1 .. n : NthFree(a, i) = NthFree(a, j) => i = j
        /\ b.gen = [p \in Pages |-> IF p \in taken THEN a.gen[p] + 1 ELSE a.gen[p]]
        /\ b.free = a.free \ taken
        /\ DOMAIN b.live = DOMAIN a.live \cup taken
        /\ \A p \in taken : /\ b.live[p].handle = Handle(p, a.gen[p] + 1, a.pool)
                            /\ b.live[p].owner = owner
        /\ \A p \in DOMAIN a.live \ taken : b.live[p] = a.live[p]
    BY <1>0, AllocateParts
  <1>2. Sane(b)
    BY <1>0, AllocateFollows DEF Follows
  <1>3. \A i \in 1 .. n :
            pages[i].handle = Handle(NthFree(a, i), a.gen[NthFree(a, i)] + 1, a.pool)
    BY DEF Leases, NextGen
  <1>4. SpanHandles(pages) = {Handle(p, a.gen[p] + 1, a.pool) : p \in taken}
    BY <1>3 DEF SpanHandles, Taken
  <1>5. a.free \cap DOMAIN a.live = {} /\ a.free \cup DOMAIN a.live = Pages
    BY DEF Custody
  <1> HIDE DEF b, taken
  <1>6. b.free \cap DOMAIN b.live = {} /\ b.free \cup DOMAIN b.live = Pages
    BY <1>1, <1>5
  <1>7. Holds(b, new)
    <2>2. ASSUME NEW x \in SpanHandles(pages)
          PROVE  /\ x.page \in DOMAIN b.live
                 /\ b.live[x.page].handle = x
                 /\ b.live[x.page].owner = owner
      <3>1. PICK p \in taken : x = Handle(p, a.gen[p] + 1, a.pool)
        BY <1>4
      <3>2. x.page = p
        BY <3>1 DEF Handle
      <3> QED BY <1>1, <3>1, <3>2
    <2>3. ASSUME NEW i \in 1 .. n, NEW j \in 1 .. n, pages[i].handle = pages[j].handle
          PROVE  i = j
      <3>1. Handle(NthFree(a, i), a.gen[NthFree(a, i)] + 1, a.pool)
                = Handle(NthFree(a, j), a.gen[NthFree(a, j)] + 1, a.pool)
        BY <1>3, <2>3
      <3>2. \A x, g : Handle(x, g, a.pool).page = x
        BY DEF Handle
      <3>3. NthFree(a, i) = NthFree(a, j)
        <4> HIDE DEF Handle
        <4> QED BY <3>1, <3>2
      <3> QED BY <1>1, <3>3
    <2> QED BY <2>2, <2>3 DEF Holds
  <1>8. ASSUME NEW h \in H
        PROVE  h = <<h[1], h[2]>> /\ Holds(b, h)
    <2>1. h = <<h[1], h[2]>> /\ Holds(a, h)
      BY DEF Custody
    <2>2. \A p \in DOMAIN a.live : p \in DOMAIN b.live /\ b.live[p] = a.live[p]
      BY <1>1, <1>5
    <2> QED BY <2>1, <2>2 DEF Holds
  <1>9. \A g, h \in H \cup {new} : g[1] = h[1] => g = h
    BY DEF Custody
  <1>10. ASSUME NEW p \in DOMAIN b.live
         PROVE  \E h \in H \cup {new} : b.live[p].handle \in SpanHandles(h[2])
    <2>1. CASE p \in taken
      <3> DEFINE x == Handle(p, a.gen[p] + 1, a.pool)
      <3>1. b.live[p].handle = x
        BY <1>1, <2>1
      <3>2. x \in SpanHandles(pages)
        BY <1>4, <2>1
      <3>3. new \in H \cup {new} /\ new[2] = pages
        OBVIOUS
      <3> HIDE DEF x, new
      <3> QED BY <3>1, <3>2, <3>3
    <2>2. CASE p \notin taken
      <3>1. p \in DOMAIN a.live /\ b.live[p] = a.live[p]
        BY <1>1, <2>2
      <3> QED BY <3>1 DEF Custody
    <2> QED BY <2>1, <2>2
  <1> QED BY <1>2, <1>6, <1>7, <1>8, <1>9, <1>10 DEF Custody, b

LEMMA ReleaseParts ==
    ASSUME NEW a, Sane(a), NEW handles
    PROVE  LET b == Release(a, handles)
               returned == {p \in DOMAIN a.live : a.live[p].handle \in handles}
           IN  /\ b.pool = a.pool /\ b.gen = a.gen
               /\ b.free = a.free \cup returned
               /\ DOMAIN b.live = DOMAIN a.live \ returned
               /\ \A p \in DOMAIN b.live : b.live[p] = a.live[p]
  BY DEF Release, Sane

LEMMA CustodyRelease ==
    ASSUME NEW a, NEW H, Custody(a, H), NEW G \in SUBSET H
    PROVE  Custody(Release(a, HandlesOf(G)), H \ G)
  <1> DEFINE b == Release(a, HandlesOf(G))
             returned == {p \in DOMAIN a.live : a.live[p].handle \in HandlesOf(G)}
  <1>0. Sane(a)
    BY DEF Custody
  <1>1. /\ b.free = a.free \cup returned
        /\ DOMAIN b.live = DOMAIN a.live \ returned
        /\ \A p \in DOMAIN b.live : b.live[p] = a.live[p]
    BY <1>0, ReleaseParts
  <1>2. Sane(b)
    BY <1>0, ReleaseFollows DEF Follows
  <1> HIDE DEF b
  <1>3. b.free \cap DOMAIN b.live = {} /\ b.free \cup DOMAIN b.live = Pages
    BY <1>1 DEF Custody
  <1>4. ASSUME NEW h \in H \ G, NEW x \in SpanHandles(h[2])
        PROVE  x.page \in DOMAIN b.live
    <2>0. h \in H
      OBVIOUS
    <2>1. x.page \in DOMAIN a.live /\ a.live[x.page].handle = x
      BY <2>0, Held
    <2>2. ASSUME x \in HandlesOf(G) PROVE FALSE
      <3>1. PICK g \in G : x \in SpanHandles(g[2])
        BY <2>2 DEF HandlesOf
      <3> QED BY <3>1, HeldOnce
    <2> QED BY <1>1, <2>1, <2>2
  <1>5. \A h \in H \ G : h = <<h[1], h[2]>> /\ Holds(b, h)
    BY <1>1, <1>4 DEF Custody, Holds
  <1>6. \A g, h \in H \ G : g[1] = h[1] => g = h
    BY DEF Custody
  <1>7. ASSUME NEW p \in DOMAIN b.live
        PROVE  \E h \in H \ G : b.live[p].handle \in SpanHandles(h[2])
    <2>1. p \in DOMAIN a.live /\ b.live[p] = a.live[p] /\ a.live[p].handle \notin HandlesOf(G)
      BY <1>1
    <2>2. PICK h \in H : a.live[p].handle \in SpanHandles(h[2])
      BY <2>1 DEF Custody
    <2> QED BY <2>1, <2>2 DEF HandlesOf
  <1> QED BY <1>2, <1>3, <1>5, <1>6, <1>7 DEF Custody, b

\* A branch takes the place of the tail of a trunk: of the leases of the trunk
\* t and of the holdings G, those of spans stay and the rest is released.
LEMMA CustodySettle ==
    ASSUME NEW a, NEW H, Custody(a, H), NEW G \in SUBSET H, NEW t \in H \ G,
           NEW spans, NEW released, NEW moved,
           \A i, j \in 1 .. Len(spans) : spans[i].handle = spans[j].handle => i = j,
           SpanHandles(spans) \cap released = {},
           SpanHandles(spans) \cup released = SpanHandles(t[2]) \cup HandlesOf(G),
           moved \subseteq SpanHandles(spans),
           SpanHandles(spans) \ moved \subseteq SpanHandles(t[2])
    PROVE  Custody(Reassign(Release(a, released), moved, t[1]),
                   (H \ (G \cup {t})) \cup {<<t[1], spans>>})
  <1> DEFINE b == Release(a, released)
             c == Reassign(b, moved, t[1])
             returned == {p \in DOMAIN a.live : a.live[p].handle \in released}
             new == <<t[1], spans>>
             places == {h.page : h \in moved}
  <1>0. Sane(a)
    BY DEF Custody
  <1>1. /\ b.free = a.free \cup returned
        /\ DOMAIN b.live = DOMAIN a.live \ returned
        /\ \A p \in DOMAIN b.live : b.live[p] = a.live[p]
    BY <1>0, ReleaseParts
  <1>2. Sane(b)
    BY <1>0, ReleaseFollows DEF Follows
  <1>3. Sane(c)
    BY <1>2, ReassignFollows DEF Follows
  <1> HIDE DEF b
  <1>4. /\ c.free = b.free
        /\ DOMAIN c.live = DOMAIN b.live
        /\ \A p \in DOMAIN b.live : c.live[p].handle = b.live[p].handle
        /\ \A p \in DOMAIN b.live : p \in places => c.live[p].owner = t[1]
        /\ \A p \in DOMAIN b.live : p \notin places => c.live[p] = b.live[p]
    <2>1. /\ c.free = b.free
          /\ c.live = [p \in DOMAIN b.live |->
                 IF p \in places THEN [b.live[p] EXCEPT !.owner = t[1]] ELSE b.live[p]]
      BY <1>2 DEF Reassign, Sane
    <2>2. \A p \in DOMAIN b.live :
            b.live[p] \in [handle : {b.live[p].handle}, owner : {b.live[p].owner}]
      BY <1>2 DEF Sane
    <2> HIDE DEF c, places
    <2> QED BY <2>1, <2>2
  <1> HIDE DEF c
  <1>5. c.free \cap DOMAIN c.live = {} /\ c.free \cup DOMAIN c.live = Pages
    BY <1>1, <1>4 DEF Custody
  <1>6. ASSUME NEW x \in SpanHandles(spans)
        PROVE  /\ x.page \in DOMAIN a.live
               /\ a.live[x.page].handle = x
               /\ x \notin moved => a.live[x.page].owner = t[1]
    <2>1. PICK g \in G \cup {t} : x \in SpanHandles(g[2])
      BY DEF HandlesOf
    <2>2. g \in H /\ t \in H
      OBVIOUS
    <2> QED BY <2>1, <2>2, Held
  <1>7. Holds(c, new)
    <2>1. ASSUME NEW x \in SpanHandles(spans)
          PROVE  /\ x.page \in DOMAIN c.live
                 /\ c.live[x.page].handle = x
                 /\ c.live[x.page].owner = t[1]
      <3>1. x.page \in DOMAIN b.live /\ b.live[x.page] = a.live[x.page]
        <4>1. x.page \in DOMAIN a.live /\ a.live[x.page].handle = x
          BY <1>6
        <4>2. x \notin released
          OBVIOUS
        <4> QED BY <1>1, <4>1, <4>2
      <3>2. CASE x \in moved
        <4>1. x.page \in places
          BY <3>2
        <4>2. c.live[x.page].handle = b.live[x.page].handle /\ c.live[x.page].owner = t[1]
          BY <1>4, <3>1, <4>1
        <4> HIDE DEF places
        <4> QED BY <1>4, <1>6, <3>1, <4>2
      <3>3. CASE x \notin moved
        <4>1. x.page \notin places
          <5>1. ASSUME NEW y \in moved, y.page = x.page PROVE FALSE
            <6>1. a.live[y.page].handle = y /\ a.live[x.page].handle = x
              BY <1>6
            <6> QED BY <3>3, <5>1, <6>1
          <5> QED BY <5>1
        <4> QED BY <1>4, <1>6, <3>1, <3>3, <4>1
      <3> QED BY <3>2, <3>3
    <2> QED BY <2>1 DEF Holds
  <1>8. ASSUME NEW h \in H \ (G \cup {t})
        PROVE  h = <<h[1], h[2]>> /\ Holds(c, h)
    <2>1. h = <<h[1], h[2]>> /\ Holds(a, h)
      BY DEF Custody
    <2>2. ASSUME NEW x \in SpanHandles(h[2])
          PROVE  x.page \in DOMAIN c.live /\ c.live[x.page] = a.live[x.page]
      <3>0. h \in H
        OBVIOUS
      <3>1. x.page \in DOMAIN a.live /\ a.live[x.page].handle = x
        BY <3>0, Held
      <3>2. ASSUME NEW y \in SpanHandles(spans) \cup released, y.page = x.page PROVE FALSE
        <4>1. PICK g \in G \cup {t} : y \in SpanHandles(g[2])
          BY DEF HandlesOf
        <4>2. g = h
          BY <3>2, <4>1, HeldOnce
        <4> QED BY <4>2
      <3>3. x.page \notin returned /\ x.page \notin places
        BY <3>1, <3>2
      <3> QED BY <1>1, <1>4, <3>1, <3>3
    <2> QED BY <2>1, <2>2 DEF Holds
  <1>9. \A g, h \in (H \ (G \cup {t})) \cup {new} : g[1] = h[1] => g = h
    BY DEF Custody
  <1>10. ASSUME NEW p \in DOMAIN c.live
         PROVE  \E h \in (H \ (G \cup {t})) \cup {new} : c.live[p].handle \in SpanHandles(h[2])
    <2>1. p \in DOMAIN a.live /\ a.live[p].handle \notin released
      BY <1>1, <1>4
    <2>2. c.live[p].handle = a.live[p].handle
      BY <1>1, <1>4
    <2>3. PICK h \in H : a.live[p].handle \in SpanHandles(h[2])
      BY <2>1 DEF Custody
    <2>4. CASE h \in G \cup {t}
      <3>1. a.live[p].handle \in SpanHandles(spans)
        BY <2>1, <2>3, <2>4 DEF HandlesOf
      <3>2. new \in (H \ (G \cup {t})) \cup {new} /\ new[2] = spans
        OBVIOUS
      <3> HIDE DEF new
      <3> QED BY <2>2, <3>1, <3>2
    <2>5. CASE h \notin G \cup {t}
      BY <2>2, <2>3, <2>5
    <2> QED BY <2>4, <2>5
  <1> QED BY <1>3, <1>5, <1>7, <1>8, <1>9, <1>10 DEF Custody, c, b

\* Every span moves to the new namespace with its lease.
LEMMA RebasedSpans ==
    ASSUME NEW pages \in Seq(Span), NEW pool \in Nat
    PROVE  LET moved == RebaseSpans(pages, pool)
           IN  /\ moved \in Seq(Span)
               /\ Len(moved) = Len(pages)
               /\ \A i \in 1 .. Len(pages) :
                     /\ moved[i].handle = Handle(pages[i].handle.page, pages[i].handle.gen, pool)
                     /\ moved[i].start = pages[i].start
                     /\ moved[i].used = pages[i].used
  <1> DEFINE n == Len(pages)
             moved == [i \in 1 .. n |-> [pages[i] EXCEPT !.handle.pool = pool]]
  <1>1. n \in Nat /\ \A i \in 1 .. n : pages[i] \in Span
    OBVIOUS
  <1>2. \A x \in Span : [x EXCEPT !.handle.pool = pool] \in Span
    BY DEF Span
  <1>3. \A x \in Span :
            /\ [x EXCEPT !.handle.pool = pool].handle = Handle(x.handle.page, x.handle.gen, pool)
            /\ [x EXCEPT !.handle.pool = pool].start = x.start
            /\ [x EXCEPT !.handle.pool = pool].used = x.used
    BY DEF Span, Handle
  <1>4. moved \in Seq(Span) /\ Len(moved) = n
    BY <1>1, <1>2
  <1>5. \A i \in 1 .. n :
           /\ moved[i].handle = Handle(pages[i].handle.page, pages[i].handle.gen, pool)
           /\ moved[i].start = pages[i].start
           /\ moved[i].used = pages[i].used
    BY <1>1, <1>3
  <1> QED BY <1>4, <1>5 DEF RebaseSpans

RebasedHolding(h, pool) == <<h[1], RebaseSpans(h[2], pool)>>

LEMMA CustodyRebase ==
    ASSUME NEW a, NEW H, Custody(a, H), \A h \in H : h[2] \in Seq(Span), NEW pool \in Nat
    PROVE  Custody(Rebase(a, pool), {RebasedHolding(h, pool) : h \in H})
  <1> DEFINE b == Rebase(a, pool)
             K == {RebasedHolding(h, pool) : h \in H}
             Moved(x) == Handle(x.page, x.gen, pool)
  <1>1. /\ b.free = a.free /\ b.gen = a.gen /\ b.pool = pool
        /\ DOMAIN b.live = DOMAIN a.live
        /\ \A p \in DOMAIN a.live : b.live[p].handle = Handle(p, a.gen[p], pool)
        /\ \A p \in DOMAIN a.live : b.live[p].owner = a.live[p].owner
    <2>1. a \in [pool : Nat, gen : [Pages -> Nat], live : {a.live}, free : SUBSET Pages]
      BY DEF Custody, Sane
    <2>2. /\ b.free = a.free /\ b.gen = a.gen /\ b.pool = pool
          /\ b.live = [p \in DOMAIN a.live |-> [a.live[p] EXCEPT !.handle.pool = pool]]
      BY <2>1 DEF Rebase
    <2> HIDE DEF b
    <2>3. ASSUME NEW p \in DOMAIN a.live
          PROVE  /\ a.live[p] \in [handle : {a.live[p].handle}, owner : {a.live[p].owner}]
                 /\ a.live[p].handle = Handle(p, a.gen[p], a.pool)
      BY DEF Custody, Sane
    <2>4. ASSUME NEW p \in DOMAIN a.live
          PROVE  b.live[p].handle = Handle(p, a.gen[p], pool) /\ b.live[p].owner = a.live[p].owner
      <3>1. PICK x : x = a.live[p]
        OBVIOUS
      <3>2. \A g, o :
               LET y == [handle |-> Handle(p, g, a.pool), owner |-> o]
               IN  /\ [y EXCEPT !.handle.pool = pool].handle = Handle(p, g, pool)
                   /\ [y EXCEPT !.handle.pool = pool].owner = o
        BY DEF Handle
      <3>3. x = [handle |-> Handle(p, a.gen[p], a.pool), owner |-> x.owner]
        BY <2>3, <3>1
      <3>4. b.live[p] = [x EXCEPT !.handle.pool = pool]
        BY <2>2, <3>1
      <3> QED BY <3>1, <3>2, <3>3, <3>4
    <2> QED BY <2>2, <2>4
  <1>2. Sane(b)
    <2>1. a \in [pool : Nat, gen : [Pages -> Nat], live : {a.live}, free : SUBSET Pages]
      BY DEF Custody, Sane
    <2>2. b \in [pool : Nat, gen : [Pages -> Nat], live : {b.live}, free : SUBSET Pages]
      BY <2>1 DEF Rebase
    <2>3. \A p \in DOMAIN a.live :
            b.live[p] \in [handle : {b.live[p].handle}, owner : {b.live[p].owner}]
      BY DEF Rebase, Custody, Sane
    <2> HIDE DEF b
    <2> QED BY <1>1, <2>2, <2>3 DEF Custody, Sane
  <1> HIDE DEF b
  <1>3. \A p \in DOMAIN a.live : a.live[p].handle = Handle(p, a.gen[p], a.pool)
    BY DEF Custody, Sane
  <1>4. ASSUME NEW h \in H
        PROVE  /\ Len(RebaseSpans(h[2], pool)) = Len(h[2])
               /\ \A i \in 1 .. Len(h[2]) :
                     RebaseSpans(h[2], pool)[i].handle = Moved(h[2][i].handle)
    BY RebasedSpans
  <1>5. ASSUME NEW h \in H
        PROVE  SpanHandles(RebaseSpans(h[2], pool)) = {Moved(x) : x \in SpanHandles(h[2])}
    <2> DEFINE s == h[2]
               u == RebaseSpans(h[2], pool)
    <2>1. Len(u) = Len(s) /\ \A i \in 1 .. Len(s) : u[i].handle = Moved(s[i].handle)
      BY <1>4
    <2> HIDE DEF s, u, Moved
    <2>2. SpanHandles(u) = {Moved(s[i].handle) : i \in 1 .. Len(s)}
      BY <2>1 DEF SpanHandles
    <2>3. {Moved(x) : x \in SpanHandles(s)} = {Moved(s[i].handle) : i \in 1 .. Len(s)}
      BY Zenon DEF SpanHandles
    <2> QED BY <2>2, <2>3 DEF s, u
  <1>6. ASSUME NEW h \in H, NEW x \in SpanHandles(h[2])
        PROVE  /\ x.page \in DOMAIN a.live
               /\ x = Handle(x.page, a.gen[x.page], a.pool)
               /\ a.live[x.page].owner = h[1]
               /\ Moved(x) = Handle(x.page, a.gen[x.page], pool)
               /\ Moved(x).page = x.page
    <2>1. x.page \in DOMAIN a.live /\ a.live[x.page].handle = x /\ a.live[x.page].owner = h[1]
      BY Held
    <2>2. x = Handle(x.page, a.gen[x.page], a.pool)
      BY <1>3, <2>1
    <2>3. x.gen = a.gen[x.page]
      BY <2>2, HandleFields
    <2> QED BY <2>1, <2>2, <2>3, HandleFields
  <1>7. ASSUME NEW h \in H
        PROVE  Holds(b, RebasedHolding(h, pool))
    <2> DEFINE k == RebasedHolding(h, pool)
    <2>1. k[1] = h[1] /\ k[2] = RebaseSpans(h[2], pool)
      BY DEF RebasedHolding
    <2> HIDE DEF k
    <2>2. ASSUME NEW y \in SpanHandles(k[2])
          PROVE  /\ y.page \in DOMAIN b.live
                 /\ b.live[y.page].handle = y
                 /\ b.live[y.page].owner = k[1]
      <3>1. PICK x \in SpanHandles(h[2]) : y = Moved(x)
        BY <1>5, <2>1
      <3> QED BY <1>1, <1>6, <2>1, <3>1
    <2>3. ASSUME NEW i \in 1 .. Len(k[2]), NEW j \in 1 .. Len(k[2]),
                 k[2][i].handle = k[2][j].handle
          PROVE  i = j
      <3>1. i \in 1 .. Len(h[2]) /\ j \in 1 .. Len(h[2])
        BY <1>4, <2>1
      <3>2. Moved(h[2][i].handle) = Moved(h[2][j].handle)
        BY <1>4, <2>1, <2>3, <3>1
      <3>3. h[2][i].handle \in SpanHandles(h[2]) /\ h[2][j].handle \in SpanHandles(h[2])
        BY <3>1 DEF SpanHandles
      <3>4. h[2][i].handle.page = h[2][j].handle.page
        BY <1>6, <3>2, <3>3
      <3>5. h[2][i].handle = h[2][j].handle
        BY <3>3, <3>4, HeldOnce
      <3> QED BY <3>1, <3>5 DEF Custody, Holds
    <2> QED BY <2>2, <2>3 DEF Holds, k
  <1>8. \A k \in K : k = <<k[1], k[2]>> /\ Holds(b, k)
    BY <1>7 DEF RebasedHolding
  <1>9. \A g, h \in K : g[1] = h[1] => g = h
    <2> SUFFICES ASSUME NEW g \in H, NEW h \in H,
                        RebasedHolding(g, pool)[1] = RebasedHolding(h, pool)[1]
                 PROVE  g = h
      OBVIOUS
    <2>1. g[1] = h[1]
      BY DEF RebasedHolding
    <2> QED BY <2>1 DEF Custody
  <1>10. ASSUME NEW p \in DOMAIN b.live
         PROVE  \E k \in K : b.live[p].handle \in SpanHandles(k[2])
    <2>1. PICK h \in H : a.live[p].handle \in SpanHandles(h[2])
      BY <1>1 DEF Custody
    <2>2. Moved(a.live[p].handle) = b.live[p].handle
      <3>1. a.live[p].handle.page = p /\ a.live[p].handle.gen = a.gen[p]
        BY <1>1, <1>3, HandleFields
      <3> QED BY <1>1, <3>1
    <2>3. b.live[p].handle \in SpanHandles(RebaseSpans(h[2], pool))
      <3> HIDE DEF Moved
      <3> QED BY <1>5, <2>1, <2>2
    <2>4. RebasedHolding(h, pool) \in K /\ RebasedHolding(h, pool)[2] = RebaseSpans(h[2], pool)
      BY DEF RebasedHolding
    <2> HIDE DEF K
    <2> QED BY <2>3, <2>4
  <1>11. b.free \cap DOMAIN b.live = {} /\ b.free \cup DOMAIN b.live = Pages
    BY <1>1 DEF Custody
  <1> QED BY <1>2, <1>8, <1>9, <1>10, <1>11 DEF Custody, b

-----------------------------------------------------------------------------
(* Page arithmetic.                                                        *)

LEMMA DivMod ==
    ASSUME NEW b \in Nat
    PROVE  /\ b \div PageSize \in Nat /\ b % PageSize \in Nat
           /\ b % PageSize < PageSize
           /\ b = (b \div PageSize) * PageSize + (b % PageSize)
  BY PageSizeAssumption

\* Multiplication is monotonic: a multiple strictly above is a page above.
LEMMA MultiplesApart ==
    ASSUME NEW m \in Int, NEW n \in Int, m < n
    PROVE  m * PageSize + PageSize <= n * PageSize
  BY PageSizeAssumption

\* PagesFor(b) is the n with (n - 1) * PageSize < b <= n * PageSize.
LEMMA PagesForBounds ==
    ASSUME NEW b \in Nat
    PROVE  /\ PagesFor(b) \in Nat
           /\ b <= PagesFor(b) * PageSize
           /\ PagesFor(b) * PageSize < b + PageSize
  BY PageSizeAssumption DEF PagesFor

LEMMA PagesForIs ==
    ASSUME NEW b \in Nat, NEW n \in Int, b <= n * PageSize, n * PageSize < b + PageSize
    PROVE  n = PagesFor(b)
  <1> DEFINE k == PagesFor(b)
  <1>1. k \in Int /\ b <= k * PageSize /\ k * PageSize < b + PageSize
    BY PagesForBounds
  <1> HIDE DEF k
  <1>2. ~ (n < k)
    BY <1>1, MultiplesApart, PageSizeAssumption
  <1>3. ~ (k < n)
    BY <1>1, MultiplesApart, PageSizeAssumption
  <1> QED BY <1>1, <1>2, <1>3 DEF k

LEMMA PagesForMonotone ==
    ASSUME NEW b \in Nat, NEW c \in Nat, b <= c
    PROVE  PagesFor(b) <= PagesFor(c)
  <1> DEFINE m == PagesFor(b)
             n == PagesFor(c)
  <1>1. m \in Nat /\ m * PageSize < b + PageSize
    BY PagesForBounds
  <1>2. n \in Nat /\ c <= n * PageSize
    BY PagesForBounds
  <1> HIDE DEF m, n
  <1>3. ~ (n < m)
    BY <1>1, <1>2, MultiplesApart, PageSizeAssumption
  <1> QED BY <1>1, <1>2, <1>3 DEF m, n

-----------------------------------------------------------------------------
(* Spans that cover an extent.                                             *)

\* What allocate is given to cover covers it, lease by lease.
LEMMA SpansCover ==
    ASSUME NEW a, Sane(a), NEW blocks \in Nat, NEW start \in Int,
           PagesFor(blocks) <= Cardinality(a.free)
    PROVE  LET n == PagesFor(blocks)
               s == Spans(Leases(a, n), start, blocks)
           IN  /\ n \in Nat
               /\ s \in Seq(Span)
               /\ Len(s) = n
               /\ \A i \in 1 .. n : s[i].handle = Leases(a, n)[i]
               /\ Covers(s, start, start + blocks)
  <1> DEFINE n == PagesFor(blocks)
             handles == Leases(a, n)
             s == Spans(handles, start, blocks)
  <1>1. n \in Nat
    BY PagesForBounds
  <1>2. \A i \in 1 .. n : NthFree(a, i) \in Pages
    <2>1. a.free \subseteq Pages
      BY DEF Sane
    <2>2. Cardinality(a.free) \in Nat
      BY <2>1, BelowFinite, FS_CardinalityType
    <2> HIDE DEF n
    <2>3. \A i \in 1 .. n : NthFree(a, i) \in a.free
      BY <1>1, <2>1, <2>2, NthFreeIsFree DEF n
    <2> QED BY <2>1, <2>3
  <1> HIDE DEF n
  <1>3. /\ Len(handles) = n
        /\ \A i \in 1 .. n : handles[i] = Handle(NthFree(a, i), a.gen[NthFree(a, i)] + 1, a.pool)
    BY <1>1 DEF Leases, NextGen
  <1>4. \A i \in 1 .. n : handles[i] \in [page : Pages, gen : Nat, pool : Nat]
    BY <1>2, <1>3 DEF Handle, Sane
  <1> HIDE DEF handles
  <1>5. s = [i \in 1 .. n |->
               [handle |-> handles[i], start |-> start + (i - 1) * PageSize,
                used |-> Least(PageSize, blocks - (i - 1) * PageSize)]]
    BY <1>3 DEF Spans
  <1> HIDE DEF s
  <1>6. \A i \in 1 .. n : /\ start + (i - 1) * PageSize \in Int
                         /\ Least(PageSize, blocks - (i - 1) * PageSize) \in Int
    BY <1>1, PageSizeAssumption DEF Least
  <1>7. \A i \in 1 .. n :
           [handle |-> handles[i], start |-> start + (i - 1) * PageSize,
            used |-> Least(PageSize, blocks - (i - 1) * PageSize)] \in Span
    BY <1>4, <1>6 DEF Span
  <1>8. s \in Seq(Span) /\ Len(s) = n
    BY <1>1, <1>5, <1>7
  <1>9. \A i \in 1 .. n :
           /\ s[i].handle = handles[i]
           /\ s[i].start = start + (i - 1) * PageSize
           /\ s[i].used = Least(PageSize, blocks - (i - 1) * PageSize)
    BY <1>5
  <1>10. Covers(s, start, start + blocks)
    <2>1. (start + blocks) - start = blocks
      OBVIOUS
    <2>2. \A i \in 1 .. n : (start + blocks) - s[i].start = blocks - (i - 1) * PageSize
      BY <1>1, <1>9, PageSizeAssumption
    <2> QED BY <1>8, <1>9, <2>1, <2>2 DEF Covers, n
  <1> QED BY <1>1, <1>8, <1>9, <1>10 DEF n, s, handles

\* A shorter extent from the same start is covered by the first spans.
LEMMA AcceptedCovers ==
    ASSUME NEW branch, branch.pages \in Seq(Span), NEW start \in Int, NEW end0 \in Int,
           Covers(branch.pages, start, end0),
           NEW end \in Int, start <= end, end <= end0
    PROVE  LET keep == AcceptedPages(branch, end)
           IN  /\ keep \in Seq(Span)
               /\ Covers(keep, start, end)
               /\ Len(keep) <= Len(branch.pages)
               /\ \A i \in 1 .. Len(keep) : keep[i].handle = branch.pages[i].handle
  <1> DEFINE pages == branch.pages
             n == PagesFor(end - start)
             kept == {i \in 1 .. Len(pages) : \A j \in 1 .. i : pages[j].start < end}
             keep == AcceptedPages(branch, end)
  <1>1. n \in Nat /\ end - start <= n * PageSize /\ n * PageSize < (end - start) + PageSize
    BY PagesForBounds
  <1>2. n <= Len(pages)
    BY PagesForMonotone DEF Covers
  <1> HIDE DEF n
  <1>3. ASSUME NEW i \in 1 .. Len(pages)
        PROVE  pages[i].start < end <=> i <= n
    <2>1. pages[i].start = start + (i - 1) * PageSize
      BY DEF Covers
    <2>2. i <= n => i * PageSize <= n * PageSize
      <3>1. i = n \/ i > n \/ i * PageSize + PageSize <= n * PageSize
        BY <1>1, MultiplesApart
      <3> QED BY <1>1, <3>1, PageSizeAssumption
    <2>3. n < i => n * PageSize + PageSize <= i * PageSize
      BY <1>1, MultiplesApart
    <2>4. (i - 1) * PageSize = i * PageSize - PageSize
      BY PageSizeAssumption
    <2>5. i * PageSize \in Int /\ n * PageSize \in Int
      BY <1>1, PageSizeAssumption
    <2> QED BY <1>1, <2>1, <2>2, <2>3, <2>4, <2>5, PageSizeAssumption
  <1>4. Len(pages) \in Nat /\ \A i \in 1 .. Len(pages) : pages[i] \in Span
    OBVIOUS
  <1>5. kept = 1 .. n
    <2>1. \A i \in 1 .. Len(pages) :
             (\A j \in 1 .. i : pages[j].start < end) <=> i <= n
      BY <1>1, <1>3, <1>4
    <2>2. 1 .. n = {i \in 1 .. Len(pages) : i <= n}
      BY <1>1, <1>2, <1>4
    <2> QED BY <2>1, <2>2, Zenon
  <1>6. keep = [i \in 1 .. n |-> [pages[i] EXCEPT !.used = Least(PageSize, end - pages[i].start)]]
    BY <1>5 DEF AcceptedPages
  <1> HIDE DEF keep, kept
  <1>7. \A i \in 1 .. n :
           LET x == [pages[i] EXCEPT !.used = Least(PageSize, end - pages[i].start)]
           IN  /\ x \in Span
               /\ x.handle = pages[i].handle
               /\ x.start = pages[i].start
               /\ x.used = Least(PageSize, end - pages[i].start)
    <2>1. \A x \in Span, u \in Int :
             /\ [x EXCEPT !.used = u] \in Span
             /\ [x EXCEPT !.used = u].handle = x.handle
             /\ [x EXCEPT !.used = u].start = x.start
             /\ [x EXCEPT !.used = u].used = u
      BY DEF Span
    <2>2. \A x \in Span : Least(PageSize, end - x.start) \in Int
      BY PageSizeAssumption DEF Span, Least
    <2>3. \A i \in 1 .. n : pages[i] \in Span
      BY <1>1, <1>2, <1>4
    <2> HIDE DEF pages
    <2> QED BY <2>1, <2>2, <2>3
  <1>8. keep \in Seq(Span) /\ Len(keep) = n
    <2>1. keep \in [1 .. n -> Span]
      BY <1>6, <1>7
    <2> QED BY <1>1, <2>1
  <1>9. \A i \in 1 .. n :
           /\ keep[i].handle = pages[i].handle
           /\ keep[i].start = pages[i].start
           /\ keep[i].used = Least(PageSize, end - pages[i].start)
    BY <1>6, <1>7
  <1>10. \A i \in 1 .. n : pages[i].start = start + (i - 1) * PageSize
    BY <1>1, <1>2, <1>4 DEF Covers
  <1>11. Covers(keep, start, end)
    BY <1>8, <1>9, <1>10 DEF Covers, n
  <1> QED BY <1>2, <1>8, <1>9, <1>11 DEF keep

\* Whole pages of a trunk, continued by spans that start where they end.
LEMMA ConcatCovers ==
    ASSUME NEW trunk \in Seq(Span), NEW b \in Nat, Covers(trunk, 0, b),
           NEW d \in Nat, d * PageSize <= b, d <= Len(trunk),
           NEW keep \in Seq(Span), NEW e \in Nat, b <= e, Covers(keep, d * PageSize, e)
    PROVE  LET joined == SubSeq(trunk, 1, d) \o keep
           IN  /\ joined \in Seq(Span)
               /\ Len(joined) = d + Len(keep)
               /\ \A i \in 1 .. d : joined[i] = trunk[i]
               /\ \A i \in 1 .. Len(keep) : joined[d + i] = keep[i]
               /\ Covers(joined, 0, e)
  <1> DEFINE head == SubSeq(trunk, 1, d)
             joined == head \o keep
             k == Len(keep)
  <1>0. d * PageSize \in Nat /\ Len(trunk) \in Nat
    BY PageSizeAssumption
  <1>1. head \in Seq(Span) /\ Len(head) = d /\ \A i \in 1 .. d : head[i] = trunk[i]
    <2>1. \A i \in 1 .. d : trunk[i] \in Span
      BY <1>0
    <2> QED BY <2>1, SubSeqProperties
  <1> HIDE DEF head
  <1>2. k \in Nat /\ k = PagesFor(e - d * PageSize)
    BY DEF Covers
  <1>3. /\ joined \in Seq(Span)
        /\ Len(joined) = d + k
        /\ \A i \in 1 .. d + k : joined[i] = IF i <= d THEN head[i] ELSE keep[i - d]
    BY <1>1, ConcatProperties
  <1> HIDE DEF joined, k
  <1>4. d + k = PagesFor(e)
    <2>1. /\ e - d * PageSize <= k * PageSize
          /\ k * PageSize < (e - d * PageSize) + PageSize
      <3>1. e - d * PageSize \in Nat
        BY <1>0
      <3> QED BY <1>2, <3>1, PagesForBounds
    <2>2. (d + k) * PageSize = d * PageSize + k * PageSize
      BY <1>2, PageSizeAssumption
    <2>3. k * PageSize \in Int
      BY <1>2, PageSizeAssumption
    <2>4. e <= (d + k) * PageSize /\ (d + k) * PageSize < e + PageSize
      BY <1>0, <2>1, <2>2, <2>3, PageSizeAssumption
    <2> QED BY <1>2, <2>4, PagesForIs
  <1>5. ASSUME NEW i \in 1 .. d
        PROVE  /\ joined[i] = trunk[i]
               /\ joined[i].start = 0 + (i - 1) * PageSize
               /\ joined[i].used = Least(PageSize, e - joined[i].start)
    <2>1. joined[i] = trunk[i]
      BY <1>1, <1>2, <1>3
    <2>2. i \in 1 .. Len(trunk)
      BY <1>0
    <2>3. /\ trunk[i].start = 0 + (i - 1) * PageSize
          /\ trunk[i].used = Least(PageSize, b - trunk[i].start)
      BY <2>2 DEF Covers
    <2>4. (i - 1) * PageSize + PageSize <= d * PageSize /\ (i - 1) * PageSize \in Int
      BY MultiplesApart, PageSizeAssumption
    <2>5. \A s \in Int : s + PageSize <= d * PageSize =>
             /\ Least(PageSize, b - s) = PageSize
             /\ Least(PageSize, e - s) = PageSize
      <3> DEFINE w == d * PageSize
      <3>1. w \in Nat /\ w <= b
        BY <1>0
      <3> HIDE DEF w
      <3>2. \A s \in Int : s + PageSize <= w => PageSize <= b - s /\ PageSize <= e - s
        BY <3>1, PageSizeAssumption
      <3>3. \A x \in Int : PageSize <= x => Least(PageSize, x) = PageSize
        BY PageSizeAssumption DEF Least
      <3>4. \A s \in Int : b - s \in Int /\ e - s \in Int
        OBVIOUS
      <3> QED BY <3>2, <3>3, <3>4 DEF w
    <2>6. 0 + (i - 1) * PageSize = (i - 1) * PageSize
      BY <2>4
    <2> QED BY <2>1, <2>3, <2>4, <2>5, <2>6
  <1>6. ASSUME NEW i \in 1 .. k
        PROVE  /\ joined[d + i] = keep[i]
               /\ joined[d + i].start = 0 + ((d + i) - 1) * PageSize
               /\ joined[d + i].used = Least(PageSize, e - joined[d + i].start)
    <2>1. joined[d + i] = keep[i]
      <3>1. d + i \in 1 .. d + k /\ ~ (d + i <= d) /\ (d + i) - d = i
        BY <1>2
      <3> QED BY <1>3, <3>1
    <2>2. /\ keep[i].start = d * PageSize + (i - 1) * PageSize
          /\ keep[i].used = Least(PageSize, e - keep[i].start)
      BY DEF Covers, k
    <2>3. ((d + i) - 1) * PageSize = d * PageSize + (i - 1) * PageSize
      BY PageSizeAssumption
    <2>4. d * PageSize + (i - 1) * PageSize \in Int
      BY PageSizeAssumption
    <2> QED BY <2>1, <2>2, <2>3, <2>4
  <1>7. Covers(joined, 0, e)
    <2>1. ASSUME NEW i \in 1 .. d + k
          PROVE  /\ joined[i].start = 0 + (i - 1) * PageSize
                 /\ joined[i].used = Least(PageSize, e - joined[i].start)
      <3>1. CASE i <= d
        BY <1>5, <3>1
      <3>2. CASE i > d
        <4>1. i - d \in 1 .. k /\ d + (i - d) = i
          BY <1>2, <3>2
        <4> QED BY <1>6, <4>1
      <3> QED BY <3>1, <3>2, <1>2
    <2>2. e - 0 = e
      OBVIOUS
    <2> QED BY <1>3, <1>4, <2>1, <2>2 DEF Covers
  <1> QED BY <1>3, <1>5, <1>6, <1>7 DEF joined, k, head

-----------------------------------------------------------------------------
(* The ledger: what its methods keep, for requests R and outcomes O.       *)

EpochType(R) == [req : R, round : Nat, version : Nat]

Request(R, O) ==
    [blocks : Nat, trunk : Seq(Span), version : Nat, round : Nat \cup {-1},
     active : Transaction(R, O) \cup {NoTxn}]

TypedLedger(l, R, O) ==
    /\ l \in [alloc : {l.alloc}, req : {l.req}, aborted : SUBSET EpochType(R),
              floor : {l.floor}]
    /\ l.req \in [DOMAIN l.req -> Request(R, O)]
    /\ DOMAIN l.req \subseteq R
    /\ l.floor \in [DOMAIN l.floor -> Nat]

Audited(l, R, O) ==
    /\ TypedLedger(l, R, O)
    /\ Custody(l.alloc, Holdings(l))
    /\ \A r \in DOMAIN l.req : Aligned(l.req[r])
    /\ EpochsConsistent(l)
    /\ \A e \in l.aborted : e.req \in DOMAIN l.req

\* The holdings of one transaction, of one request, and of r in l.
TransactionHoldings(t) ==
    IF t = NoTxn THEN {}
    ELSE {<<BranchOwner(t.epoch, o), t.branches[o].pages>> : o \in DOMAIN t.branches}

RequestHoldings(r, q) == {<<TrunkOwner(r), q.trunk>>} \cup TransactionHoldings(q.active)

HoldingsOf(l, r) == IF r \in DOMAIN l.req THEN RequestHoldings(r, l.req[r]) ELSE {}

\* The request a holding belongs to.
Holder(h) == IF h[1][1] = "trunk" THEN h[1][2] ELSE h[1][2].req

LEMMA HoldingsAre ==
    ASSUME NEW l, NEW h
    PROVE  h \in Holdings(l) <=> \E r \in DOMAIN l.req : h \in RequestHoldings(r, l.req[r])
  <1>1. ASSUME NEW r \in DOMAIN l.req, l.req[r].active # NoTxn
        PROVE  TransactionHoldings(l.req[r].active) =
                   {<<BranchOwner(l.req[r].active.epoch, o), l.req[r].active.branches[o].pages>> :
                        o \in DOMAIN l.req[r].active.branches}
    BY <1>1 DEF TransactionHoldings
  <1>2. \A r \in DOMAIN l.req : l.req[r].active = NoTxn =>
            TransactionHoldings(l.req[r].active) = {}
    BY DEF TransactionHoldings
  <1>3. h \in Holdings(l) <=>
          \/ \E r \in DOMAIN l.req : h = <<TrunkOwner(r), l.req[r].trunk>>
          \/ \E r \in {x \in DOMAIN l.req : l.req[x].active # NoTxn} :
                h \in {<<BranchOwner(l.req[r].active.epoch, o), l.req[r].active.branches[o].pages>> :
                            o \in DOMAIN l.req[r].active.branches}
    BY Zenon DEF Holdings
  <1>4. h \in Holdings(l) <=>
          \/ \E r \in DOMAIN l.req : h = <<TrunkOwner(r), l.req[r].trunk>>
          \/ \E r \in DOMAIN l.req : h \in TransactionHoldings(l.req[r].active)
    BY <1>1, <1>2, <1>3, Zenon
  <1> QED BY <1>4, Zenon DEF RequestHoldings

LEMMA HolderIs ==
    ASSUME NEW r, NEW q, q.active # NoTxn => q.active.epoch.req = r,
           NEW h \in RequestHoldings(r, q)
    PROVE  Holder(h) = r
  BY DEF RequestHoldings, TransactionHoldings, Holder, TrunkOwner, BranchOwner

EpochsNamed(l) ==
    \A x \in DOMAIN l.req : l.req[x].active # NoTxn => l.req[x].active.epoch.req = x

\* Nothing but the request r changes from l to m.
OthersSame(l, m, r) ==
    /\ \A x : x # r => (x \in DOMAIN m.req <=> x \in DOMAIN l.req)
    /\ \A x \in DOMAIN l.req \ {r} : m.req[x] = l.req[x]

HoldingsMoved(l, m, r) ==
    /\ Holdings(m) = (Holdings(l) \ HoldingsOf(l, r)) \cup HoldingsOf(m, r)
    /\ HoldingsOf(l, r) \subseteq Holdings(l)
    /\ r \notin DOMAIN l.req => \A h \in Holdings(l) : Holder(h) # r

\* A change of one request changes its holdings and no other.
LEMMA HoldingsChanged ==
    ASSUME NEW l, NEW m, NEW r, EpochsNamed(l), OthersSame(l, m, r)
    PROVE  HoldingsMoved(l, m, r)
  <1> USE DEF EpochsNamed, OthersSame
  <1>1. \A h \in Holdings(l) \ HoldingsOf(l, r) :
            \E x \in DOMAIN l.req \ {r} : h \in RequestHoldings(x, l.req[x])
    BY HoldingsAre DEF HoldingsOf
  <1>2. ASSUME NEW h, NEW x \in DOMAIN l.req \ {r}, h \in RequestHoldings(x, l.req[x])
        PROVE  h \in Holdings(l) \ HoldingsOf(l, r)
    <2>1. h \in Holdings(l) /\ Holder(h) = x
      BY <1>2, HoldingsAre, HolderIs
    <2>2. \A g \in HoldingsOf(l, r) : Holder(g) = r
      BY HolderIs DEF HoldingsOf
    <2> QED BY <2>1, <2>2
  <1>3. \A h : h \in Holdings(m) <=>
               \/ \E x \in DOMAIN l.req \ {r} : h \in RequestHoldings(x, l.req[x])
               \/ h \in HoldingsOf(m, r)
    BY HoldingsAre DEF HoldingsOf
  <1>4. \A h : h \in Holdings(m) <=> h \in (Holdings(l) \ HoldingsOf(l, r)) \cup HoldingsOf(m, r)
    BY <1>1, <1>2, <1>3
  <1>5. HoldingsOf(l, r) \subseteq Holdings(l)
    BY HoldingsAre DEF HoldingsOf
  <1>6. r \notin DOMAIN l.req => \A h \in Holdings(l) : Holder(h) # r
    BY HoldingsAre, HolderIs
  <1> QED BY <1>4, <1>5, <1>6 DEF HoldingsMoved

\* The same for an audited ledger, and what it says of the request itself.
LEMMA RequestFacts ==
    ASSUME NEW R, NEW O, NEW l, Audited(l, R, O), NEW r \in DOMAIN l.req
    PROVE  /\ r \in R
           /\ l.req[r] \in Request(R, O)
           /\ Aligned(l.req[r])
           /\ r \in DOMAIN l.floor /\ l.floor[r] = l.req[r].version
           /\ l.req[r].version = 0 => l.req[r].round = -1
           /\ l.req[r].active # NoTxn =>
                 /\ l.req[r].active \in Transaction(R, O)
                 /\ l.req[r].active.epoch = Epoch(r, l.req[r].round, l.req[r].version)
                 /\ l.req[r].active.epoch.req = r
                 /\ l.req[r].round \in Nat
  <1>1. l.req[r] \in Request(R, O) /\ r \in R
    BY DEF Audited, TypedLedger
  <1>2. /\ r \in DOMAIN l.floor /\ l.floor[r] = l.req[r].version
        /\ l.req[r].version = 0 => l.req[r].round = -1
        /\ l.req[r].active # NoTxn =>
              l.req[r].active.epoch = Epoch(r, l.req[r].round, l.req[r].version)
    BY DEF Audited, EpochsConsistent
  <1>3. l.req[r].active # NoTxn => l.req[r].active \in Transaction(R, O)
    BY <1>1 DEF Request
  <1>4. l.req[r].active # NoTxn =>
            l.req[r].active.epoch \in [req : R, round : Nat, version : Nat]
    BY <1>3 DEF Transaction
  <1>5. l.req[r].active # NoTxn =>
            l.req[r].active.epoch.req = r /\ l.req[r].round \in Nat
    BY <1>2, <1>4 DEF Epoch
  <1> QED BY <1>1, <1>2, <1>3, <1>5 DEF Audited

\* An aborted epoch is of a time before its request's, and not open.
LEMMA AbortedFacts ==
    ASSUME NEW R, NEW O, NEW l, Audited(l, R, O), NEW e \in l.aborted, e.req \in DOMAIN l.req
    PROVE  /\ e.version \in Nat /\ e.round \in Nat
           /\ e.version <= l.req[e.req].version /\ e.round <= l.req[e.req].round
           /\ l.req[e.req].active # NoTxn => l.req[e.req].active.epoch # e
  <1>1. e \in EpochType(R)
    BY DEF Audited, TypedLedger
  <1>2. /\ e.version <= l.req[e.req].version /\ e.round <= l.req[e.req].round
        /\ ~ IsActive(l, e)
    BY DEF Audited, EpochsConsistent
  <1> QED BY <1>1, <1>2 DEF EpochType, IsActive

\* Request r changes to q, and everything else that an audit looks at is right.
RequestMoves(l, m, r, q, R) ==
    /\ m \in [alloc : {m.alloc}, req : {m.req}, aborted : SUBSET EpochType(R),
              floor : {m.floor}]
    /\ m.req = With(l.req, r, q)
    /\ m.floor = With(l.floor, r, q.version)
    /\ Custody(m.alloc, Holdings(m))
    /\ Aligned(q)
    /\ q.version = 0 => q.round = -1
    /\ q.active # NoTxn => q.active.epoch = Epoch(r, q.round, q.version)
    /\ \A e \in m.aborted : e.req # r => e \in l.aborted
    /\ \A e \in m.aborted : e.req = r =>
          /\ e.version <= q.version
          /\ e.round <= q.round
          /\ q.active # NoTxn => q.active.epoch # e

\* What audited ledgers need when one request changes to q.
LEMMA RequestChanged ==
    ASSUME NEW R, NEW O, NEW l, Audited(l, R, O), NEW r \in R, NEW q \in Request(R, O), NEW m,
           RequestMoves(l, m, r, q, R)
    PROVE  Audited(m, R, O)
  <1> USE DEF RequestMoves
  <1>1. /\ DOMAIN m.req = DOMAIN l.req \cup {r} /\ m.req[r] = q
        /\ \A x \in DOMAIN l.req \ {r} : m.req[x] = l.req[x]
    BY DEF With
  <1>2. /\ DOMAIN m.floor = DOMAIN l.floor \cup {r} /\ m.floor[r] = q.version
        /\ \A x \in DOMAIN l.floor \ {r} : m.floor[x] = l.floor[x]
    BY DEF With
  <1>3. TypedLedger(m, R, O)
    <2>1. m.req \in [DOMAIN m.req -> Request(R, O)]
      BY <1>1 DEF With, Audited, TypedLedger
    <2>2. q.version \in Nat
      BY DEF Request
    <2>3. m.floor \in [DOMAIN m.floor -> Nat]
      BY <1>2, <2>2 DEF With, Audited, TypedLedger
    <2>4. DOMAIN m.req \subseteq R
      BY <1>1 DEF Audited, TypedLedger
    <2> QED BY <2>1, <2>3, <2>4 DEF TypedLedger
  <1>4. \A x \in DOMAIN m.req : Aligned(m.req[x])
    BY <1>1 DEF Audited
  <1>5. \A x \in DOMAIN m.req :
          /\ x \in DOMAIN m.floor /\ m.floor[x] = m.req[x].version
          /\ m.req[x].version = 0 => m.req[x].round = -1
          /\ m.req[x].active # NoTxn =>
                m.req[x].active.epoch = Epoch(x, m.req[x].round, m.req[x].version)
    BY <1>1, <1>2, RequestFacts
  <1>6. ASSUME NEW e \in m.aborted
        PROVE  /\ e.req \in DOMAIN m.req
               /\ e.version <= m.req[e.req].version
               /\ e.round <= m.req[e.req].round
               /\ ~ IsActive(m, e)
    <2>1. CASE e.req = r
      BY <1>1, <2>1 DEF IsActive
    <2>2. CASE e.req # r
      BY <1>1, <2>2 DEF IsActive, Audited, EpochsConsistent
    <2> QED BY <2>1, <2>2
  <1> QED BY <1>3, <1>4, <1>5, <1>6 DEF Audited, EpochsConsistent

-----------------------------------------------------------------------------
(* The methods, one by one. *)

\* In m no request has lost committed blocks or moved a full page since l.
PrefixKept(l, m) ==
    \A r \in DOMAIN l.req \cap DOMAIN m.req :
        LET old == l.req[r]
            new == m.req[r]
        IN  /\ new.blocks >= old.blocks
            /\ \A i \in 1 .. Len(old.trunk) :
                  old.trunk[i].used = PageSize =>
                      i <= Len(new.trunk) /\ new.trunk[i] = old.trunk[i]

LEMMA ActiveFacts ==
    ASSUME NEW R, NEW O, NEW l, Audited(l, R, O), NEW e, IsActive(l, e)
    PROVE  LET q == l.req[e.req]
           IN  /\ e.req \in DOMAIN l.req /\ e.req \in R
               /\ q \in Request(R, O) /\ Aligned(q)
               /\ q.active # NoTxn /\ q.active \in Transaction(R, O) /\ q.active.epoch = e
               /\ e = Epoch(e.req, q.round, q.version) /\ e \in EpochType(R)
               /\ e.round = q.round /\ e.version = q.version
               /\ e.round \in Nat /\ e.version \in Nat
               /\ q.version # 0
               /\ l.floor[e.req] = q.version /\ e.req \in DOMAIN l.floor
               /\ Branches(l, e) = q.active.branches
  <1> DEFINE q == l.req[e.req]
  <1>1. e.req \in DOMAIN l.req /\ q.active # NoTxn /\ q.active.epoch = e
    BY DEF IsActive
  <1>2. /\ e.req \in R /\ q \in Request(R, O) /\ Aligned(q)
        /\ q.active \in Transaction(R, O)
        /\ e = Epoch(e.req, q.round, q.version)
        /\ q.round \in Nat
        /\ q.version = 0 => q.round = -1
        /\ l.floor[e.req] = q.version /\ e.req \in DOMAIN l.floor
    BY <1>1, RequestFacts
  <1>3. e \in EpochType(R)
    BY <1>1, <1>2 DEF Transaction, EpochType
  <1>4. q.version # 0
    BY <1>2
  <1>5. e.round = q.round /\ e.version = q.version
    BY <1>2 DEF Epoch
  <1>6. Branches(l, e) = q.active.branches
    BY DEF Branches
  <1> QED BY <1>1, <1>2, <1>3, <1>4, <1>5, <1>6 DEF EpochType

\* Since l floors have not sunk, and what was opened is above them.
EpochsFresh(l, m) ==
    /\ DOMAIN l.floor \subseteq DOMAIN m.floor
    /\ \A x \in DOMAIN l.floor : l.floor[x] <= m.floor[x]
    /\ \A e : IsActive(m, e) =>
          IsActive(l, e) \/ (e.req \in DOMAIN l.floor => l.floor[e.req] < e.version)

\* What every method keeps, from l to m.
Steps(l, m, R, O) ==
    /\ Audited(m, R, O)
    /\ Follows(l.alloc, m.alloc)
    /\ PrefixKept(l, m)
    /\ EpochsFresh(l, m)

LEMMA FreshWhen ==
    ASSUME NEW R, NEW O, NEW l, Audited(l, R, O), NEW m, Audited(m, R, O), NEW r,
           \A x \in DOMAIN m.req \ {r} : x \in DOMAIN l.req /\ m.req[x] = l.req[x],
           DOMAIN l.floor \subseteq DOMAIN m.floor,
           \A x \in DOMAIN l.floor \ {r} : m.floor[x] = l.floor[x],
           r \in DOMAIN l.floor => l.floor[r] <= m.floor[r],
           r \in DOMAIN m.req =>
               \/ m.req[r].active = NoTxn
               \/ /\ r \in DOMAIN l.req /\ l.req[r].active # NoTxn
                  /\ m.req[r].active.epoch = l.req[r].active.epoch
               \/ r \in DOMAIN l.floor => l.floor[r] < m.req[r].version
    PROVE  EpochsFresh(l, m)
  <1>1. \A x \in DOMAIN l.floor : l.floor[x] \in Nat
    BY DEF Audited, TypedLedger
  <1>2. \A x \in DOMAIN l.floor : l.floor[x] <= m.floor[x]
    BY <1>1
  <1>3. ASSUME NEW e, IsActive(m, e)
        PROVE  IsActive(l, e) \/ (e.req \in DOMAIN l.floor => l.floor[e.req] < e.version)
    <2>1. e.req \in DOMAIN m.req /\ e.version = m.req[e.req].version
      BY <1>3, ActiveFacts
    <2>2. CASE e.req # r
      BY <1>3, <2>1, <2>2 DEF IsActive
    <2>3. CASE e.req = r
      BY <1>3, <2>1, <2>3 DEF IsActive
    <2> QED BY <2>2, <2>3
  <1> QED BY <1>2, <1>3 DEF EpochsFresh

LEMMA WithSame ==
    ASSUME NEW f, f = [x \in DOMAIN f |-> f[x]], NEW k \in DOMAIN f
    PROVE  With(f, k, f[k]) = f
  BY DEF With

LEMMA SaneLedger ==
    ASSUME NEW R, NEW O, NEW l, Audited(l, R, O)
    PROVE  Sane(l.alloc) /\ Follows(l.alloc, l.alloc)
  BY DEF Audited, Custody, Follows

\* Where the trunk and the blocks of r are as they were, prefixes are kept.
LEMMA SamePrefixKept ==
    ASSUME NEW R, NEW O, NEW l, Audited(l, R, O), NEW m, NEW r,
           \A x \in DOMAIN l.req \ {r} : x \in DOMAIN m.req => m.req[x] = l.req[x],
           r \in DOMAIN l.req \cap DOMAIN m.req =>
               m.req[r].blocks = l.req[r].blocks /\ m.req[r].trunk = l.req[r].trunk
    PROVE  PrefixKept(l, m)
  <1>1. \A x \in DOMAIN l.req : l.req[x].blocks \in Nat /\ l.req[x].trunk \in Seq(Span)
    BY RequestFacts DEF Request
  <1>2. \A x \in DOMAIN l.req \cap DOMAIN m.req :
            m.req[x].blocks = l.req[x].blocks /\ m.req[x].trunk = l.req[x].trunk
    OBVIOUS
  <1>3. \A s \in Seq(Span) : \A i \in 1 .. Len(s) : i <= Len(s)
    OBVIOUS
  <1>4. \A b \in Nat : b >= b
    OBVIOUS
  <1> QED BY <1>1, <1>2, <1>3, <1>4 DEF PrefixKept

LEMMA RegisterSteps ==
    ASSUME NEW R, NEW O, NEW l, Audited(l, R, O), NEW r \in R, NEW blocks \in Nat,
           CanRegister(l, r, blocks)
    PROVE  Steps(l, Register(l, r, blocks), R, O)
  <1> DEFINE m == Register(l, r, blocks)
             n == PagesFor(blocks)
             spans == Spans(Leases(l.alloc, n), 0, blocks)
             version == FloorOf(l, r)
             q == [blocks |-> blocks, trunk |-> spans, version |-> version,
                   round |-> -1, active |-> NoTxn]
  <1>1. r \notin DOMAIN l.req /\ n <= Cardinality(l.alloc.free) /\ Sane(l.alloc)
    BY SaneLedger DEF CanRegister
  <1>2. /\ n \in Nat /\ spans \in Seq(Span) /\ Len(spans) = n
        /\ \A i \in 1 .. n : spans[i].handle = Leases(l.alloc, n)[i]
        /\ Covers(spans, 0, blocks)
    <2>1. 0 + blocks = blocks
      OBVIOUS
    <2> QED BY <1>1, <2>1, SpansCover
  <1> HIDE DEF n, spans
  <1>3. version \in Nat
    BY DEF FloorOf, Audited, TypedLedger
  <1> HIDE DEF version
  <1>4. /\ q \in Request(R, O) /\ q.active = NoTxn /\ q.round = -1
        /\ q.blocks = blocks /\ q.trunk = spans /\ q.version = version
    BY <1>2, <1>3 DEF Request
  <1> HIDE DEF q
  <1>5. Aligned(q)
    BY <1>2, <1>4 DEF Aligned
  <1>6. /\ m \in [alloc : {m.alloc}, req : {m.req}, aborted : SUBSET EpochType(R),
                  floor : {m.floor}]
        /\ m.alloc = Allocate(l.alloc, n, TrunkOwner(r))
        /\ m.req = With(l.req, r, q)
        /\ m.floor = With(l.floor, r, version)
        /\ m.aborted = l.aborted
    BY DEF Register, Audited, TypedLedger, q, n, spans, version
  <1> HIDE DEF m
  <1>7. /\ DOMAIN m.req = DOMAIN l.req \cup {r} /\ m.req[r] = q
        /\ \A x \in DOMAIN l.req \ {r} : m.req[x] = l.req[x]
    BY <1>6 DEF With
  <1>8. Custody(m.alloc, Holdings(m))
    <2>1. EpochsNamed(l)
      BY RequestFacts DEF EpochsNamed
    <2>2. /\ Holdings(m) = (Holdings(l) \ HoldingsOf(l, r)) \cup HoldingsOf(m, r)
          /\ \A h \in Holdings(l) : Holder(h) # r
      <3>1. OthersSame(l, m, r)
        BY <1>1, <1>7 DEF OthersSame
      <3>2. HoldingsMoved(l, m, r)
        BY <2>1, <3>1, HoldingsChanged
      <3> QED BY <1>1, <3>2 DEF HoldingsMoved
    <2>3. HoldingsOf(l, r) = {} /\ HoldingsOf(m, r) = {<<TrunkOwner(r), spans>>}
      BY <1>1, <1>4, <1>7 DEF HoldingsOf, RequestHoldings, TransactionHoldings
    <2>4. Holdings(m) = Holdings(l) \cup {<<TrunkOwner(r), spans>>}
      BY <2>2, <2>3
    <2>5. \A h \in Holdings(l) : h[1] # TrunkOwner(r)
      BY <2>2 DEF Holder, TrunkOwner
    <2>6. Custody(Allocate(l.alloc, n, TrunkOwner(r)), Holdings(l) \cup {<<TrunkOwner(r), spans>>})
      BY <1>1, <1>2, <2>5, CustodyAllocate DEF Audited
    <2> QED BY <1>6, <2>4, <2>6
  <1>9. \A e \in m.aborted : e.req # r
    BY <1>1, <1>6 DEF Audited
  <1>10. Audited(m, R, O)
    <2>1. RequestMoves(l, m, r, q, R)
      BY <1>4, <1>5, <1>6, <1>8, <1>9 DEF RequestMoves
    <2> QED BY <2>1, <1>4, RequestChanged
  <1>11. Follows(l.alloc, m.alloc)
    BY <1>1, <1>2, <1>6, AllocateFollows
  <1>12. PrefixKept(l, m)
    BY <1>1, <1>7, SamePrefixKept
  <1>13. EpochsFresh(l, m)
    <2>1. r \in DOMAIN l.floor => l.floor[r] \in Nat
      BY DEF Audited, TypedLedger
    <2>2. /\ DOMAIN l.floor \subseteq DOMAIN m.floor
          /\ \A x \in DOMAIN l.floor \ {r} : m.floor[x] = l.floor[x]
          /\ r \in DOMAIN l.floor => l.floor[r] <= m.floor[r]
      BY <1>6, <2>1 DEF With, FloorOf, version
    <2>3. /\ \A x \in DOMAIN m.req \ {r} : x \in DOMAIN l.req /\ m.req[x] = l.req[x]
          /\ m.req[r].active = NoTxn
      BY <1>4, <1>7
    <2> QED BY <1>10, <2>2, <2>3, FreshWhen
  <1> QED BY <1>10, <1>11, <1>12, <1>13 DEF Steps, m

\* begin: a transaction without branches changes no holding.
LEMMA BeginSteps ==
    ASSUME NEW R, NEW O, NoTxn \notin Transaction(R, O),
           NEW l, Audited(l, R, O), NEW r \in R, NEW round \in Nat, CanBegin(l, r, round)
    PROVE  Steps(l, Begin(l, r, round), R, O)
  <1> DEFINE m == Begin(l, r, round)
             old == l.req[r]
             version == old.version + 1
             none == [o \in {} |-> 0]
             active == [epoch |-> Epoch(r, round, version), branches |-> none]
             q == [old EXCEPT !.version = version, !.round = round, !.active = active]
  <1>1. /\ r \in DOMAIN l.req /\ old.active = NoTxn /\ round > old.round
        /\ old \in Request(R, O) /\ Aligned(old)
    BY RequestFacts DEF CanBegin
  <1>2. /\ old.version \in Nat /\ version \in Nat /\ old.version < version
    BY <1>1 DEF Request
  <1>3. none \in [{} -> Branch] /\ DOMAIN none = {}
    OBVIOUS
  <1> HIDE DEF none
  <1>4. active \in Transaction(R, O)
    <2>1. Epoch(r, round, version) \in [req : R, round : Nat, version : Nat]
      BY <1>2 DEF Epoch
    <2>2. none \in UNION {[S -> Branch] : S \in SUBSET O}
      BY <1>3
    <2> QED BY <2>1, <2>2 DEF Transaction
  <1>5. active # NoTxn /\ active.epoch = Epoch(r, round, version) /\ active.branches = none
    BY <1>4
  <1> HIDE DEF active
  <1>6. /\ q \in Request(R, O) /\ q.active = active /\ q.round = round
        /\ q.blocks = old.blocks /\ q.trunk = old.trunk /\ q.version = version
    BY <1>1, <1>2, <1>4 DEF Request
  <1>7. /\ m \in [alloc : {m.alloc}, req : {m.req}, aborted : SUBSET EpochType(R),
                  floor : {m.floor}]
        /\ m.alloc = l.alloc
        /\ m.req = With(l.req, r, q)
        /\ m.floor = With(l.floor, r, version)
        /\ m.aborted = l.aborted
    BY DEF Begin, Audited, TypedLedger, none, active
  <1> HIDE DEF q, m
  <1>8. Aligned(q)
    BY <1>1, <1>3, <1>5, <1>6 DEF Aligned
  <1>9. /\ DOMAIN m.req = DOMAIN l.req /\ m.req[r] = q
        /\ \A x \in DOMAIN l.req \ {r} : m.req[x] = l.req[x]
    BY <1>1, <1>7 DEF With
  <1>10. Custody(m.alloc, Holdings(m))
    <2>1. EpochsNamed(l)
      BY RequestFacts DEF EpochsNamed
    <2>2. /\ Holdings(m) = (Holdings(l) \ HoldingsOf(l, r)) \cup HoldingsOf(m, r)
          /\ HoldingsOf(l, r) \subseteq Holdings(l)
      <3>1. OthersSame(l, m, r)
        BY <1>9 DEF OthersSame
      <3>2. HoldingsMoved(l, m, r)
        BY <2>1, <3>1, HoldingsChanged
      <3> QED BY <3>2 DEF HoldingsMoved
    <2>3. HoldingsOf(l, r) = {<<TrunkOwner(r), old.trunk>>}
      BY <1>1 DEF HoldingsOf, RequestHoldings, TransactionHoldings
    <2>4. TransactionHoldings(active) = {}
      BY <1>3, <1>5 DEF TransactionHoldings
    <2>5. HoldingsOf(m, r) = {<<TrunkOwner(r), old.trunk>>}
      BY <1>1, <1>6, <1>9, <2>4 DEF HoldingsOf, RequestHoldings
    <2>6. Holdings(m) = Holdings(l)
      BY <2>2, <2>3, <2>5
    <2> QED BY <1>7, <2>6 DEF Audited
  <1>11. \A e \in m.aborted : e.req = r =>
            /\ e.version <= q.version
            /\ e.round <= q.round
            /\ q.active.epoch # e
    <2>1. \A e \in l.aborted : e.req = r =>
              /\ e.version <= old.version /\ e.round <= old.round
              /\ e.version \in Nat /\ e.round \in Nat
      BY <1>1 DEF Audited, EpochsConsistent, TypedLedger, EpochType
    <2>2. old.round \in Int
      BY <1>1 DEF Request
    <2>3. q.active.epoch.version = version
      BY <1>5, <1>6 DEF Epoch
    <2> QED BY <1>1, <1>2, <1>6, <1>7, <2>1, <2>2, <2>3
  <1>12. Audited(m, R, O)
    <2>1. q.version # 0
      BY <1>2, <1>6
    <2>2. RequestMoves(l, m, r, q, R)
      BY <1>5, <1>6, <1>7, <1>8, <1>10, <1>11, <2>1 DEF RequestMoves
    <2> QED BY <2>2, <1>1, <1>6, RequestChanged
  <1>13. PrefixKept(l, m)
    BY <1>6, <1>9, SamePrefixKept
  <1>14. EpochsFresh(l, m)
    <2>1. r \in DOMAIN l.floor => l.floor[r] \in Nat
      BY DEF Audited, TypedLedger
    <2>2. /\ DOMAIN l.floor \subseteq DOMAIN m.floor
          /\ \A x \in DOMAIN l.floor \ {r} : m.floor[x] = l.floor[x]
          /\ r \in DOMAIN l.floor => l.floor[r] <= m.floor[r]
      BY <1>2, <1>7, RequestFacts, <1>1, <2>1 DEF With
    <2>3. /\ \A x \in DOMAIN m.req \ {r} : x \in DOMAIN l.req /\ m.req[x] = l.req[x]
          /\ r \in DOMAIN l.floor => l.floor[r] < m.req[r].version
      BY <1>1, <1>2, <1>6, <1>9, RequestFacts
    <2> QED BY <1>12, <2>2, <2>3, FreshWhen
  <1> QED BY <1>7, <1>12, <1>13, SaneLedger, <1>14 DEF Steps, m

LEMMA TransactionHandles ==
    ASSUME NEW t, t # NoTxn
    PROVE  HandlesOf(TransactionHoldings(t)) = BranchHandles(t.branches)
  <1> DEFINE H == TransactionHoldings(t)
  <1>1. \A h : h \in H <=>
               \E o \in DOMAIN t.branches : h = <<BranchOwner(t.epoch, o), t.branches[o].pages>>
    BY DEF TransactionHoldings
  <1>2. \A x : x \in HandlesOf(H) <=> \E h \in H : x \in SpanHandles(h[2])
    BY DEF HandlesOf
  <1> HIDE DEF H
  <1>3. \A x : x \in HandlesOf(H) <=>
               \E o \in DOMAIN t.branches : x \in SpanHandles(t.branches[o].pages)
    <2>1. ASSUME NEW x, NEW h \in H, x \in SpanHandles(h[2])
          PROVE  \E o \in DOMAIN t.branches : x \in SpanHandles(t.branches[o].pages)
      BY <1>1, <2>1
    <2>2. ASSUME NEW x, NEW o \in DOMAIN t.branches, x \in SpanHandles(t.branches[o].pages)
          PROVE  \E h \in H : x \in SpanHandles(h[2])
      <3> DEFINE h == <<BranchOwner(t.epoch, o), t.branches[o].pages>>
      <3>1. h \in H /\ h[2] = t.branches[o].pages
        BY <1>1
      <3> HIDE DEF h
      <3> QED BY <2>2, <3>1
    <2> QED BY <1>2, <2>1, <2>2, Zenon
  <1> QED BY <1>3, Zenon DEF BranchHandles, H

\* The trunk and the branches of one request hold different things.
LEMMA TrunkApart ==
    ASSUME NEW r, NEW q
    PROVE  <<TrunkOwner(r), q.trunk>> \notin TransactionHoldings(q.active)
  BY DEF TransactionHoldings, TrunkOwner, BranchOwner

\* stage: a new branch is leased what it stores.
LEMMA StageSteps ==
    ASSUME NEW R, NEW O, NoTxn \notin Transaction(R, O),
           NEW l, Audited(l, R, O), NEW e, NEW o \in O, NEW appended \in Nat,
           CanStage(l, e, o, appended)
    PROVE  Steps(l, Stage(l, e, o, appended), R, O)
  <1> DEFINE m == Stage(l, e, o, appended)
             r == e.req
             old == l.req[r]
             extent == Extent(old, appended)
             n == PagesFor(extent)
             start == old.blocks - (extent - appended)
             spans == Spans(Leases(l.alloc, n), start, extent)
             branch == [appended |-> appended, pages |-> spans, cow |-> Cow(old, appended)]
             branches == With(old.active.branches, o, branch)
             active == [old.active EXCEPT !.branches = branches]
             q == [old EXCEPT !.active = active]
  <1>1. /\ IsActive(l, e) /\ o \notin DOMAIN old.active.branches
        /\ n <= Cardinality(l.alloc.free)
    BY DEF CanStage, Branches
  <1>2. /\ r \in DOMAIN l.req /\ r \in R
        /\ old \in Request(R, O) /\ Aligned(old)
        /\ old.active # NoTxn /\ old.active \in Transaction(R, O) /\ old.active.epoch = e
        /\ e = Epoch(r, old.round, old.version)
        /\ old.version # 0 /\ l.floor[r] = old.version /\ r \in DOMAIN l.floor
    BY <1>1, ActiveFacts
  <1>3. old.blocks \in Nat /\ old.version \in Nat
    BY <1>2 DEF Request
  <1>4. extent \in Nat /\ start \in Int /\ start + extent = old.blocks + appended
    <2>1. TailUsed(old) \in Nat
      BY <1>3, DivMod DEF TailUsed
    <2> QED BY <1>3, <2>1 DEF Extent
  <1>5. /\ n \in Nat /\ spans \in Seq(Span) /\ Len(spans) = n
        /\ \A i \in 1 .. n : spans[i].handle = Leases(l.alloc, n)[i]
        /\ Covers(spans, start, start + extent)
    <2> HIDE DEF start, extent
    <2> QED BY <1>1, <1>4, SaneLedger, SpansCover
  <1> HIDE DEF n, spans
  <1>6. /\ branch \in Branch /\ branch.appended = appended /\ branch.pages = spans
        /\ branch.cow = Cow(old, appended)
    BY <1>5 DEF Branch, Cow
  <1> HIDE DEF branch
  <1>7. /\ DOMAIN branches = DOMAIN old.active.branches \cup {o}
        /\ branches[o] = branch
        /\ \A x \in DOMAIN old.active.branches : branches[x] = old.active.branches[x]
    BY <1>1 DEF With
  <1>8. /\ branches \in UNION {[S -> Branch] : S \in SUBSET O}
        /\ old.active \in [epoch : {old.active.epoch}, branches : {old.active.branches}]
    <2>1. PICK S \in SUBSET O : old.active.branches \in [S -> Branch]
      BY <1>2 DEF Transaction
    <2>2. S \cup {o} \in SUBSET O
      OBVIOUS
    <2>3. branches \in [S \cup {o} -> Branch]
      BY <1>6, <2>1 DEF With
    <2>4. old.active \in [epoch : {old.active.epoch}, branches : {old.active.branches}]
      BY <1>2 DEF Transaction
    <2> HIDE DEF branches
    <2> QED BY <2>2, <2>3, <2>4
  <1> HIDE DEF branches
  <1>9. /\ active \in Transaction(R, O) /\ active.epoch = e /\ active.branches = branches
        /\ active # NoTxn
    BY <1>2, <1>8 DEF Transaction
  <1>10. /\ q \in Request(R, O) /\ q.active = active /\ q.round = old.round
         /\ q.blocks = old.blocks /\ q.trunk = old.trunk /\ q.version = old.version
    <2> HIDE DEF active
    <2> QED BY <1>2, <1>9 DEF Request
  <1>11. /\ m \in [alloc : {m.alloc}, req : {m.req}, aborted : SUBSET EpochType(R),
                   floor : {m.floor}]
         /\ m.alloc = Allocate(l.alloc, n, BranchOwner(e, o))
         /\ m.req = With(l.req, r, q)
         /\ m.floor = l.floor
         /\ m.aborted = l.aborted
    BY DEF Stage, Audited, TypedLedger, branches, branch, n, spans
  <1> HIDE DEF active, q, m
  <1>12. Aligned(q)
    <2>1. /\ TailUsed(q) = TailUsed(old)
          /\ \A a : Cow(q, a) = Cow(old, a) /\ Extent(q, a) = Extent(old, a)
      BY <1>10 DEF TailUsed, Cow, Extent
    <2>2. ASSUME NEW x \in DOMAIN branches
          PROVE  /\ branches[x].cow = Cow(q, branches[x].appended)
                 /\ Covers(branches[x].pages,
                           q.blocks - (Extent(q, branches[x].appended) - branches[x].appended),
                           q.blocks + branches[x].appended)
      <3>1. CASE x = o
        BY <1>4, <1>5, <1>6, <1>7, <1>10, <2>1, <3>1
      <3>2. CASE x # o
        <4>1. x \in DOMAIN old.active.branches /\ branches[x] = old.active.branches[x]
          BY <1>7, <3>2
        <4> QED BY <1>2, <1>10, <2>1, <4>1 DEF Aligned
      <3> QED BY <3>1, <3>2
    <2>3. Covers(q.trunk, 0, q.blocks)
      BY <1>2, <1>10 DEF Aligned
    <2> QED BY <1>9, <1>10, <2>2, <2>3 DEF Aligned
  <1>13. /\ DOMAIN m.req = DOMAIN l.req /\ m.req[r] = q
         /\ \A x \in DOMAIN l.req \ {r} : m.req[x] = l.req[x]
    BY <1>2, <1>11 DEF With
  <1>14. Custody(m.alloc, Holdings(m))
    <2> DEFINE new == <<BranchOwner(e, o), spans>>
    <2>1. EpochsNamed(l)
      BY RequestFacts DEF EpochsNamed
    <2>2. /\ Holdings(m) = (Holdings(l) \ HoldingsOf(l, r)) \cup HoldingsOf(m, r)
          /\ HoldingsOf(l, r) \subseteq Holdings(l)
      <3>1. OthersSame(l, m, r)
        BY <1>13 DEF OthersSame
      <3>2. HoldingsMoved(l, m, r)
        BY <2>1, <3>1, HoldingsChanged
      <3> QED BY <3>2 DEF HoldingsMoved
    <2>3. TransactionHoldings(active) = TransactionHoldings(old.active) \cup {new}
      <3>1. \A h : h \in TransactionHoldings(active) <=>
                     \E x \in DOMAIN branches : h = <<BranchOwner(e, x), branches[x].pages>>
        BY <1>9 DEF TransactionHoldings
      <3>2. \A h : h \in TransactionHoldings(old.active) <=>
                     \E x \in DOMAIN old.active.branches :
                        h = <<BranchOwner(e, x), old.active.branches[x].pages>>
        BY <1>2 DEF TransactionHoldings
      <3>3. new = <<BranchOwner(e, o), branches[o].pages>>
        BY <1>6, <1>7
      <3>4. \A h : h \in TransactionHoldings(active) <=>
                     h \in TransactionHoldings(old.active) \/ h = new
        <4> HIDE DEF new
        <4> QED BY <1>7, <3>1, <3>2, <3>3
      <3> QED BY <3>4
    <2>4. HoldingsOf(m, r) = HoldingsOf(l, r) \cup {new}
      BY <1>2, <1>10, <1>13, <2>3 DEF HoldingsOf, RequestHoldings
    <2>5. Holdings(m) = Holdings(l) \cup {new}
      BY <2>2, <2>4
    <2>6. ASSUME NEW h \in Holdings(l), h[1] = BranchOwner(e, o)
          PROVE  FALSE
      <3>1. PICK x \in DOMAIN l.req : h \in RequestHoldings(x, l.req[x])
        BY HoldingsAre
      <3>2. PICK t : t = l.req[x].active
        OBVIOUS
      <3>3. h \in TransactionHoldings(t)
        BY <2>6, <3>1, <3>2 DEF RequestHoldings, TrunkOwner, BranchOwner
      <3>4. PICK y \in DOMAIN t.branches : h = <<BranchOwner(t.epoch, y), t.branches[y].pages>>
        BY <3>3 DEF TransactionHoldings
      <3>5. t.epoch = e /\ y = o /\ t # NoTxn
        BY <2>6, <3>3, <3>4 DEF BranchOwner, TransactionHoldings
      <3>6. x = r
        BY <3>2, <3>5, <2>1 DEF EpochsNamed
      <3> QED BY <1>1, <3>2, <3>4, <3>5, <3>6
    <2>7. Custody(Allocate(l.alloc, n, BranchOwner(e, o)), Holdings(l) \cup {new})
      <3>1. \A h \in Holdings(l) : h[1] # BranchOwner(e, o)
        BY <2>6
      <3> QED BY <1>1, <1>5, <3>1, CustodyAllocate DEF Audited
    <2> QED BY <1>11, <2>5, <2>7
  <1>15. \A x \in m.aborted : x.req = r =>
            x.version <= q.version /\ x.round <= q.round /\ q.active.epoch # x
    <2>1. ASSUME NEW x \in l.aborted, x.req = r
          PROVE  x.version <= q.version /\ x.round <= q.round /\ q.active.epoch # x
      <3>1. /\ x.version <= old.version /\ x.round <= old.round
            /\ old.active # NoTxn => old.active.epoch # x
        BY <1>2, <2>1, AbortedFacts
      <3> HIDE DEF old
      <3> QED BY <1>2, <1>9, <1>10, <3>1
    <2> QED BY <1>11, <2>1
  <1>16. Audited(m, R, O)
    <2>1. m.floor = With(l.floor, r, q.version)
      <3>1. l.floor = [x \in DOMAIN l.floor |-> l.floor[x]]
        BY DEF Audited, TypedLedger
      <3> QED BY <1>2, <1>10, <1>11, <3>1, WithSame
    <2>2. q.active # NoTxn => q.active.epoch = Epoch(r, q.round, q.version)
      BY <1>2, <1>9, <1>10
    <2>3. q.version # 0
      BY <1>2, <1>10
    <2>4. \A x \in m.aborted : x.req # r => x \in l.aborted
      BY <1>11
    <2>5. RequestMoves(l, m, r, q, R)
      BY <1>2, <1>10, <1>11, <1>12, <1>14, <1>15, <2>1, <2>2, <2>3, <2>4 DEF RequestMoves
    <2> QED BY <2>5, <1>2, <1>10, RequestChanged
  <1>17. Follows(l.alloc, m.alloc)
    BY <1>1, <1>5, <1>11, SaneLedger, AllocateFollows
  <1>18. PrefixKept(l, m)
    BY <1>10, <1>13, SamePrefixKept
  <1>19. EpochsFresh(l, m)
    <2>1. r \in DOMAIN l.floor => l.floor[r] \in Nat
      BY DEF Audited, TypedLedger
    <2>2. /\ DOMAIN l.floor \subseteq DOMAIN m.floor
          /\ \A x \in DOMAIN l.floor \ {r} : m.floor[x] = l.floor[x]
          /\ r \in DOMAIN l.floor => l.floor[r] <= m.floor[r]
      BY <1>11, <2>1
    <2>3. /\ \A x \in DOMAIN m.req \ {r} : x \in DOMAIN l.req /\ m.req[x] = l.req[x]
          /\ (r \in DOMAIN l.req /\ l.req[r].active # NoTxn
                /\ m.req[r].active.epoch = l.req[r].active.epoch)
      BY <1>2, <1>9, <1>10, <1>13
    <2> QED BY <1>16, <2>2, <2>3, FreshWhen
  <1> QED BY <1>16, <1>17, <1>18, <1>19 DEF Steps, m

\* abort: the branches are released and the epoch is remembered.
LEMMA AbortSteps ==
    ASSUME NEW R, NEW O, NEW l, Audited(l, R, O), NEW e, IsActive(l, e)
    PROVE  Steps(l, Abort(l, e), R, O) /\ ~ IsActive(Abort(l, e), e)
  <1> DEFINE m == Abort(l, e)
             r == e.req
             old == l.req[r]
             q == [old EXCEPT !.active = NoTxn]
             G == TransactionHoldings(old.active)
  <1>1. /\ r \in DOMAIN l.req /\ r \in R
        /\ old \in Request(R, O) /\ Aligned(old)
        /\ old.active # NoTxn /\ e \in EpochType(R)
        /\ e.round = old.round /\ e.version = old.version
        /\ e.round \in Nat /\ e.version \in Nat
        /\ old.version # 0 /\ l.floor[r] = old.version /\ r \in DOMAIN l.floor
        /\ Branches(l, e) = old.active.branches
    BY ActiveFacts
  <1>2. /\ q \in Request(R, O) /\ q.active = NoTxn /\ q.round = old.round
        /\ q.blocks = old.blocks /\ q.trunk = old.trunk /\ q.version = old.version
    BY <1>1 DEF Request
  <1>3. /\ m \in [alloc : {m.alloc}, req : {m.req}, aborted : SUBSET EpochType(R),
                   floor : {m.floor}]
        /\ m.alloc = Release(l.alloc, BranchHandles(old.active.branches))
        /\ m.req = With(l.req, r, q)
        /\ m.floor = l.floor
        /\ m.aborted = l.aborted \cup {e}
    BY <1>1 DEF Abort, Audited, TypedLedger
  <1> HIDE DEF q, m
  <1>4. Aligned(q)
    BY <1>1, <1>2 DEF Aligned
  <1>5. /\ DOMAIN m.req = DOMAIN l.req /\ m.req[r] = q
        /\ \A x \in DOMAIN l.req \ {r} : m.req[x] = l.req[x]
    BY <1>1, <1>3 DEF With
  <1>6. Custody(m.alloc, Holdings(m))
    <2>1. EpochsNamed(l)
      BY RequestFacts DEF EpochsNamed
    <2>2. /\ Holdings(m) = (Holdings(l) \ HoldingsOf(l, r)) \cup HoldingsOf(m, r)
          /\ HoldingsOf(l, r) \subseteq Holdings(l)
      <3>1. OthersSame(l, m, r)
        BY <1>5 DEF OthersSame
      <3>2. HoldingsMoved(l, m, r)
        BY <2>1, <3>1, HoldingsChanged
      <3> QED BY <3>2 DEF HoldingsMoved
    <2>3. HoldingsOf(l, r) = {<<TrunkOwner(r), old.trunk>>} \cup G
      BY <1>1 DEF HoldingsOf, RequestHoldings
    <2>4. HoldingsOf(m, r) = {<<TrunkOwner(r), old.trunk>>}
      BY <1>1, <1>2, <1>5 DEF HoldingsOf, RequestHoldings, TransactionHoldings
    <2>5. <<TrunkOwner(r), old.trunk>> \notin G
      BY TrunkApart
    <2> HIDE DEF G
    <2>6. Holdings(m) = Holdings(l) \ G /\ G \in SUBSET Holdings(l)
      BY <2>2, <2>3, <2>4, <2>5
    <2>7. m.alloc = Release(l.alloc, HandlesOf(G))
      BY <1>1, <1>3, TransactionHandles DEF G
    <2> QED BY <2>6, <2>7, CustodyRelease DEF Audited
  <1>7. \A x \in m.aborted : x.req = r => x.version <= q.version /\ x.round <= q.round
    <2>1. ASSUME NEW x \in l.aborted, x.req = r
          PROVE  x.version <= old.version /\ x.round <= old.round
      BY <1>1, <2>1, AbortedFacts
    <2> HIDE DEF old
    <2>2. e.version <= q.version /\ e.round <= q.round
      BY <1>1, <1>2
    <2> QED BY <1>2, <1>3, <2>1, <2>2
  <1>8. Audited(m, R, O)
    <2>1. m.floor = With(l.floor, r, q.version)
      <3>1. l.floor = [x \in DOMAIN l.floor |-> l.floor[x]]
        BY DEF Audited, TypedLedger
      <3> QED BY <1>1, <1>2, <1>3, <3>1, WithSame
    <2>2. \A x \in m.aborted : x.req # r => x \in l.aborted
      BY <1>3
    <2>3. RequestMoves(l, m, r, q, R)
      BY <1>1, <1>2, <1>3, <1>4, <1>6, <1>7, <2>1, <2>2 DEF RequestMoves
    <2> QED BY <2>3, <1>1, <1>2, RequestChanged
  <1>9. Follows(l.alloc, m.alloc)
    BY <1>3, SaneLedger, ReleaseFollows
  <1>10. PrefixKept(l, m)
    BY <1>2, <1>5, SamePrefixKept
  <1>11. EpochsFresh(l, m)
    <2>1. r \in DOMAIN l.floor => l.floor[r] \in Nat
      BY DEF Audited, TypedLedger
    <2>2. /\ DOMAIN l.floor \subseteq DOMAIN m.floor
          /\ \A x \in DOMAIN l.floor \ {r} : m.floor[x] = l.floor[x]
          /\ r \in DOMAIN l.floor => l.floor[r] <= m.floor[r]
      BY <1>3, <2>1
    <2>3. /\ \A x \in DOMAIN m.req \ {r} : x \in DOMAIN l.req /\ m.req[x] = l.req[x]
          /\ m.req[r].active = NoTxn
      BY <1>2, <1>5
    <2> QED BY <1>8, <2>2, <2>3, FreshWhen
  <1>12. ~ IsActive(m, e)
    BY <1>2, <1>5 DEF IsActive
  <1> QED BY <1>8, <1>9, <1>10, <1>11, <1>12 DEF Steps, m

\* retry: the branches are released, and the transaction opens again, newer.
LEMMA RetrySteps ==
    ASSUME NEW R, NEW O, NoTxn \notin Transaction(R, O),
           NEW l, Audited(l, R, O), NEW e, IsActive(l, e)
    PROVE  Steps(l, Retry(l, e), R, O) /\ ~ IsActive(Retry(l, e), e)
  <1> DEFINE m == Retry(l, e)
             r == e.req
             old == l.req[r]
             version == old.version + 1
             none == [o \in {} |-> 0]
             active == [epoch |-> Epoch(r, old.round, version), branches |-> none]
             q == [old EXCEPT !.version = version, !.active = active]
             G == TransactionHoldings(old.active)
  <1>1. /\ r \in DOMAIN l.req /\ r \in R
        /\ old \in Request(R, O) /\ Aligned(old)
        /\ old.active # NoTxn /\ e \in EpochType(R)
        /\ e.round = old.round /\ e.round \in Nat
        /\ old.version # 0 /\ l.floor[r] = old.version /\ r \in DOMAIN l.floor
        /\ Branches(l, e) = old.active.branches
    BY ActiveFacts
  <1>2. /\ old.version \in Nat /\ version \in Nat /\ old.version < version
        /\ old.round \in Nat
    BY <1>1 DEF Request
  <1>3. none \in [{} -> Branch] /\ DOMAIN none = {}
    OBVIOUS
  <1> HIDE DEF none
  <1>4. active \in Transaction(R, O)
    <2>1. Epoch(r, old.round, version) \in [req : R, round : Nat, version : Nat]
      BY <1>1, <1>2 DEF Epoch
    <2>2. none \in UNION {[S -> Branch] : S \in SUBSET O}
      BY <1>3
    <2> QED BY <2>1, <2>2 DEF Transaction
  <1>5. active # NoTxn /\ active.epoch = Epoch(r, old.round, version) /\ active.branches = none
    BY <1>4
  <1> HIDE DEF active
  <1>6. /\ q \in Request(R, O) /\ q.active = active /\ q.round = old.round
        /\ q.blocks = old.blocks /\ q.trunk = old.trunk /\ q.version = version
    BY <1>1, <1>2, <1>4 DEF Request
  <1>7. /\ m \in [alloc : {m.alloc}, req : {m.req}, aborted : SUBSET EpochType(R),
                  floor : {m.floor}]
        /\ m.alloc = Release(l.alloc, BranchHandles(old.active.branches))
        /\ m.req = With(l.req, r, q)
        /\ m.floor = With(l.floor, r, version)
        /\ m.aborted = l.aborted
    BY <1>1 DEF Retry, Audited, TypedLedger, none, active
  <1> HIDE DEF q, m
  <1>8. Aligned(q)
    BY <1>1, <1>3, <1>5, <1>6 DEF Aligned
  <1>9. /\ DOMAIN m.req = DOMAIN l.req /\ m.req[r] = q
        /\ \A x \in DOMAIN l.req \ {r} : m.req[x] = l.req[x]
    BY <1>1, <1>7 DEF With
  <1>10. Custody(m.alloc, Holdings(m))
    <2>1. EpochsNamed(l)
      BY RequestFacts DEF EpochsNamed
    <2>2. /\ Holdings(m) = (Holdings(l) \ HoldingsOf(l, r)) \cup HoldingsOf(m, r)
          /\ HoldingsOf(l, r) \subseteq Holdings(l)
      <3>1. OthersSame(l, m, r)
        BY <1>9 DEF OthersSame
      <3>2. HoldingsMoved(l, m, r)
        BY <2>1, <3>1, HoldingsChanged
      <3> QED BY <3>2 DEF HoldingsMoved
    <2>3. HoldingsOf(l, r) = {<<TrunkOwner(r), old.trunk>>} \cup G
      BY <1>1 DEF HoldingsOf, RequestHoldings
    <2>4. TransactionHoldings(active) = {}
      BY <1>3, <1>5 DEF TransactionHoldings
    <2>5. HoldingsOf(m, r) = {<<TrunkOwner(r), old.trunk>>}
      BY <1>1, <1>6, <1>9, <2>4 DEF HoldingsOf, RequestHoldings
    <2>6. <<TrunkOwner(r), old.trunk>> \notin G
      BY TrunkApart
    <2> HIDE DEF G
    <2>7. Holdings(m) = Holdings(l) \ G /\ G \in SUBSET Holdings(l)
      BY <2>2, <2>3, <2>5, <2>6
    <2>8. m.alloc = Release(l.alloc, HandlesOf(G))
      BY <1>1, <1>7, TransactionHandles DEF G
    <2> QED BY <2>7, <2>8, CustodyRelease DEF Audited
  <1>11. \A x \in m.aborted : x.req = r =>
            /\ x.version <= q.version
            /\ x.round <= q.round
            /\ q.active.epoch # x
    <2>1. ASSUME NEW x \in l.aborted, x.req = r
          PROVE  x.version <= q.version /\ x.round <= q.round /\ q.active.epoch # x
      <3>1. x.version \in Nat /\ x.version <= old.version /\ x.round <= old.round
        BY <1>1, <2>1, AbortedFacts
      <3>2. q.active.epoch.version = version
        BY <1>5, <1>6 DEF Epoch
      <3> HIDE DEF old
      <3> QED BY <1>2, <1>6, <3>1, <3>2
    <2> QED BY <1>7, <2>1
  <1>12. Audited(m, R, O)
    <2>1. q.version # 0
      BY <1>2, <1>6
    <2>2. RequestMoves(l, m, r, q, R)
      BY <1>1, <1>5, <1>6, <1>7, <1>8, <1>10, <1>11, <2>1 DEF RequestMoves
    <2> QED BY <2>2, <1>1, <1>6, RequestChanged
  <1>13. Follows(l.alloc, m.alloc)
    BY <1>7, SaneLedger, ReleaseFollows
  <1>14. PrefixKept(l, m)
    BY <1>6, <1>9, SamePrefixKept
  <1>15. EpochsFresh(l, m)
    <2>1. r \in DOMAIN l.floor => l.floor[r] \in Nat
      BY DEF Audited, TypedLedger
    <2>2. /\ DOMAIN l.floor \subseteq DOMAIN m.floor
          /\ \A x \in DOMAIN l.floor \ {r} : m.floor[x] = l.floor[x]
          /\ r \in DOMAIN l.floor => l.floor[r] <= m.floor[r]
      <3>1. /\ DOMAIN m.floor = DOMAIN l.floor \cup {r} /\ m.floor[r] = version
            /\ \A x \in DOMAIN l.floor \ {r} : m.floor[x] = l.floor[x]
        BY <1>7 DEF With
      <3> QED BY <1>1, <1>2, <2>1, <3>1
    <2>3. /\ \A x \in DOMAIN m.req \ {r} : x \in DOMAIN l.req /\ m.req[x] = l.req[x]
          /\ r \in DOMAIN l.floor => l.floor[r] < m.req[r].version
      BY <1>1, <1>2, <1>6, <1>9
    <2> QED BY <1>12, <2>2, <2>3, FreshWhen
  <1>16. ~ IsActive(m, e)
    <2>1. e.version = old.version
      BY ActiveFacts
    <2>2. m.req[r].active.epoch.version = version
      BY <1>5, <1>6, <1>9 DEF Epoch
    <2>3. m.req[r].active.epoch # e
      BY <1>2, <2>1, <2>2
    <2> QED BY <2>3 DEF IsActive
  <1> QED BY <1>12, <1>13, <1>14, <1>15, <1>16 DEF Steps, m

\* drop: everything the request holds is released; its floor stays.
LEMMA DropSteps ==
    ASSUME NEW R, NEW O, NEW l, Audited(l, R, O), NEW r, CanDrop(l, r)
    PROVE  Steps(l, Drop(l, r), R, O)
  <1> DEFINE m == Drop(l, r)
             old == l.req[r]
             G == RequestHoldings(r, old)
             handles == SpanHandles(old.trunk) \cup
                            IF old.active = NoTxn THEN {} ELSE BranchHandles(old.active.branches)
  <1>1. r \in DOMAIN l.req
    BY DEF CanDrop
  <1>2. /\ m \in [alloc : {m.alloc}, req : {m.req}, aborted : SUBSET EpochType(R),
                  floor : {m.floor}]
        /\ m.alloc = Release(l.alloc, handles)
        /\ m.req = [x \in DOMAIN l.req \ {r} |-> l.req[x]]
        /\ m.floor = l.floor
        /\ m.aborted = {e \in l.aborted : e.req # r}
    BY DEF Drop, Audited, TypedLedger, Without, FloorsAfterDrop
  <1> HIDE DEF m
  <1>3. DOMAIN m.req = DOMAIN l.req \ {r} /\ \A x \in DOMAIN m.req : m.req[x] = l.req[x]
    BY <1>2
  <1>4. HandlesOf(G) = handles
    <2>1. \A x : x \in HandlesOf(G) <=> \E h \in G : x \in SpanHandles(h[2])
      BY DEF HandlesOf
    <2>2. \A x : x \in HandlesOf(TransactionHoldings(old.active)) <=>
                    \E h \in TransactionHoldings(old.active) : x \in SpanHandles(h[2])
      BY DEF HandlesOf
    <2>3. \A x : x \in HandlesOf(G) <=>
                    \/ x \in SpanHandles(old.trunk)
                    \/ x \in HandlesOf(TransactionHoldings(old.active))
      <3>1. \A h : h \in G <=>
                      h = <<TrunkOwner(r), old.trunk>> \/ h \in TransactionHoldings(old.active)
        BY DEF RequestHoldings
      <3>2. PICK trunk : trunk = <<TrunkOwner(r), old.trunk>>
        OBVIOUS
      <3>3. trunk[2] = old.trunk
        BY <3>2
      <3>4. \A h : h \in G <=> h = trunk \/ h \in TransactionHoldings(old.active)
        BY <3>1, <3>2
      <3> HIDE DEF G
      <3> QED BY <2>1, <2>2, <3>3, <3>4
    <2>4. CASE old.active = NoTxn
      <3>1. HandlesOf(TransactionHoldings(old.active)) = {}
        BY <2>4 DEF HandlesOf, TransactionHoldings
      <3> QED BY <2>3, <2>4, <3>1
    <2>5. CASE old.active # NoTxn
      <3>1. HandlesOf(TransactionHoldings(old.active)) = BranchHandles(old.active.branches)
        BY <2>5, TransactionHandles
      <3> HIDE DEF G
      <3> QED BY <2>3, <2>5, <3>1
    <2> QED BY <2>4, <2>5
  <1> HIDE DEF G, handles
  <1>5. Custody(m.alloc, Holdings(m))
    <2>1. EpochsNamed(l)
      BY RequestFacts DEF EpochsNamed
    <2>2. /\ Holdings(m) = (Holdings(l) \ HoldingsOf(l, r)) \cup HoldingsOf(m, r)
          /\ HoldingsOf(l, r) \subseteq Holdings(l)
      <3>1. OthersSame(l, m, r)
        BY <1>3 DEF OthersSame
      <3>2. HoldingsMoved(l, m, r)
        BY <2>1, <3>1, HoldingsChanged
      <3> QED BY <3>2 DEF HoldingsMoved
    <2>3. HoldingsOf(l, r) = G /\ HoldingsOf(m, r) = {}
      BY <1>1, <1>3 DEF HoldingsOf, G
    <2>4. Holdings(m) = Holdings(l) \ G /\ G \in SUBSET Holdings(l)
      BY <2>2, <2>3
    <2> QED BY <1>2, <1>4, <2>4, CustodyRelease DEF Audited
  <1>6. TypedLedger(m, R, O)
    BY <1>2, <1>3 DEF Audited, TypedLedger
  <1>7. EpochsConsistent(m)
    <2>1. \A x \in DOMAIN m.req :
          /\ x \in DOMAIN m.floor /\ m.floor[x] = m.req[x].version
          /\ m.req[x].version = 0 => m.req[x].round = -1
          /\ m.req[x].active # NoTxn =>
                m.req[x].active.epoch = Epoch(x, m.req[x].round, m.req[x].version)
      BY <1>2, <1>3, RequestFacts
    <2>2. \A e \in m.aborted : e.req \in DOMAIN m.req =>
             /\ e.version <= m.req[e.req].version
             /\ e.round <= m.req[e.req].round
             /\ ~ IsActive(m, e)
      BY <1>2, <1>3 DEF IsActive, Audited, EpochsConsistent
    <2> QED BY <2>1, <2>2 DEF EpochsConsistent
  <1>8. Audited(m, R, O)
    BY <1>2, <1>3, <1>5, <1>6, <1>7 DEF Audited
  <1>9. Follows(l.alloc, m.alloc)
    BY <1>2, SaneLedger, ReleaseFollows
  <1>10. PrefixKept(l, m)
    BY <1>3, SamePrefixKept
  <1>11. EpochsFresh(l, m)
    <2>1. r \in DOMAIN l.floor => l.floor[r] \in Nat
      BY DEF Audited, TypedLedger
    <2>2. /\ DOMAIN l.floor \subseteq DOMAIN m.floor
          /\ \A x \in DOMAIN l.floor \ {r} : m.floor[x] = l.floor[x]
          /\ r \in DOMAIN l.floor => l.floor[r] <= m.floor[r]
      BY <1>2, <2>1
    <2>3. /\ \A x \in DOMAIN m.req \ {r} : x \in DOMAIN l.req /\ m.req[x] = l.req[x]
          /\ r \notin DOMAIN m.req
      BY <1>3
    <2> QED BY <1>8, <2>2, <2>3, FreshWhen
  <1> QED BY <1>8, <1>9, <1>10, <1>11 DEF Steps, m

\* What a commit keeps of a branch and of the trunk, and the trunk afterwards.
KeptPages(q, branch, accepted) ==
    IF accepted = 0 THEN <<>> ELSE AcceptedPages(branch, q.blocks + accepted)

KeptTrunk(q, branch, accepted) == Len(q.trunk) - ReplacedTail(q, branch, accepted)

TrunkAfter(q, branch, accepted) ==
    SubSeq(q.trunk, 1, KeptTrunk(q, branch, accepted)) \o KeptPages(q, branch, accepted)

\* A sequence of spans that is the front of trunk followed by keep.
Splices(spans, trunk, stays, keep) ==
    /\ trunk \in Seq(Span) /\ keep \in Seq(Span) /\ spans \in Seq(Span)
    /\ stays \in Nat /\ stays <= Len(trunk)
    /\ Len(spans) = stays + Len(keep)
    /\ \A i \in 1 .. stays : spans[i] = trunk[i]
    /\ \A i \in 1 .. Len(keep) : spans[stays + i] = keep[i]

\* What spans, the trunk after a commit of branch, is to the request q before.
Committed(q, branch, keep, stays, spans, blocks) ==
    /\ branch \in Branch
    /\ Len(keep) <= Len(branch.pages)
    /\ \A i \in 1 .. Len(keep) : keep[i].handle = branch.pages[i].handle
    /\ Splices(spans, q.trunk, stays, keep)
    /\ \A i \in 1 .. Len(q.trunk) : q.trunk[i].used = PageSize => i <= stays
    /\ Covers(spans, 0, blocks)

\* The spans of the trunk after a commit: its full pages stay where they are,
\* and the kept pages of the branch cover what follows them.
LEMMA CommitSpans ==
    ASSUME NEW R, NEW O, NEW old \in Request(R, O), Aligned(old), old.active # NoTxn,
           old.active \in Transaction(R, O),
           NEW o \in DOMAIN old.active.branches,
           NEW accepted \in Nat, accepted <= old.active.branches[o].appended
    PROVE  Committed(old, old.active.branches[o],
                     KeptPages(old, old.active.branches[o], accepted),
                     KeptTrunk(old, old.active.branches[o], accepted),
                     TrunkAfter(old, old.active.branches[o], accepted), old.blocks + accepted)
  <1> DEFINE branch == old.active.branches[o]
             b == old.blocks
             trunk == old.trunk
             keep == IF accepted = 0 THEN <<>> ELSE AcceptedPages(branch, b + accepted)
             stays == Len(trunk) - ReplacedTail(old, branch, accepted)
             spans == SubSeq(trunk, 1, stays) \o keep
             k == b \div PageSize
             tail == b % PageSize
  <1> USE DEF KeptPages, KeptTrunk, TrunkAfter
  <1>1. /\ b \in Nat /\ trunk \in Seq(Span) /\ Len(trunk) \in Nat
        /\ Covers(trunk, 0, b)
    BY DEF Request, Aligned
  <1>2. branch \in Branch
    BY DEF Transaction
  <1>3. branch.appended \in Nat /\ branch.pages \in Seq(Span) /\ Len(branch.pages) \in Nat
    BY <1>2 DEF Branch
  <1>4. /\ branch.cow = Cow(old, branch.appended)
        /\ Covers(branch.pages, b - (Extent(old, branch.appended) - branch.appended),
                  b + branch.appended)
    BY DEF Aligned
  <1>5. /\ k \in Nat /\ tail \in Nat /\ tail < PageSize
        /\ b = k * PageSize + tail /\ k * PageSize \in Nat
    <2>1. /\ k \in Nat /\ tail \in Nat /\ tail < PageSize
          /\ b = k * PageSize + tail
      <3> HIDE DEF b
      <3> QED BY <1>1, DivMod
    <2> HIDE DEF k, tail
    <2>2. k * PageSize \in Nat
      BY <2>1, PageSizeAssumption
    <2> QED BY <2>1, <2>2
  <1> HIDE DEF k
  <1>6. Len(trunk) = IF tail > 0 THEN k + 1 ELSE k
    <2>1. b - 0 = b
      BY <1>1
    <2>2. Len(trunk) = PagesFor(b)
      BY <1>1, <2>1 DEF Covers
    <2>3. (k + 1) * PageSize = k * PageSize + PageSize
      BY <1>5, PageSizeAssumption
    <2> HIDE DEF tail
    <2>4. CASE tail > 0
      <3>1. b <= (k + 1) * PageSize /\ (k + 1) * PageSize < b + PageSize
        BY <1>5, <2>3, <2>4, PageSizeAssumption
      <3>2. k + 1 = PagesFor(b)
        BY <1>1, <1>5, <3>1, PagesForIs
      <3> QED BY <2>2, <2>4, <3>2
    <2>5. CASE ~ (tail > 0)
      <3>1. b <= k * PageSize /\ k * PageSize < b + PageSize
        BY <1>5, <2>5, PageSizeAssumption
      <3>2. k = PagesFor(b)
        BY <1>1, <1>5, <3>1, PagesForIs
      <3> QED BY <2>2, <2>5, <3>2
    <2> QED BY <2>4, <2>5
  <1>7. ASSUME NEW i \in 1 .. Len(trunk), trunk[i].used = PageSize
        PROVE  i <= k
    <2>1. i \in Int /\ (i - 1) * PageSize \in Int /\ i * PageSize \in Int
          /\ i * PageSize = (i - 1) * PageSize + PageSize
      BY <1>1, PageSizeAssumption
    <2>2. trunk[i].used = Least(PageSize, b - trunk[i].start)
          /\ trunk[i].start = 0 + (i - 1) * PageSize
      BY <1>1 DEF Covers
    <2>3. PageSize <= b - (i - 1) * PageSize
      <3>1. trunk[i].start = (i - 1) * PageSize
        BY <2>1, <2>2
      <3>2. b - (i - 1) * PageSize \in Int
        BY <1>1, <2>1
      <3> QED BY <1>7, <2>2, <3>1, <3>2, PageSizeAssumption DEF Least
    <2>4. i * PageSize <= b
      BY <1>1, <2>1, <2>3, PageSizeAssumption
    <2>5. ~ (k < i)
      <3>1. k < i => k * PageSize + PageSize <= i * PageSize
        BY <1>5, <2>1, MultiplesApart
      <3> HIDE DEF tail
      <3> QED BY <1>5, <2>1, <2>4, <3>1, PageSizeAssumption
    <2> QED BY <1>5, <2>1, <2>5
  <1>8. CASE accepted = 0
    <2>1. keep = <<>> /\ stays = Len(trunk)
      BY <1>1, <1>8 DEF ReplacedTail
    <2>2. spans = trunk
      <3>1. SubSeq(trunk, 1, Len(trunk)) = trunk
        BY <1>1, SubSeqFull
      <3>2. trunk \o <<>> = trunk
        BY <1>1, ConcatEmptySeq
      <3> HIDE DEF keep, stays
      <3> QED BY <2>1, <3>1, <3>2
    <2>3. b + accepted = b
      BY <1>1, <1>8
    <2> HIDE DEF keep, stays, spans
    <2>4. keep \in Seq(Span) /\ Len(keep) = 0
      BY <2>1, EmptySeq
    <2> HIDE DEF trunk, b, branch
    <2>5. /\ Len(keep) <= Len(branch.pages)
          /\ \A i \in 1 .. Len(keep) : keep[i].handle = branch.pages[i].handle
          /\ \A i \in 1 .. Len(keep) : spans[stays + i] = keep[i]
      BY <1>3, <2>4
    <2>6. stays \in Nat /\ stays <= Len(trunk)
      BY <1>1, <2>1
    <2>7. /\ \A i \in 1 .. Len(trunk) : trunk[i].used = PageSize => i <= stays
          /\ \A i \in 1 .. stays : spans[i] = trunk[i]
      BY <1>1, <2>1, <2>2
    <2>8. /\ spans \in Seq(Span) /\ Len(spans) = stays + Len(keep)
          /\ Covers(spans, 0, b + accepted)
      BY <1>1, <2>1, <2>2, <2>3, <2>4
    <2>9. Splices(spans, trunk, stays, keep)
      BY <1>1, <2>4, <2>5, <2>6, <2>7, <2>8 DEF Splices
    <2> QED BY <1>2, <2>5, <2>7, <2>8, <2>9
            DEF Committed, keep, stays, spans, trunk, b, branch
  <1>9. CASE accepted # 0
    <2>1. keep = AcceptedPages(branch, b + accepted)
      BY <1>9
    <2>2. branch.cow <=> tail > 0
      <3>1. branch.appended > 0
        BY <1>3, <1>9
      <3>2. Cow(old, branch.appended) <=> tail > 0
        BY <3>1 DEF Cow, TailUsed
      <3> HIDE DEF branch, tail
      <3> QED BY <1>4, <3>2
    <2>3. stays = k
      BY <1>5, <1>6, <1>9, <2>2 DEF ReplacedTail
    <2>4. b - (Extent(old, branch.appended) - branch.appended) = k * PageSize
      <3>1. Cow(old, branch.appended) <=> tail > 0
        BY <1>3, <1>9 DEF Cow, TailUsed
      <3>2. TailUsed(old) = tail
        BY DEF TailUsed
      <3>3. Extent(old, branch.appended) - branch.appended = tail
        <4> HIDE DEF tail
        <4> QED BY <1>3, <1>5, <3>1, <3>2 DEF Extent
      <3> HIDE DEF tail
      <3> QED BY <1>1, <1>5, <3>3
    <2>5. Covers(branch.pages, k * PageSize, b + branch.appended)
      BY <1>4, <2>4
    <2>6. /\ keep \in Seq(Span)
          /\ Covers(keep, k * PageSize, b + accepted)
          /\ Len(keep) <= Len(branch.pages)
          /\ \A i \in 1 .. Len(keep) : keep[i].handle = branch.pages[i].handle
      <3>1. k * PageSize \in Int /\ b + branch.appended \in Int /\ b + accepted \in Int
        BY <1>1, <1>3, <1>5
      <3>2. k * PageSize <= b + accepted /\ b + accepted <= b + branch.appended
        <4>1. accepted <= branch.appended
          OBVIOUS
        <4>2. b \in Nat /\ k * PageSize \in Nat /\ tail \in Nat /\ b = k * PageSize + tail
          BY <1>1, <1>5
        <4>3. branch.appended \in Nat
          BY <1>3
        <4> HIDE DEF branch, b, trunk, keep, stays, spans, tail
        <4> QED BY <4>1, <4>2, <4>3
      <3> HIDE DEF branch, keep
      <3> QED BY <1>3, <2>1, <2>5, <3>1, <3>2, AcceptedCovers
    <2>7. /\ k * PageSize <= b /\ k <= Len(trunk)
          /\ b + accepted \in Nat /\ b <= b + accepted
      <3> HIDE DEF tail
      <3> QED BY <1>1, <1>5, <1>6
    <2> HIDE DEF keep, stays, trunk, b, branch
    <2>8. LET joined == SubSeq(trunk, 1, k) \o keep
          IN  /\ joined \in Seq(Span)
              /\ Len(joined) = k + Len(keep)
              /\ \A i \in 1 .. k : joined[i] = trunk[i]
              /\ \A i \in 1 .. Len(keep) : joined[k + i] = keep[i]
              /\ Covers(joined, 0, b + accepted)
      BY <1>1, <1>5, <2>6, <2>7, ConcatCovers
    <2>9. /\ spans \in Seq(Span)
          /\ Len(spans) = stays + Len(keep)
          /\ \A i \in 1 .. stays : spans[i] = trunk[i]
          /\ \A i \in 1 .. Len(keep) : spans[stays + i] = keep[i]
          /\ Covers(spans, 0, b + accepted)
      BY <2>3, <2>8
    <2>10. \A i \in 1 .. Len(trunk) : trunk[i].used = PageSize => i <= stays
      BY <1>7, <2>3
    <2>11. stays \in Nat /\ stays <= Len(trunk)
      BY <1>5, <2>3, <2>7
    <2> HIDE DEF spans
    <2>12. Splices(spans, trunk, stays, keep)
      BY <1>1, <2>6, <2>9, <2>11 DEF Splices
    <2> QED BY <1>2, <2>6, <2>9, <2>10, <2>12
            DEF Committed, keep, stays, trunk, b, branch, spans
  <1> QED BY <1>8, <1>9

\* What is left of a sequence after its first k elements.
LEMMA RestIs ==
    ASSUME NEW s \in Seq(Span), NEW k \in Nat, k <= Len(s)
    PROVE  /\ Len(SubSeq(s, k + 1, Len(s))) = Len(s) - k
           /\ \A i \in 1 .. Len(s) - k : SubSeq(s, k + 1, Len(s))[i] = s[k + i]
  <1>1. Len(s) \in Nat /\ \A i \in k + 1 .. Len(s) : s[i] \in Span
    OBVIOUS
  <1>2. /\ Len(SubSeq(s, k + 1, Len(s))) = IF k + 1 <= Len(s) THEN Len(s) - (k + 1) + 1 ELSE 0
        /\ \A i \in 1 .. Len(s) - (k + 1) + 1 :
              SubSeq(s, k + 1, Len(s))[i] = s[(k + 1) + i - 1]
    BY <1>1, SubSeqProperties
  <1>3. /\ Len(s) - (k + 1) + 1 = Len(s) - k
        /\ \A i \in 1 .. Len(s) - k : (k + 1) + i - 1 = k + i
        /\ k + 1 <= Len(s) \/ Len(s) - k = 0
    BY <1>1
  <1> QED BY <1>2, <1>3

\* commit: the kept pages of one branch take the place of the trunk's partial
\* tail, and everything else of the transaction is released.
HandlesApart(spans) ==
    \A i, j \in 1 .. Len(spans) : spans[i].handle = spans[j].handle => i = j

\* Where the entries of a splice come from.
LEMMA SpliceEntries ==
    ASSUME NEW spans, NEW trunk, NEW stays, NEW keep, Splices(spans, trunk, stays, keep)
    PROVE  /\ Len(trunk) \in Nat /\ Len(keep) \in Nat /\ Len(spans) \in Nat /\ stays \in Nat
           /\ \A i \in 1 .. stays : i \in 1 .. Len(trunk) /\ i \in 1 .. Len(spans)
           /\ \A i \in 1 .. Len(keep) : stays + i \in 1 .. Len(spans)
           /\ \A i \in 1 .. Len(spans) :
                 i \notin 1 .. stays => i - stays \in 1 .. Len(keep) /\ spans[i] = keep[i - stays]
  <1>1. /\ Len(trunk) \in Nat /\ Len(keep) \in Nat /\ Len(spans) \in Nat /\ stays \in Nat
        /\ stays <= Len(trunk) /\ Len(spans) = stays + Len(keep)
    BY DEF Splices
  <1>2. /\ \A i \in 1 .. stays : i \in 1 .. Len(trunk) /\ i \in 1 .. Len(spans)
        /\ \A i \in 1 .. Len(keep) : stays + i \in 1 .. Len(spans)
        /\ \A i \in 1 .. Len(spans) :
              i \notin 1 .. stays => i - stays \in 1 .. Len(keep) /\ stays + (i - stays) = i
    BY <1>1
  <1>3. \A i \in 1 .. Len(keep) : spans[stays + i] = keep[i]
    BY DEF Splices
  <1> QED BY <1>1, <1>2, <1>3

\* With the entries that are left out, nothing is lost and nothing doubled.
LEMMA SpliceHandles ==
    ASSUME NEW spans, NEW trunk, NEW stays, NEW keep, Splices(spans, trunk, stays, keep),
           NEW rest, Len(rest) = Len(trunk) - stays,
           \A i \in 1 .. Len(trunk) - stays : rest[i] = trunk[stays + i],
           HandlesApart(trunk), HandlesApart(keep),
           SpanHandles(trunk) \cap SpanHandles(keep) = {}
    PROVE  /\ HandlesApart(spans)
           /\ SpanHandles(keep) \subseteq SpanHandles(spans)
           /\ SpanHandles(spans) \ SpanHandles(keep) \subseteq SpanHandles(trunk)
           /\ SpanHandles(spans) \cup SpanHandles(rest) = SpanHandles(trunk) \cup SpanHandles(keep)
           /\ SpanHandles(spans) \cap SpanHandles(rest) = {}
           /\ SpanHandles(rest) \subseteq SpanHandles(trunk)
  <1> DEFINE P == {trunk[i].handle : i \in 1 .. stays}
             T == SpanHandles(trunk)
             K == SpanHandles(keep)
             S == SpanHandles(rest)
  <1>1. /\ Len(trunk) \in Nat /\ Len(keep) \in Nat /\ Len(spans) \in Nat /\ stays \in Nat
        /\ \A i \in 1 .. stays : i \in 1 .. Len(trunk) /\ i \in 1 .. Len(spans)
        /\ \A i \in 1 .. Len(keep) : stays + i \in 1 .. Len(spans)
        /\ \A i \in 1 .. Len(spans) :
              i \notin 1 .. stays => i - stays \in 1 .. Len(keep) /\ spans[i] = keep[i - stays]
    BY SpliceEntries
  <1>2. /\ \A i \in 1 .. stays : spans[i] = trunk[i]
        /\ \A i \in 1 .. Len(keep) : spans[stays + i] = keep[i]
        /\ stays <= Len(trunk)
    BY DEF Splices
  <1>3. \A x : x \in S <=> \E i \in 1 .. Len(trunk) - stays : x = trunk[stays + i].handle
    BY DEF SpanHandles
  <1>4. /\ \A i \in 1 .. Len(trunk) - stays :
              stays + i \in 1 .. Len(trunk) /\ stays + i \notin 1 .. stays
        /\ \A i \in 1 .. Len(trunk) :
              i \notin 1 .. stays => /\ i - stays \in 1 .. Len(trunk) - stays
                                     /\ stays + (i - stays) = i
    BY <1>1, <1>2
  <1>5. P \subseteq T
    BY <1>1 DEF SpanHandles
  <1>6. S \subseteq T
    BY <1>3, <1>4 DEF SpanHandles
  <1>7. P \cap S = {}
    <2> SUFFICES ASSUME NEW i \in 1 .. stays, NEW j \in 1 .. Len(trunk) - stays,
                        trunk[i].handle = trunk[stays + j].handle
                 PROVE  FALSE
      BY <1>3
    <2>1. i \in 1 .. Len(trunk) /\ stays + j \in 1 .. Len(trunk) /\ stays + j # i
      BY <1>1, <1>4
    <2> QED BY <2>1 DEF HandlesApart
  <1>8. T \subseteq P \cup S
    <2>1. ASSUME NEW i \in 1 .. Len(trunk) PROVE trunk[i].handle \in P \cup S
      <3>1. CASE i \in 1 .. stays
        BY <3>1
      <3>2. CASE i \notin 1 .. stays
        BY <1>3, <1>4, <3>2
      <3> QED BY <3>1, <3>2
    <2> QED BY <2>1 DEF SpanHandles
  <1>9. SpanHandles(spans) = P \cup K
    <2>1. ASSUME NEW i \in 1 .. Len(spans) PROVE spans[i].handle \in P \cup K
      BY <1>1, <1>2 DEF SpanHandles
    <2>2. SpanHandles(spans) \subseteq P \cup K
      BY <2>1 DEF SpanHandles
    <2>3. P \subseteq SpanHandles(spans)
      BY <1>1, <1>2 DEF SpanHandles
    <2>4. K \subseteq SpanHandles(spans)
      <3>1. \A i \in 1 .. Len(keep) : keep[i].handle \in SpanHandles(spans)
        <4>1. \A i \in 1 .. Len(keep) :
                 stays + i \in 1 .. Len(spans) /\ keep[i].handle = spans[stays + i].handle
          BY <1>1, <1>2
        <4> QED BY <4>1 DEF SpanHandles
      <3> QED BY <3>1 DEF SpanHandles
    <2> HIDE DEF P, K
    <2> QED BY <2>2, <2>3, <2>4
  <1>10. ASSUME NEW i \in 1 .. Len(spans), NEW j \in 1 .. Len(spans),
                spans[i].handle = spans[j].handle
         PROVE  i = j
    <2>1. \A a \in 1 .. stays, b \in 1 .. Len(keep) : trunk[a].handle # keep[b].handle
      <3>1. \A b \in 1 .. Len(keep) : keep[b].handle \in K
        BY DEF SpanHandles
      <3>2. \A a \in 1 .. stays : trunk[a].handle \in T
        BY <1>1 DEF SpanHandles
      <3> HIDE DEF T, K
      <3> QED BY <3>1, <3>2 DEF T, K
    <2>2. \A x \in 1 .. Len(spans) :
             \/ x \in 1 .. stays /\ spans[x] = trunk[x] /\ x \in 1 .. Len(trunk)
             \/ x \notin 1 .. stays /\ x - stays \in 1 .. Len(keep) /\ spans[x] = keep[x - stays]
      BY <1>1, <1>2
    <2>3. CASE i \in 1 .. stays /\ j \in 1 .. stays
      <3>1. /\ i \in 1 .. Len(trunk) /\ j \in 1 .. Len(trunk)
            /\ trunk[i].handle = trunk[j].handle
        BY <1>10, <2>2, <2>3
      <3> QED BY <3>1 DEF HandlesApart
    <2>4. CASE i \notin 1 .. stays /\ j \notin 1 .. stays
      <3>1. /\ i - stays \in 1 .. Len(keep) /\ j - stays \in 1 .. Len(keep)
            /\ keep[i - stays].handle = keep[j - stays].handle
        BY <1>10, <2>2, <2>4
      <3>2. i - stays = j - stays
        BY <3>1 DEF HandlesApart
      <3> QED BY <1>1, <3>2
    <2>5. CASE i \in 1 .. stays /\ j \notin 1 .. stays
      <3>1. j - stays \in 1 .. Len(keep) /\ trunk[i].handle = keep[j - stays].handle
        BY <1>10, <2>2, <2>5
      <3> QED BY <2>1, <2>5, <3>1
    <2>6. CASE i \notin 1 .. stays /\ j \in 1 .. stays
      <3>1. i - stays \in 1 .. Len(keep) /\ trunk[j].handle = keep[i - stays].handle
        BY <1>10, <2>2, <2>6
      <3> QED BY <2>1, <2>6, <3>1
    <2> QED BY <2>3, <2>4, <2>5, <2>6
  <1> HIDE DEF P, T, K, S
  <1>11. HandlesApart(spans)
    BY <1>10 DEF HandlesApart
  <1>12. T \cap K = {}
    BY DEF T, K
  <1>13. /\ K \subseteq P \cup K /\ (P \cup K) \ K \subseteq T
         /\ (P \cup K) \cup S = T \cup K /\ (P \cup K) \cap S = {}
    BY <1>5, <1>6, <1>7, <1>8, <1>12
  <1> QED BY <1>6, <1>9, <1>11, <1>13 DEF T, K, S

LEMMA CommitSteps ==
    ASSUME NEW R, NEW O, NEW l, Audited(l, R, O), NEW e, NEW o,
           NEW accepted \in Nat, CanCommit(l, e, o, accepted)
    PROVE  Steps(l, Commit(l, e, o, accepted), R, O) /\ ~ IsActive(Commit(l, e, o, accepted), e)
  <1> DEFINE m == Commit(l, e, o, accepted)
             r == e.req
             old == l.req[r]
             branch == old.active.branches[o]
             keep == KeptPages(old, branch, accepted)
             stays == KeptTrunk(old, branch, accepted)
             replaced == SubSeq(old.trunk, stays + 1, Len(old.trunk))
             spans == TrunkAfter(old, branch, accepted)
             released == ReleasedByCommit(l, e, keep, replaced)
             blocks == old.blocks + accepted
             q == [old EXCEPT !.trunk = spans, !.blocks = blocks, !.active = NoTxn]
             t == <<TrunkOwner(r), old.trunk>>
             u == <<BranchOwner(e, o), branch.pages>>
             G == TransactionHoldings(old.active)
             H == Holdings(l)
             BH == BranchHandles(old.active.branches)
             T == SpanHandles(old.trunk)
             K == SpanHandles(keep)
             S == SpanHandles(replaced)
  <1>1. /\ r \in DOMAIN l.req /\ r \in R
        /\ old \in Request(R, O) /\ Aligned(old)
        /\ old.active # NoTxn /\ old.active \in Transaction(R, O) /\ old.active.epoch = e
        /\ e.round = old.round /\ e.version = old.version
        /\ old.version # 0 /\ l.floor[r] = old.version /\ r \in DOMAIN l.floor
        /\ Branches(l, e) = old.active.branches
    BY ActiveFacts DEF CanCommit
  <1>2. o \in DOMAIN old.active.branches /\ accepted <= branch.appended
    BY <1>1 DEF CanCommit
  <1>3. /\ keep \in Seq(Span)
        /\ Len(keep) <= Len(branch.pages)
        /\ \A i \in 1 .. Len(keep) : keep[i].handle = branch.pages[i].handle
        /\ stays \in Nat /\ stays <= Len(old.trunk)
        /\ \A i \in 1 .. Len(old.trunk) : old.trunk[i].used = PageSize => i <= stays
        /\ spans \in Seq(Span)
        /\ Len(spans) = stays + Len(keep)
        /\ \A i \in 1 .. stays : spans[i] = old.trunk[i]
        /\ \A i \in 1 .. Len(keep) : spans[stays + i] = keep[i]
        /\ Covers(spans, 0, blocks)
        /\ branch \in Branch
    <2>1. /\ old \in Request(R, O) /\ Aligned(old) /\ old.active # NoTxn
          /\ old.active \in Transaction(R, O)
          /\ o \in DOMAIN old.active.branches
          /\ accepted <= old.active.branches[o].appended
      BY <1>1, <1>2
    <2>2. Committed(old, branch, keep, stays, spans, blocks)
      <3> HIDE DEF old
      <3> QED BY <2>1, CommitSpans
    <2> HIDE DEF old, branch, keep, stays, spans, blocks
    <2> QED BY <2>2 DEF Committed, Splices
  <1> HIDE DEF keep, stays, spans
  <1>4. /\ old.blocks \in Nat /\ blocks \in Nat /\ old.blocks <= blocks
        /\ old.trunk \in Seq(Span) /\ Len(old.trunk) \in Nat /\ Len(keep) \in Nat
        /\ branch.pages \in Seq(Span) /\ Len(branch.pages) \in Nat
    <2>1. old.blocks \in Nat /\ old.trunk \in Seq(Span)
      BY <1>1 DEF Request
    <2>2. branch.pages \in Seq(Span)
      <3> HIDE DEF branch
      <3> QED BY <1>3 DEF Branch
    <2>3. keep \in Seq(Span)
      BY <1>3
    <2>4. \A s \in Seq(Span) : Len(s) \in Nat
      OBVIOUS
    <2> HIDE DEF branch, old
    <2> QED BY <2>1, <2>2, <2>3, <2>4
  <1>5. /\ q \in Request(R, O) /\ q.active = NoTxn /\ q.round = old.round
        /\ q.blocks = blocks /\ q.trunk = spans /\ q.version = old.version
    BY <1>1, <1>3, <1>4 DEF Request
  <1>6. /\ m \in [alloc : {m.alloc}, req : {m.req}, aborted : SUBSET EpochType(R),
                   floor : {m.floor}]
        /\ m.alloc = Reassign(Release(l.alloc, released), K, TrunkOwner(r))
        /\ m.req = With(l.req, r, q)
        /\ m.floor = l.floor
        /\ m.aborted = l.aborted
    BY <1>1 DEF Commit, CommittedAfter, Audited, TypedLedger, spans, keep, stays,
                KeptPages, KeptTrunk, TrunkAfter
  <1>7. /\ Len(replaced) = Len(old.trunk) - stays
        /\ \A i \in 1 .. Len(old.trunk) - stays : replaced[i] = old.trunk[stays + i]
    <2>1. old.trunk \in Seq(Span) /\ stays \in Nat /\ stays <= Len(old.trunk)
      BY <1>3, <1>4
    <2> HIDE DEF old
    <2> QED BY <2>1, RestIs
  <1>8. released = (BH \ K) \cup S
    BY <1>1 DEF ReleasedByCommit
  <1> HIDE DEF q, m, replaced, released
  <1>9. Aligned(q)
    BY <1>3, <1>5 DEF Aligned
  <1>10. /\ DOMAIN m.req = DOMAIN l.req /\ m.req[r] = q
         /\ \A x \in DOMAIN l.req \ {r} : m.req[x] = l.req[x]
    BY <1>1, <1>6 DEF With
  <1>11. /\ Holdings(m) = (H \ (G \cup {t})) \cup {<<TrunkOwner(r), spans>>}
         /\ G \in SUBSET H /\ t \in H \ G
    <2>1. EpochsNamed(l)
      BY RequestFacts DEF EpochsNamed
    <2>2. /\ Holdings(m) = (Holdings(l) \ HoldingsOf(l, r)) \cup HoldingsOf(m, r)
          /\ HoldingsOf(l, r) \subseteq Holdings(l)
      <3>1. OthersSame(l, m, r)
        BY <1>10 DEF OthersSame
      <3>2. HoldingsMoved(l, m, r)
        BY <2>1, <3>1, HoldingsChanged
      <3> QED BY <3>2 DEF HoldingsMoved
    <2>3. HoldingsOf(l, r) = {t} \cup G
      BY <1>1 DEF HoldingsOf, RequestHoldings
    <2>4. HoldingsOf(m, r) = {<<TrunkOwner(r), spans>>}
      BY <1>1, <1>5, <1>10 DEF HoldingsOf, RequestHoldings, TransactionHoldings
    <2>5. t \notin G
      BY TrunkApart
    <2> HIDE DEF G, t
    <2> QED BY <2>2, <2>3, <2>4, <2>5
  <1>12. u \in G
    BY <1>1, <1>2 DEF TransactionHoldings
  <1>13. HandlesOf(G) = BH
    BY <1>1, TransactionHandles
  <1>14. Custody(l.alloc, H)
    BY DEF Audited
  <1>15. t[1] = TrunkOwner(r) /\ t[2] = old.trunk /\ u[2] = branch.pages
    OBVIOUS
  <1> HIDE DEF t, u, G, H
  <1>16. T \cap BH = {}
    <2>1. ASSUME NEW x \in T, x \in HandlesOf(G) PROVE FALSE
      <3>1. PICK g \in G : x \in SpanHandles(g[2])
        BY <2>1 DEF HandlesOf
      <3>2. x \in SpanHandles(t[2]) /\ t \in H /\ g \in H
        BY <1>11, <1>15
      <3>3. g = t
        BY <1>14, <3>1, <3>2, HeldOnce
      <3> QED BY <1>11, <3>3
    <2> QED BY <1>13, <2>1
  <1>17. /\ K \subseteq SpanHandles(branch.pages)
         /\ \A i \in 1 .. Len(keep) :
               i \in 1 .. Len(branch.pages) /\ keep[i].handle = branch.pages[i].handle
    <2>1. \A i \in 1 .. Len(keep) : i \in 1 .. Len(branch.pages)
      <3>1. \A x, y \in Nat : x <= y => \A i \in 1 .. x : i \in 1 .. y
        OBVIOUS
      <3>2. Len(keep) <= Len(branch.pages)
        BY <1>3
      <3> HIDE DEF branch
      <3> QED BY <1>4, <3>1, <3>2
    <2>2. \A i \in 1 .. Len(keep) : keep[i].handle = branch.pages[i].handle
      BY <1>3
    <2> HIDE DEF branch
    <2> QED BY <2>1, <2>2 DEF SpanHandles
  <1>18. SpanHandles(branch.pages) \subseteq BH
    BY <1>2 DEF BranchHandles
  <1>19. \A i, j \in 1 .. Len(old.trunk) :
            old.trunk[i].handle = old.trunk[j].handle => i = j
    <2>1. \A i, j \in 1 .. Len(t[2]) : t[2][i].handle = t[2][j].handle => i = j
      BY <1>11, <1>14 DEF Custody, Holds
    <2> HIDE DEF old
    <2> QED BY <1>15, <2>1
  <1>20. \A i, j \in 1 .. Len(keep) : keep[i].handle = keep[j].handle => i = j
    <2>1. \A i, j \in 1 .. Len(branch.pages) :
             branch.pages[i].handle = branch.pages[j].handle => i = j
      <3>1. \A i, j \in 1 .. Len(u[2]) : u[2][i].handle = u[2][j].handle => i = j
        BY <1>11, <1>12, <1>14 DEF Custody, Holds
      <3> HIDE DEF branch
      <3> QED BY <1>15, <3>1
    <2> HIDE DEF branch
    <2> QED BY <1>17, <2>1
  <1>21. Splices(spans, old.trunk, stays, keep)
    BY <1>3, <1>4 DEF Splices
  <1>22. HandlesApart(old.trunk) /\ HandlesApart(keep)
    BY <1>19, <1>20 DEF HandlesApart
  <1>23. T \cap K = {}
    BY <1>16, <1>17, <1>18
  <1>24. /\ HandlesApart(spans) /\ K \subseteq SpanHandles(spans)
         /\ SpanHandles(spans) \ K \subseteq T
         /\ SpanHandles(spans) \cup S = T \cup K /\ SpanHandles(spans) \cap S = {}
         /\ S \subseteq T
    BY <1>7, <1>21, <1>22, <1>23, SpliceHandles
  <1>25. Custody(m.alloc, Holdings(m))
    <2> HIDE DEF K, S, T, BH
    <2>1. \A i, j \in 1 .. Len(spans) : spans[i].handle = spans[j].handle => i = j
      BY <1>24 DEF HandlesApart
    <2>2. SpanHandles(spans) \cap released = {}
      BY <1>8, <1>16, <1>17, <1>18, <1>24
    <2>3. SpanHandles(spans) \cup released = SpanHandles(t[2]) \cup HandlesOf(G)
      <3>1. SpanHandles(t[2]) = T
        BY <1>15 DEF T
      <3> QED BY <1>8, <1>13, <1>17, <1>18, <1>24, <3>1
    <2>4. K \subseteq SpanHandles(spans) /\ SpanHandles(spans) \ K \subseteq SpanHandles(t[2])
      <3>1. SpanHandles(t[2]) = T
        BY <1>15 DEF T
      <3> QED BY <1>24, <3>1
    <2>5. G \in SUBSET H /\ t \in H \ G
      BY <1>11
    <2>6. Custody(Reassign(Release(l.alloc, released), K, t[1]),
                  (H \ (G \cup {t})) \cup {<<t[1], spans>>})
      BY <1>14, <2>1, <2>2, <2>3, <2>4, <2>5, CustodySettle
    <2> QED BY <1>6, <1>11, <1>15, <2>6
  <1>26. \A x \in m.aborted : x.req = r => x.version <= q.version /\ x.round <= q.round
    <2>1. ASSUME NEW x \in l.aborted, x.req = r
          PROVE  x.version <= old.version /\ x.round <= old.round
      BY <1>1, <2>1, AbortedFacts
    <2> HIDE DEF old
    <2> QED BY <1>5, <1>6, <2>1
  <1>27. Audited(m, R, O)
    <2>1. m.floor = With(l.floor, r, q.version)
      <3>1. l.floor = [x \in DOMAIN l.floor |-> l.floor[x]]
        BY DEF Audited, TypedLedger
      <3> QED BY <1>1, <1>5, <1>6, <3>1, WithSame
    <2>2. \A x \in m.aborted : x.req # r => x \in l.aborted
      BY <1>6
    <2>3. RequestMoves(l, m, r, q, R)
      BY <1>1, <1>5, <1>6, <1>9, <1>25, <1>26, <2>1, <2>2 DEF RequestMoves
    <2> QED BY <2>3, <1>1, <1>5, RequestChanged
  <1>28. Follows(l.alloc, m.alloc)
    <2>1. Follows(l.alloc, Release(l.alloc, released))
      BY SaneLedger, ReleaseFollows
    <2>2. Sane(Release(l.alloc, released))
      BY <2>1 DEF Follows
    <2>3. Follows(Release(l.alloc, released), m.alloc)
      BY <1>6, <2>2, ReassignFollows
    <2> QED BY <2>1, <2>3, FollowsTransitive
  <1>29. PrefixKept(l, m)
    <2>1. ASSUME NEW x \in DOMAIN l.req \cap DOMAIN m.req
          PROVE  /\ m.req[x].blocks >= l.req[x].blocks
                 /\ \A i \in 1 .. Len(l.req[x].trunk) :
                       l.req[x].trunk[i].used = PageSize =>
                           i <= Len(m.req[x].trunk) /\ m.req[x].trunk[i] = l.req[x].trunk[i]
      <3>1. CASE x = r
        <4>1. \A i \in 1 .. Len(old.trunk) : old.trunk[i].used = PageSize =>
                  i <= Len(spans) /\ spans[i] = old.trunk[i]
          <5>1. /\ stays \in Nat /\ Len(keep) \in Nat /\ Len(spans) = stays + Len(keep)
                /\ \A i \in 1 .. stays : spans[i] = old.trunk[i]
                /\ \A i \in 1 .. Len(old.trunk) : old.trunk[i].used = PageSize => i <= stays
            BY <1>3, <1>4
          <5> HIDE DEF old
          <5> QED BY <5>1
        <4> QED BY <1>4, <1>5, <1>10, <3>1, <4>1
      <3>2. CASE x # r
        <4>1. m.req[x] = l.req[x]
          BY <1>10, <3>2
        <4>2. l.req[x].blocks \in Nat /\ l.req[x].trunk \in Seq(Span)
          BY RequestFacts DEF Request
        <4>3. Len(l.req[x].trunk) \in Nat
          BY <4>2
        <4> QED BY <4>1, <4>2, <4>3
      <3> QED BY <3>1, <3>2
    <2> QED BY <2>1 DEF PrefixKept
  <1>30. EpochsFresh(l, m)
    <2>1. r \in DOMAIN l.floor => l.floor[r] \in Nat
      BY DEF Audited, TypedLedger
    <2>2. /\ DOMAIN l.floor \subseteq DOMAIN m.floor
          /\ \A x \in DOMAIN l.floor \ {r} : m.floor[x] = l.floor[x]
          /\ r \in DOMAIN l.floor => l.floor[r] <= m.floor[r]
      BY <1>6, <2>1
    <2>3. /\ \A x \in DOMAIN m.req \ {r} : x \in DOMAIN l.req /\ m.req[x] = l.req[x]
          /\ m.req[r].active = NoTxn
      BY <1>5, <1>10
    <2> QED BY <1>27, <2>2, <2>3, FreshWhen
  <1>31. ~ IsActive(m, e)
    BY <1>5, <1>10 DEF IsActive
  <1> QED BY <1>27, <1>28, <1>29, <1>30, <1>31 DEF Steps, m

\* from_snapshot: a request and its transaction are as they were, but that
\* every page is named in the new namespace.
LEMMA RebasedTransaction ==
    ASSUME NEW R, NEW O, NEW txn \in Transaction(R, O), txn # NoTxn, NEW pool \in Nat
    PROVE  LET moved == RebaseTxn(txn, pool)
           IN  /\ moved \in Transaction(R, O)
               /\ moved.epoch = txn.epoch
               /\ DOMAIN moved.branches = DOMAIN txn.branches
               /\ \A o \in DOMAIN txn.branches :
                     /\ txn.branches[o] \in Branch
                     /\ moved.branches[o].appended = txn.branches[o].appended
                     /\ moved.branches[o].cow = txn.branches[o].cow
                     /\ moved.branches[o].pages = RebaseSpans(txn.branches[o].pages, pool)
  <1> DEFINE branches == [o \in DOMAIN txn.branches |-> RebaseBranch(txn.branches[o], pool)]
             moved == RebaseTxn(txn, pool)
  <1>1. PICK S \in SUBSET O : txn.branches \in [S -> Branch]
    BY DEF Transaction
  <1>2. \A b \in Branch :
           /\ RebaseBranch(b, pool) \in Branch
           /\ RebaseBranch(b, pool).appended = b.appended
           /\ RebaseBranch(b, pool).cow = b.cow
           /\ RebaseBranch(b, pool).pages = RebaseSpans(b.pages, pool)
    <2> SUFFICES ASSUME NEW b \in Branch
                 PROVE  /\ RebaseBranch(b, pool) \in Branch
                        /\ RebaseBranch(b, pool).appended = b.appended
                        /\ RebaseBranch(b, pool).cow = b.cow
                        /\ RebaseBranch(b, pool).pages = RebaseSpans(b.pages, pool)
      OBVIOUS
    <2>1. b.pages \in Seq(Span)
      BY DEF Branch
    <2>2. RebaseSpans(b.pages, pool) \in Seq(Span)
      BY <2>1, RebasedSpans
    <2> QED BY <2>2 DEF RebaseBranch, Branch
  <1>3. /\ branches \in [S -> Branch] /\ DOMAIN branches = DOMAIN txn.branches
        /\ \A o \in DOMAIN txn.branches :
              txn.branches[o] \in Branch /\ branches[o] = RebaseBranch(txn.branches[o], pool)
    BY <1>1, <1>2
  <1> HIDE DEF branches
  <1>4. moved = [txn EXCEPT !.branches = branches]
    BY DEF RebaseTxn, branches
  <1>5. moved \in Transaction(R, O) /\ moved.epoch = txn.epoch /\ moved.branches = branches
    BY <1>3, <1>4 DEF Transaction
  <1> HIDE DEF moved
  <1> QED BY <1>2, <1>3, <1>5 DEF moved

LEMMA RebasedCovers ==
    ASSUME NEW pages \in Seq(Span), NEW pool \in Nat, NEW start, NEW end,
           Covers(pages, start, end)
    PROVE  Covers(RebaseSpans(pages, pool), start, end)
  <1>1. /\ Len(RebaseSpans(pages, pool)) = Len(pages)
        /\ \A i \in 1 .. Len(pages) :
              /\ RebaseSpans(pages, pool)[i].start = pages[i].start
              /\ RebaseSpans(pages, pool)[i].used = pages[i].used
    BY RebasedSpans
  <1> QED BY <1>1 DEF Covers

LEMMA RebasedRequest ==
    ASSUME NEW R, NEW O, NoTxn \notin Transaction(R, O),
           NEW q \in Request(R, O), NEW pool \in Nat
    PROVE  LET p == RebaseRequest(q, pool)
           IN  /\ p \in Request(R, O)
               /\ p.blocks = q.blocks /\ p.version = q.version /\ p.round = q.round
               /\ p.trunk = RebaseSpans(q.trunk, pool)
               /\ p.active = RebaseTxn(q.active, pool)
               /\ p.active = NoTxn <=> q.active = NoTxn
               /\ Aligned(q) => Aligned(p)
               /\ \A r : \A k : k \in RequestHoldings(r, p) <=>
                                \E h \in RequestHoldings(r, q) : k = RebasedHolding(h, pool)
  <1> DEFINE p == RebaseRequest(q, pool)
             active == RebaseTxn(q.active, pool)
             trunk == RebaseSpans(q.trunk, pool)
  <1>1. trunk \in Seq(Span) /\ q.trunk \in Seq(Span) /\ q.blocks \in Nat
    <2>1. q.trunk \in Seq(Span) /\ q.blocks \in Nat
      BY DEF Request
    <2> QED BY <2>1, RebasedSpans
  <1>2. q.active # NoTxn =>
           /\ q.active \in Transaction(R, O)
           /\ active \in Transaction(R, O)
           /\ active.epoch = q.active.epoch
           /\ DOMAIN active.branches = DOMAIN q.active.branches
           /\ \A o \in DOMAIN q.active.branches :
                 /\ q.active.branches[o] \in Branch
                 /\ active.branches[o].appended = q.active.branches[o].appended
                 /\ active.branches[o].cow = q.active.branches[o].cow
                 /\ active.branches[o].pages = RebaseSpans(q.active.branches[o].pages, pool)
    <2> SUFFICES ASSUME q.active # NoTxn
                 PROVE  /\ q.active \in Transaction(R, O)
                        /\ active \in Transaction(R, O)
                        /\ active.epoch = q.active.epoch
                        /\ DOMAIN active.branches = DOMAIN q.active.branches
                        /\ \A o \in DOMAIN q.active.branches :
                              /\ q.active.branches[o] \in Branch
                              /\ active.branches[o].appended = q.active.branches[o].appended
                              /\ active.branches[o].cow = q.active.branches[o].cow
                              /\ active.branches[o].pages =
                                    RebaseSpans(q.active.branches[o].pages, pool)
      OBVIOUS
    <2>1. q.active \in Transaction(R, O)
      BY DEF Request
    <2> QED BY <2>1, RebasedTransaction
  <1>3. q.active = NoTxn => active = NoTxn
    BY DEF RebaseTxn
  <1>4. active \in Transaction(R, O) \cup {NoTxn} /\ (active = NoTxn <=> q.active = NoTxn)
    BY <1>2, <1>3
  <1> HIDE DEF active, trunk
  <1>5. /\ p \in Request(R, O)
        /\ p.blocks = q.blocks /\ p.version = q.version /\ p.round = q.round
        /\ p.trunk = trunk /\ p.active = active
    <2>1. p = [q EXCEPT !.trunk = trunk, !.active = active]
      BY DEF RebaseRequest, trunk, active
    <2> HIDE DEF p
    <2> QED BY <1>1, <1>4, <2>1 DEF Request
  <1> HIDE DEF p
  <1>6. ASSUME Aligned(q) PROVE Aligned(p)
    <2>1. /\ TailUsed(p) = TailUsed(q)
          /\ \A a : Cow(p, a) = Cow(q, a) /\ Extent(p, a) = Extent(q, a)
      BY <1>5 DEF TailUsed, Cow, Extent
    <2>2. Covers(p.trunk, 0, p.blocks)
      BY <1>1, <1>5, <1>6, RebasedCovers DEF Aligned, trunk
    <2>3. ASSUME p.active # NoTxn, NEW o \in DOMAIN p.active.branches
          PROVE  LET b == p.active.branches[o]
                 IN  /\ b.cow = Cow(p, b.appended)
                     /\ Covers(b.pages, p.blocks - (Extent(p, b.appended) - b.appended),
                               p.blocks + b.appended)
      <3> DEFINE c == q.active.branches[o]
                 b == p.active.branches[o]
      <3>1. q.active # NoTxn /\ o \in DOMAIN q.active.branches
        BY <1>2, <1>4, <1>5, <2>3
      <3>2. /\ c \in Branch /\ b.appended = c.appended /\ b.cow = c.cow
            /\ b.pages = RebaseSpans(c.pages, pool)
        BY <1>2, <1>5, <3>1
      <3>3. /\ c.cow = Cow(q, c.appended)
            /\ Covers(c.pages, q.blocks - (Extent(q, c.appended) - c.appended),
                      q.blocks + c.appended)
        BY <1>6, <3>1 DEF Aligned
      <3> HIDE DEF b, c
      <3>4. c.pages \in Seq(Span)
        BY <3>2 DEF Branch
      <3>5. Covers(b.pages, q.blocks - (Extent(q, c.appended) - c.appended),
                   q.blocks + c.appended)
        BY <3>2, <3>3, <3>4, RebasedCovers
      <3>6. b.cow = Cow(p, b.appended)
        BY <2>1, <3>2, <3>3
      <3>7. Covers(b.pages, p.blocks - (Extent(p, b.appended) - b.appended),
                   p.blocks + b.appended)
        BY <1>5, <2>1, <3>2, <3>5
      <3> QED BY <3>6, <3>7 DEF b
    <2> QED BY <2>2, <2>3 DEF Aligned
  <1>7. ASSUME NEW r, NEW k
        PROVE  k \in RequestHoldings(r, p) <=>
                   \E h \in RequestHoldings(r, q) : k = RebasedHolding(h, pool)
    <2>1. \A a, s : RebasedHolding(<<a, s>>, pool) = <<a, RebaseSpans(s, pool)>>
      BY DEF RebasedHolding
    <2>2. k \in TransactionHoldings(p.active) <=>
             \E h \in TransactionHoldings(q.active) : k = RebasedHolding(h, pool)
      <3>1. CASE q.active = NoTxn
        BY <1>4, <1>5, <3>1 DEF TransactionHoldings
      <3>2. CASE q.active # NoTxn
        <4> DEFINE e == q.active.epoch
                   D == DOMAIN q.active.branches
        <4>1. k \in TransactionHoldings(p.active) <=>
                 \E o \in D : k = <<BranchOwner(e, o), active.branches[o].pages>>
          BY <1>2, <1>4, <1>5, <3>2 DEF TransactionHoldings
        <4>2. \A h : h \in TransactionHoldings(q.active) <=>
                 \E o \in D : h = <<BranchOwner(e, o), q.active.branches[o].pages>>
          BY <3>2 DEF TransactionHoldings
        <4>3. \A o \in D : <<BranchOwner(e, o), active.branches[o].pages>> =
                 RebasedHolding(<<BranchOwner(e, o), q.active.branches[o].pages>>, pool)
          BY <1>2, <2>1, <3>2
        <4> DEFINE Old(o) == <<BranchOwner(e, o), q.active.branches[o].pages>>
                   New(o) == <<BranchOwner(e, o), active.branches[o].pages>>
        <4>4. /\ k \in TransactionHoldings(p.active) <=> \E o \in D : k = New(o)
              /\ \A h : h \in TransactionHoldings(q.active) <=> \E o \in D : h = Old(o)
              /\ \A o \in D : New(o) = RebasedHolding(Old(o), pool)
          BY <4>1, <4>2, <4>3
        <4> HIDE DEF e, D, Old, New
        <4> QED BY <4>4
      <3> QED BY <3>1, <3>2
    <2>3. <<TrunkOwner(r), p.trunk>> = RebasedHolding(<<TrunkOwner(r), q.trunk>>, pool)
      BY <1>5, <2>1 DEF trunk
    <2> QED BY <2>2, <2>3 DEF RequestHoldings
  <1> QED BY <1>4, <1>5, <1>6, <1>7 DEF p, active, trunk

LEMMA HoldingsTyped ==
    ASSUME NEW R, NEW O, NEW l, Audited(l, R, O)
    PROVE  \A h \in Holdings(l) : h[2] \in Seq(Span)
  <1> SUFFICES ASSUME NEW h \in Holdings(l) PROVE h[2] \in Seq(Span)
    OBVIOUS
  <1>1. PICK r \in DOMAIN l.req : h \in RequestHoldings(r, l.req[r])
    BY HoldingsAre
  <1>2. l.req[r].trunk \in Seq(Span)
    BY RequestFacts DEF Request
  <1>3. CASE h = <<TrunkOwner(r), l.req[r].trunk>>
    BY <1>2, <1>3
  <1>4. CASE h \in TransactionHoldings(l.req[r].active)
    <2>1. l.req[r].active # NoTxn
      BY <1>4 DEF TransactionHoldings
    <2>2. l.req[r].active \in Transaction(R, O)
      BY <2>1, RequestFacts
    <2>3. PICK o \in DOMAIN l.req[r].active.branches :
             h = <<BranchOwner(l.req[r].active.epoch, o), l.req[r].active.branches[o].pages>>
      BY <1>4, <2>1 DEF TransactionHoldings
    <2>4. l.req[r].active.branches[o] \in Branch
      BY <2>2 DEF Transaction
    <2>5. l.req[r].active.branches[o].pages \in Seq(Span)
      BY <2>4 DEF Branch
    <2> QED BY <2>3, <2>5
  <1> QED BY <1>1, <1>3, <1>4 DEF RequestHoldings

LEMMA RestoreAudited ==
    ASSUME NEW R, NEW O, NoTxn \notin Transaction(R, O),
           NEW l, Audited(l, R, O), NEW pool \in Nat
    PROVE  /\ Audited(RestoreLedger(l, pool), R, O)
           /\ RestoreLedger(l, pool).alloc = Rebase(l.alloc, pool)
           /\ RestoreLedger(l, pool).floor = l.floor
           /\ \A e : IsActive(RestoreLedger(l, pool), e) => IsActive(l, e)
  <1> DEFINE m == RestoreLedger(l, pool)
  <1>1. /\ m \in [alloc : {m.alloc}, req : {m.req}, aborted : SUBSET EpochType(R),
                  floor : {m.floor}]
        /\ m.alloc = Rebase(l.alloc, pool)
        /\ m.req = [r \in DOMAIN l.req |-> RebaseRequest(l.req[r], pool)]
        /\ m.floor = l.floor
        /\ m.aborted = l.aborted
    BY DEF RestoreLedger, Audited, TypedLedger
  <1> HIDE DEF m
  <1>2. DOMAIN m.req = DOMAIN l.req
    BY <1>1
  <1>3. ASSUME NEW r \in DOMAIN l.req
        PROVE  /\ m.req[r] \in Request(R, O) /\ Aligned(m.req[r])
               /\ m.req[r].version = l.req[r].version /\ m.req[r].round = l.req[r].round
               /\ m.req[r].active = NoTxn <=> l.req[r].active = NoTxn
               /\ m.req[r].active # NoTxn => m.req[r].active.epoch = l.req[r].active.epoch
               /\ \A k : k \in RequestHoldings(r, m.req[r]) <=>
                         \E h \in RequestHoldings(r, l.req[r]) : k = RebasedHolding(h, pool)
    <2> DEFINE q == l.req[r]
               p == RebaseRequest(q, pool)
    <2>1. q \in Request(R, O) /\ Aligned(q) /\ (q.active # NoTxn => q.active \in Transaction(R, O))
      BY RequestFacts
    <2>2. m.req[r] = p
      BY <1>1
    <2> HIDE DEF q
    <2>3. /\ p \in Request(R, O)
          /\ p.version = q.version /\ p.round = q.round
          /\ p.active = RebaseTxn(q.active, pool)
          /\ p.active = NoTxn <=> q.active = NoTxn
          /\ Aligned(p)
          /\ \A k : k \in RequestHoldings(r, p) <=>
                    \E h \in RequestHoldings(r, q) : k = RebasedHolding(h, pool)
      BY <2>1, RebasedRequest
    <2>4. q.active # NoTxn => RebaseTxn(q.active, pool).epoch = q.active.epoch
      BY <2>1, RebasedTransaction
    <2> HIDE DEF p
    <2> QED BY <2>2, <2>3, <2>4 DEF q
  <1>4. Holdings(m) = {RebasedHolding(h, pool) : h \in Holdings(l)}
    <2>1. \A k : k \in Holdings(m) <=> \E r \in DOMAIN l.req : k \in RequestHoldings(r, m.req[r])
      BY <1>2, HoldingsAre
    <2>2. \A h : h \in Holdings(l) <=> \E r \in DOMAIN l.req : h \in RequestHoldings(r, l.req[r])
      BY HoldingsAre
    <2>3. ASSUME NEW k \in Holdings(m)
          PROVE  \E h \in Holdings(l) : k = RebasedHolding(h, pool)
      <3>1. PICK r \in DOMAIN l.req : k \in RequestHoldings(r, m.req[r])
        BY <2>1
      <3>2. PICK h \in RequestHoldings(r, l.req[r]) : k = RebasedHolding(h, pool)
        BY <1>3, <3>1
      <3> QED BY <2>2, <3>2
    <2>4. ASSUME NEW h \in Holdings(l)
          PROVE  RebasedHolding(h, pool) \in Holdings(m)
      <3>1. PICK r \in DOMAIN l.req : h \in RequestHoldings(r, l.req[r])
        BY <2>2
      <3>2. RebasedHolding(h, pool) \in RequestHoldings(r, m.req[r])
        BY <1>3, <3>1
      <3> QED BY <2>1, <3>2
    <2> QED BY <2>3, <2>4
  <1>5. Custody(m.alloc, Holdings(m))
    <2>1. \A h \in Holdings(l) : h[2] \in Seq(Span)
      BY HoldingsTyped
    <2>2. Custody(Rebase(l.alloc, pool), {RebasedHolding(h, pool) : h \in Holdings(l)})
      BY <2>1, CustodyRebase DEF Audited
    <2> QED BY <1>1, <1>4, <2>2
  <1>6. TypedLedger(m, R, O)
    <2>1. m.req \in [DOMAIN m.req -> Request(R, O)]
      <3>1. \A r \in DOMAIN l.req : RebaseRequest(l.req[r], pool) \in Request(R, O)
        BY <1>1, <1>3
      <3> QED BY <1>1, <3>1
    <2> QED BY <1>1, <1>2, <2>1 DEF Audited, TypedLedger
  <1>7. EpochsConsistent(m)
    <2>1. \A r \in DOMAIN m.req :
             /\ r \in DOMAIN m.floor /\ m.floor[r] = m.req[r].version
             /\ m.req[r].version = 0 => m.req[r].round = -1
             /\ m.req[r].active # NoTxn =>
                   m.req[r].active.epoch = Epoch(r, m.req[r].round, m.req[r].version)
      <3>1. \A r \in DOMAIN l.req :
               /\ r \in DOMAIN l.floor /\ l.floor[r] = l.req[r].version
               /\ l.req[r].version = 0 => l.req[r].round = -1
               /\ l.req[r].active # NoTxn =>
                     l.req[r].active.epoch = Epoch(r, l.req[r].round, l.req[r].version)
        BY RequestFacts
      <3>2. \A r \in DOMAIN l.req :
               /\ m.req[r].version = l.req[r].version /\ m.req[r].round = l.req[r].round
               /\ m.req[r].active = NoTxn <=> l.req[r].active = NoTxn
               /\ m.req[r].active # NoTxn => m.req[r].active.epoch = l.req[r].active.epoch
        BY <1>3
      <3> QED BY <1>1, <1>2, <3>1, <3>2
    <2>2. \A e \in m.aborted : e.req \in DOMAIN m.req =>
             /\ e.version <= m.req[e.req].version
             /\ e.round <= m.req[e.req].round
             /\ ~ IsActive(m, e)
      <3> SUFFICES ASSUME NEW e \in l.aborted, e.req \in DOMAIN l.req
                   PROVE  /\ e.version <= m.req[e.req].version
                          /\ e.round <= m.req[e.req].round
                          /\ ~ IsActive(m, e)
        BY <1>1, <1>2
      <3>1. /\ e.version <= l.req[e.req].version /\ e.round <= l.req[e.req].round
            /\ l.req[e.req].active # NoTxn => l.req[e.req].active.epoch # e
        BY AbortedFacts
      <3>2. /\ m.req[e.req].version = l.req[e.req].version
            /\ m.req[e.req].round = l.req[e.req].round
            /\ m.req[e.req].active = NoTxn <=> l.req[e.req].active = NoTxn
            /\ m.req[e.req].active # NoTxn =>
                  m.req[e.req].active.epoch = l.req[e.req].active.epoch
        BY <1>3
      <3> QED BY <3>1, <3>2 DEF IsActive
    <2> QED BY <2>1, <2>2 DEF EpochsConsistent
  <1>8. Audited(m, R, O)
    BY <1>1, <1>2, <1>3, <1>5, <1>6, <1>7 DEF Audited
  <1>9. \A e : IsActive(m, e) => IsActive(l, e)
    BY <1>2, <1>3 DEF IsActive
  <1> QED BY <1>1, <1>8, <1>9 DEF m

-----------------------------------------------------------------------------
(* An audited ledger passes the audit of the code, a new one to begin with. *)

LEMMA NewLedgerAudited ==
    ASSUME NEW R, NEW O, NEW pool \in Nat
    PROVE  Audited(NewLedger(pool), R, O)
  <1> DEFINE l == NewLedger(pool)
  <1>1. /\ l.req = [r \in {} |-> 0] /\ l.floor = [r \in {} |-> 0]
        /\ l.aborted = {} /\ l.alloc = NewAllocator(pool)
        /\ l \in [alloc : {l.alloc}, req : {l.req}, aborted : SUBSET EpochType(R),
                  floor : {l.floor}]
    BY DEF NewLedger
  <1> HIDE DEF l
  <1>2. DOMAIN l.req = {}
    BY <1>1
  <1>3. Holdings(l) = {}
    BY <1>2, HoldingsAre
  <1>4. Custody(l.alloc, Holdings(l))
    <2>1. /\ l.alloc.live = [p \in {} |-> 0] /\ l.alloc.free = Pages
          /\ l.alloc \in [pool : Nat, gen : [Pages -> Nat], live : {l.alloc.live},
                          free : SUBSET Pages]
      BY <1>1 DEF NewAllocator
    <2>2. DOMAIN l.alloc.live = {}
      BY <2>1
    <2> QED BY <1>3, <2>1, <2>2 DEF Custody, Sane
  <1>5. TypedLedger(l, R, O)
    BY <1>1, <1>2 DEF TypedLedger
  <1> QED BY <1>1, <1>2, <1>4, <1>5 DEF Audited, EpochsConsistent, l

LEMMA AuditedPasses ==
    ASSUME NEW R, NEW O, NEW l, Audited(l, R, O)
    PROVE  LedgerAuditOf(l)
  <1> DEFINE a == l.alloc
             H == Holdings(l)
  <1>1. Custody(a, H)
    BY DEF Audited
  <1>2. AllocatorAudit(a)
    BY <1>1 DEF Custody, Sane, AllocatorAudit
  <1> HIDE DEF a, H
  <1>3. ASSUME NEW h \in H, NEW i \in 1 .. PageCount, i <= Len(h[2]), h[2] \in Seq(Span)
        PROVE  /\ IsLive(a, h[2][i].handle)
               /\ a.live[h[2][i].handle.page].owner = h[1]
               /\ \A g \in H, j \in 1 .. PageCount :
                     j <= Len(g[2]) /\ g[2] \in Seq(Span)
                         /\ g[2][j].handle.page = h[2][i].handle.page
                         => g = h /\ j = i
    <2>1. \A g \in H, j \in 1 .. PageCount :
             j <= Len(g[2]) /\ g[2] \in Seq(Span) =>
                 j \in 1 .. Len(g[2]) /\ g[2][j].handle \in SpanHandles(g[2])
      BY PageCountAssumption DEF SpanHandles
    <2>2. IsLive(a, h[2][i].handle) /\ a.live[h[2][i].handle.page].owner = h[1]
      <3>1. h[2][i].handle \in SpanHandles(h[2])
        BY <1>3, <2>1
      <3> QED BY <1>1, <3>1, Held DEF IsLive
    <2>3. ASSUME NEW g \in H, NEW j \in 1 .. PageCount, j <= Len(g[2]), g[2] \in Seq(Span),
                 g[2][j].handle.page = h[2][i].handle.page
          PROVE  g = h /\ j = i
      <3>1. /\ h[2][i].handle \in SpanHandles(h[2]) /\ g[2][j].handle \in SpanHandles(g[2])
            /\ i \in 1 .. Len(h[2]) /\ j \in 1 .. Len(g[2])
        BY <1>3, <2>1, <2>3
      <3>2. g = h /\ g[2][j].handle = h[2][i].handle
        BY <1>1, <2>3, <3>1, HeldOnce
      <3>3. \A x, y \in 1 .. Len(h[2]) : h[2][x].handle = h[2][y].handle => x = y
        BY <1>1 DEF Custody, Holds
      <3> QED BY <3>1, <3>2, <3>3
    <2> QED BY <2>2, <2>3
  <1>4. \A h \in H : h[2] \in Seq(Span)
    BY HoldingsTyped DEF H
  <1>5. LiveHandles(a) = UNION {SpanHandles(h[2]) : h \in H}
    <2>1. ASSUME NEW p \in DOMAIN a.live
          PROVE  \E h \in H : a.live[p].handle \in SpanHandles(h[2])
      BY <1>1 DEF Custody
    <2>2. ASSUME NEW h \in H, NEW x \in SpanHandles(h[2])
          PROVE  \E p \in DOMAIN a.live : x = a.live[p].handle
      BY <1>1, Held
    <2> QED BY <2>1, <2>2 DEF LiveHandles
  <1>6. PagesHeldOnce(l)
    <2>1. \A h \in H, i \in 1 .. PageCount :
             i <= Len(h[2]) =>
                 /\ IsLive(a, h[2][i].handle)
                 /\ a.live[h[2][i].handle.page].owner = h[1]
                 /\ \A g \in H, j \in 1 .. PageCount :
                       j <= Len(g[2]) /\ g[2][j].handle.page = h[2][i].handle.page
                           => g = h /\ j = i
      BY <1>3, <1>4
    <2> QED BY <1>5, <2>1 DEF PagesHeldOnce, a, H
  <1> QED BY <1>2, <1>6 DEF LedgerAuditOf, Audited, a

=============================================================================
