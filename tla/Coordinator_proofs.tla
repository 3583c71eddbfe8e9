------------------------- MODULE Coordinator_proofs -------------------------
(***************************************************************************)
(* Theorems about Coordinator, for every value of its constants.           *)
(*                                                                         *)
(* Records and ledger are one whole (Whole): the ledger passes its audit   *)
(* as its own lemmas state it (SpeculativeLedger_proofs), every protocol   *)
(* object is sound (FissionProtocol_proofs), and each record and its       *)
(* request in the ledger are in the same state (Linked). A method changes  *)
(* one record and one request, so that a lemma per method suffices; a      *)
(* crash restores what was published, which is whole as well, and fences   *)
(* what was in flight (Reborn). With the outbox this is CInv, which the    *)
(* audit and the preflight follow from, however snapshots are published.   *)
(*                                                                         *)
(* Effects are dated by the versions of their tags, which records outlive; *)
(* the fold that adds up their blocks is shown to take one element at a    *)
(* time.                                                                   *)
(*                                                                         *)
(* Fencing needs that commands leave only once the state that names them   *)
(* is durable. Then durable records and generations cover whatever was     *)
(* sent (Remembers of FInv), and what comes after a crash is newer in      *)
(* both.                                                                   *)
(***************************************************************************)
EXTENDS Coordinator, FissionProtocol_proofs, SpeculativeLedger_proofs

USE DEF ReadyStates, InFlightStates, ProtocolStates

-----------------------------------------------------------------------------
(* Adding up effects. *)

\* The blocks of a set of effects, as BlocksCommittedOnce adds them up: the
\* fold that MapThenSumSet is, which takes some element out of the set first.
Blocks(S) == MapThenSumSet(LAMBDA x : x.blocks, S)

First(s) == CHOOSE x \in s : TRUE

AddsUp(f, S) ==
    f = [s \in SUBSET S |-> IF s = {} THEN 0 ELSE First(s).blocks + f[s \ {First(s)}]]

LEMMA BlocksFold == \A S : Blocks(S) = (CHOOSE f : AddsUp(f, S))[S]
  BY DEF Blocks, MapThenSumSet, MapThenFoldSet, AddsUp, First

\* Such a fold exists on every finite set.
LEMMA FoldExists ==
    ASSUME NEW S, IsFiniteSet(S)
    PROVE  \E f : AddsUp(f, S)
  <1> DEFINE Small(n) == {s \in SUBSET S : Cardinality(s) <= n}
             Up(f, n) == f = [s \in Small(n) |-> IF s = {} THEN 0
                                                 ELSE First(s).blocks + f[s \ {First(s)}]]
             T == {n \in Nat : ~ \E f : Up(f, n)}
  <1>1. \A s \in SUBSET S : /\ IsFiniteSet(s) /\ Cardinality(s) \in Nat
                            /\ Cardinality(s) <= Cardinality(S)
                            /\ s = {} <=> Cardinality(s) = 0
    BY FS_Subset, FS_CardinalityType, FS_EmptySet
  <1>2. \A s \in SUBSET S : s # {} => /\ First(s) \in s
                                      /\ s \ {First(s)} \in SUBSET S
                                      /\ Cardinality(s \ {First(s)}) = Cardinality(s) - 1
    BY <1>1, FS_RemoveElement DEF First
  <1>3. Small(Cardinality(S)) = SUBSET S /\ Cardinality(S) \in Nat
    BY <1>1
  <1>4. ASSUME T # {} PROVE FALSE
    <2>1. PICK n \in T : \A k \in T : n <= k
      BY <1>4, LeastNatural
    <2>2. CASE n = 0
      <3> DEFINE f == [s \in Small(0) |-> 0]
      <3>1. \A s \in Small(0) : s = {}
        BY <1>1
      <3>2. Up(f, 0)
        BY <3>1
      <3> QED BY <2>1, <2>2, <3>2
    <2>3. CASE n # 0
      <3>1. n - 1 \in Nat /\ n - 1 \notin T
        <4> HIDE DEF Up
        <4>1. n \in Nat
          BY <2>1
        <4> HIDE DEF T
        <4> QED BY <2>1, <2>3, <4>1
      <3>2. PICK f : Up(f, n - 1)
        BY <3>1
      <3> DEFINE g == [s \in Small(n) |-> IF s = {} THEN 0
                                          ELSE First(s).blocks + f[s \ {First(s)}]]
      <3>3. ASSUME NEW s \in Small(n), s # {}
            PROVE  s \ {First(s)} \in Small(n - 1) /\ s \ {First(s)} \in Small(n)
        BY <1>1, <1>2, <2>1, <3>3
      <3>4. ASSUME NEW s \in Small(n - 1)
            PROVE  f[s] = g[s]
        <4>1. s \in Small(n)
          BY <1>1, <2>1, <3>4
        <4>2. f[s] = IF s = {} THEN 0 ELSE First(s).blocks + f[s \ {First(s)}]
          BY <3>2
        <4> QED BY <4>1, <4>2
      <3>5. \A s \in Small(n) : g[s] = IF s = {} THEN 0
                                       ELSE First(s).blocks + g[s \ {First(s)}]
        BY <3>3, <3>4
      <3>6. g = [s \in Small(n) |-> IF s = {} THEN 0
                                    ELSE First(s).blocks + g[s \ {First(s)}]]
        <4> HIDE DEF Small
        <4>1. g = [s \in Small(n) |-> g[s]]
          OBVIOUS
        <4> HIDE DEF g
        <4> QED BY <3>5, <4>1
      <3>7. Up(g, n)
        BY <3>6
      <3> HIDE DEF g, Up
      <3> QED BY <2>1, <3>7
    <2> QED BY <2>2, <2>3
  <1>5. PICK f : Up(f, Cardinality(S))
    BY <1>3, <1>4
  <1> HIDE DEF Small
  <1> QED BY <1>3, <1>5 DEF AddsUp

LEMMA FoldFacts ==
    ASSUME NEW f, NEW S, IsFiniteSet(S), AddsUp(f, S), \A x \in S : x.blocks \in Nat
    PROVE  /\ f[{}] = 0
           /\ \A s \in SUBSET S : f[s] \in Nat
           /\ \A s \in SUBSET S : \A x \in s : f[s] = x.blocks + f[s \ {x}]
  <1> DEFINE Bad(s) == ~ (/\ f[s] \in Nat
                          /\ \A x \in s : f[s] = x.blocks + f[s \ {x}])
             T == {Cardinality(s) : s \in {u \in SUBSET S : Bad(u)}}
  <1>1. \A s \in SUBSET S : /\ IsFiniteSet(s) /\ Cardinality(s) \in Nat
    BY FS_Subset, FS_CardinalityType
  <1>2. ASSUME NEW s \in SUBSET S, NEW x \in s
        PROVE  s \ {x} \in SUBSET S /\ Cardinality(s \ {x}) = Cardinality(s) - 1
    BY <1>1, FS_RemoveElement
  <1>3. \A s \in SUBSET S : s # {} =>
            First(s) \in s /\ f[s] = First(s).blocks + f[s \ {First(s)}]
    BY DEF AddsUp, First
  <1>4. f[{}] = 0
    BY DEF AddsUp
  <1>5. ASSUME NEW s \in SUBSET S, Bad(s) PROVE FALSE
    <2>1. T \subseteq Nat /\ T # {}
      BY <1>1, <1>5
    <2>2. PICK n \in T : \A k \in T : n <= k
      BY <2>1, LeastNatural
    <2>3. PICK u \in SUBSET S : Bad(u) /\ Cardinality(u) = n
      BY <2>2
    <2>4. ASSUME NEW v \in SUBSET S, Cardinality(v) < n PROVE ~Bad(v)
      <3> HIDE DEF Bad
      <3>1. Bad(v) => Cardinality(v) \in T
        OBVIOUS
      <3> HIDE DEF T
      <3> QED BY <1>1, <2>1, <2>2, <2>4, <3>1
    <2>5. u # {}
      BY <1>4, <2>3
    <2>6. DEFINE c == First(u)
    <2>7. c \in u /\ f[u] = c.blocks + f[u \ {c}] /\ c.blocks \in Nat
      BY <1>3, <2>5
    <2> HIDE DEF c
    <2>8. ASSUME NEW x \in u PROVE u \ {x} \in SUBSET S /\ ~Bad(u \ {x})
      <3>1. u \ {x} \in SUBSET S /\ Cardinality(u \ {x}) = Cardinality(u) - 1
        BY <1>2, <2>3
      <3>2. Cardinality(u \ {x}) < n
        BY <1>1, <2>3, <3>1
      <3> HIDE DEF Bad
      <3> QED BY <2>4, <3>1, <3>2
    <2>9. f[u] \in Nat
      <3>1. ~Bad(u \ {c})
        <4> HIDE DEF Bad
        <4> QED BY <2>7, <2>8
      <3>2. f[u \ {c}] \in Nat
        BY <3>1
      <3> HIDE DEF Bad, T
      <3> QED BY <2>7, <3>2
    <2>10. ASSUME NEW x \in u PROVE f[u] = x.blocks + f[u \ {x}]
      <3>1. CASE x = c
        BY <2>7, <3>1
      <3>2. CASE x # c
        <4>1. f[u \ {c}] = x.blocks + f[(u \ {c}) \ {x}]
          BY <2>7, <2>8, <3>2
        <4>2. f[u \ {x}] = c.blocks + f[(u \ {x}) \ {c}]
          BY <2>7, <2>8, <3>2
        <4>3. (u \ {c}) \ {x} = (u \ {x}) \ {c} /\ (u \ {c}) \ {x} \in SUBSET S
          OBVIOUS
        <4>4. x \in u \ {c} /\ c \in u \ {x}
          BY <2>7, <3>2
        <4>5. Cardinality((u \ {c}) \ {x}) < n
          <5>1. u \ {c} \in SUBSET S /\ Cardinality(u \ {c}) = Cardinality(u) - 1
            BY <1>2, <2>3, <2>7
          <5>2. Cardinality((u \ {c}) \ {x}) = Cardinality(u \ {c}) - 1
            BY <1>2, <4>4, <5>1
          <5> QED BY <1>1, <2>3, <5>1, <5>2
        <4>6. f[(u \ {c}) \ {x}] \in Nat
          BY <2>4, <4>3, <4>5
        <4>7. x.blocks \in Nat
          OBVIOUS
        <4>8. f[u \ {x}] = c.blocks + f[(u \ {c}) \ {x}]
          BY <4>2, <4>3
        <4>9. \A a, b, d \in Nat : a + (b + d) = b + (a + d)
          OBVIOUS
        <4>10. f[u] = c.blocks + (x.blocks + f[(u \ {c}) \ {x}])
          BY <2>7, <4>1
        <4> QED BY <2>7, <4>6, <4>7, <4>8, <4>9, <4>10
      <3> QED BY <3>1, <3>2
    <2> QED BY <2>3, <2>9, <2>10
  <1> QED BY <1>4, <1>5

LEMMA BlocksOfNone == Blocks({}) = 0
  <1>1. \E f : AddsUp(f, {}) BY FoldExists, FS_EmptySet
  <1>2. AddsUp(CHOOSE f : AddsUp(f, {}), {}) BY <1>1
  <1> QED BY <1>2, BlocksFold, FoldFacts, FS_EmptySet

\* One more effect adds its blocks, whatever the order of the fold.
LEMMA BlocksAdded ==
    ASSUME NEW S, IsFiniteSet(S), \A y \in S : y.blocks \in Nat,
           NEW x, x \notin S, x.blocks \in Nat
    PROVE  Blocks(S \cup {x}) = Blocks(S) + x.blocks
  <1> DEFINE U == S \cup {x}
             f == CHOOSE g : AddsUp(g, S)
             h == CHOOSE g : AddsUp(g, U)
  <1>1. IsFiniteSet(U) /\ \A y \in U : y.blocks \in Nat
    BY FS_AddElement
  <1>2. AddsUp(f, S) /\ AddsUp(h, U)
    BY <1>1, FoldExists
  <1>3. Blocks(S) = f[S] /\ Blocks(U) = h[U]
    BY BlocksFold
  <1> HIDE DEF f, h
  <1>4. /\ f[{}] = 0 /\ \A s \in SUBSET S : f[s] \in Nat
        /\ \A s \in SUBSET S : \A y \in s : f[s] = y.blocks + f[s \ {y}]
    BY <1>2, FoldFacts
  <1>5. /\ h[{}] = 0 /\ \A s \in SUBSET U : h[s] \in Nat
        /\ \A s \in SUBSET U : \A y \in s : h[s] = y.blocks + h[s \ {y}]
    BY <1>1, <1>2, FoldFacts
  <1> DEFINE T == {Cardinality(s) : s \in {u \in SUBSET S : f[u] # h[u]}}
  <1>6. \A s \in SUBSET S : IsFiniteSet(s) /\ Cardinality(s) \in Nat
    BY FS_Subset, FS_CardinalityType
  <1>7. ASSUME f[S] # h[S] PROVE FALSE
    <2>1. T \subseteq Nat /\ T # {}
      BY <1>6, <1>7
    <2>2. PICK n \in T : \A k \in T : n <= k
      BY <2>1, LeastNatural
    <2>3. PICK u \in SUBSET S : f[u] # h[u] /\ Cardinality(u) = n
      BY <2>2
    <2>4. PICK y \in u : TRUE
      BY <1>4, <1>5, <2>3
    <2>5. u \ {y} \in SUBSET S /\ Cardinality(u \ {y}) < n
      BY <1>6, <2>3, <2>4, FS_RemoveElement
    <2>6. f[u \ {y}] = h[u \ {y}]
      BY <1>6, <2>1, <2>2, <2>5
    <2> QED BY <1>4, <1>5, <2>3, <2>4, <2>6
  <1>8. U \ {x} = S /\ x \in U
    OBVIOUS
  <1>9. h[U] = x.blocks + h[S] /\ h[S] \in Nat
    BY <1>5, <1>8
  <1> QED BY <1>3, <1>7, <1>9

-----------------------------------------------------------------------------
(* The ledger under the methods of the coordinator. *)

Outcomes == {Outcome}

\* m is an audited ledger that differs from l in the request r alone, and no
\* generation went back.
MethodOn(l, m, r) ==
    /\ Audited(m, Requests, Outcomes)
    /\ \A x : x # r => (x \in DOMAIN m.req <=> x \in DOMAIN l.req)
    /\ \A x \in DOMAIN l.req \ {r} : m.req[x] = l.req[x]
    /\ \A p \in Pages : l.alloc.gen[p] <= m.alloc.gen[p]

LEMMA GenTypes ==
    ASSUME NEW l, Audited(l, Requests, Outcomes)
    PROVE  \A p \in Pages : l.alloc.gen[p] \in Nat
  BY SaneLedger DEF Sane

LEMMA ReleaseGen ==
    ASSUME NEW l, Audited(l, Requests, Outcomes), NEW handles
    PROVE  Release(l.alloc, handles).gen = l.alloc.gen
  BY SaneLedger DEF Release, Sane

LEMMA ExtentNat ==
    ASSUME NEW q, q.blocks \in Nat, NEW width \in Nat
    PROVE  Extent(q, width) \in Nat
  <1>1. TailUsed(q) \in Nat
    BY DivMod DEF TailUsed
  <1> QED BY <1>1 DEF Extent

LEMMA RegisterOn ==
    ASSUME NEW l, Audited(l, Requests, Outcomes), NEW r \in Requests, NEW blocks \in Nat,
           CanRegister(l, r, blocks)
    PROVE  LET m == Register(l, r, blocks)
           IN  /\ MethodOn(l, m, r)
               /\ r \in DOMAIN m.req
               /\ m.req[r].blocks = blocks /\ m.req[r].round = -1
               /\ m.req[r].active = NoTxn
  <1> DEFINE m == Register(l, r, blocks)
             n == PagesFor(blocks)
             q == [blocks |-> blocks, trunk |-> Spans(Leases(l.alloc, n), 0, blocks),
                   version |-> FloorOf(l, r), round |-> -1, active |-> NoTxn]
  <1>1. Audited(m, Requests, Outcomes)
    BY RegisterSteps DEF Steps
  <1>2. /\ m.req = With(l.req, r, q)
        /\ m.alloc = Allocate(l.alloc, n, TrunkOwner(r))
    BY DEF Register, Audited, TypedLedger
  <1>3. q.blocks = blocks /\ q.round = -1 /\ q.active = NoTxn
    OBVIOUS
  <1>4. n \in Nat /\ n <= Cardinality(l.alloc.free)
    BY PagesForBounds DEF CanRegister
  <1>5. \A p \in Pages : l.alloc.gen[p] <= m.alloc.gen[p]
    <2> HIDE DEF n, m, q
    <2>1. m.alloc.gen = [p \in Pages |-> IF p \in Taken(l.alloc, n) THEN l.alloc.gen[p] + 1
                                         ELSE l.alloc.gen[p]]
      BY <1>2, <1>4, SaneLedger, AllocateParts
    <2> QED BY <2>1, GenTypes
  <1> HIDE DEF m, q
  <1>6. r \in DOMAIN m.req /\ m.req[r] = q /\ MethodOn(l, m, r)
    BY <1>1, <1>2, <1>5 DEF MethodOn, With
  <1> QED BY <1>3, <1>6 DEF m

\* The branch that a reservation opens and stages.
ReservedOn(l, r, round, width) ==
    LET e     == Epoch(r, round, l.req[r].version + 1)
        begun == Begin(l, r, round)
        m     == Stage(begun, e, Outcome, width)
        pages == Branches(m, e)[Outcome].pages
    IN  /\ CanStage(begun, e, Outcome, width)
        /\ MethodOn(l, m, r)
        /\ r \in DOMAIN m.req
        /\ m.req[r].blocks = l.req[r].blocks /\ m.req[r].round = round
        /\ m.req[r].active # NoTxn /\ m.req[r].active.epoch = e
        /\ e \in EpochType(Requests) /\ e.round = round
        /\ DOMAIN m.req[r].active.branches = {Outcome}
        /\ m.req[r].active.branches[Outcome].appended = width
        /\ m.req[r].active.branches[Outcome].pages = pages
        /\ \A x \in SpanHandles(pages) :
              /\ x.page \in Pages /\ x.gen = m.alloc.gen[x.page]
              /\ x.gen = l.alloc.gen[x.page] + 1

LEMMA ReserveOn ==
    ASSUME NEW l, Audited(l, Requests, Outcomes), NEW r \in Requests, NEW round \in Nat,
           CanBegin(l, r, round), NEW width \in Nat,
           PagesFor(Extent(l.req[r], width)) <= Cardinality(l.alloc.free)
    PROVE  ReservedOn(l, r, round, width)
  <1> DEFINE old == l.req[r]
             version == old.version + 1
             e == Epoch(r, round, version)
             none == [o \in {} |-> 0]
             opened == [epoch |-> e, branches |-> none]
             q == [old EXCEPT !.version = version, !.round = round, !.active = opened]
             begun == Begin(l, r, round)
  <1>1. NoTxn \notin Transaction(Requests, Outcomes)
    BY NothingAssumption DEF Outcomes
  <1>2. /\ r \in DOMAIN l.req /\ old \in Request(Requests, Outcomes)
        /\ old.version \in Nat
    BY RequestFacts DEF CanBegin, Request
  <1>3. /\ e \in EpochType(Requests) /\ e.req = r /\ e.round = round
    BY <1>2 DEF Epoch, EpochType
  <1>4. opened \in Transaction(Requests, Outcomes)
    <2>1. none \in [{} -> Branch]
      OBVIOUS
    <2>2. none \in UNION {[S -> Branch] : S \in SUBSET Outcomes}
      BY <2>1
    <2>3. e \in [req : Requests, round : Nat, version : Nat]
      BY <1>3 DEF EpochType
    <2> HIDE DEF none, e
    <2> QED BY <2>2, <2>3 DEF Transaction
  <1>5. opened # NoTxn /\ opened.epoch = e /\ opened.branches = none /\ DOMAIN none = {}
    BY <1>1, <1>4
  <1>6. /\ q.version = version /\ q.round = round /\ q.active = opened
        /\ q.blocks = old.blocks
    <2> HIDE DEF opened
    <2> QED BY <1>2 DEF Request
  <1>7. /\ begun.req = With(l.req, r, q) /\ begun.alloc = l.alloc
    BY DEF Begin, Audited, TypedLedger
  <1>8. Audited(begun, Requests, Outcomes)
    BY <1>1, BeginSteps DEF Steps
  <1> HIDE DEF begun, q, opened, none
  <1>9. /\ DOMAIN begun.req = DOMAIN l.req /\ begun.req[r] = q
        /\ \A x \in DOMAIN l.req \ {r} : begun.req[x] = l.req[x]
    BY <1>2, <1>7 DEF With
  <1>10. CanStage(begun, e, Outcome, width)
    <2>1. IsActive(begun, e)
      BY <1>2, <1>3, <1>5, <1>6, <1>9 DEF IsActive
    <2>2. Outcome \notin DOMAIN Branches(begun, e)
      BY <1>3, <1>5, <1>6, <1>9 DEF Branches
    <2>3. Extent(begun.req[r], width) = Extent(old, width)
      BY <1>6, <1>9 DEF Extent, Cow, TailUsed
    <2> QED BY <1>3, <1>7, <2>1, <2>2, <2>3 DEF CanStage
  <1> DEFINE extent == Extent(q, width)
             n == PagesFor(extent)
             start == q.blocks - (extent - width)
             spans == Spans(Leases(begun.alloc, n), start, extent)
             branch == [appended |-> width, pages |-> spans, cow |-> Cow(q, width)]
             branches == With(none, Outcome, branch)
             active == [opened EXCEPT !.branches = branches]
             staged == [q EXCEPT !.active = active]
             m == Stage(begun, e, Outcome, width)
  <1>11. /\ begun.req[r] = q /\ q.active = opened /\ opened.branches = none
         /\ q \in Request(Requests, Outcomes)
    BY <1>5, <1>6, <1>8, <1>9, <1>2, RequestFacts
  <1>12. /\ m.req = With(begun.req, r, staged)
         /\ m.alloc = Allocate(begun.alloc, n, BranchOwner(e, Outcome))
    <2>1. m.alloc = Allocate(begun.alloc, PagesFor(Extent(begun.req[e.req], width)),
                             BranchOwner(e, Outcome))
      BY <1>8 DEF Stage, Audited, TypedLedger
    <2>2. e.req = r
      BY <1>3
    <2> HIDE DEF e
    <2> QED BY <1>8, <1>11, <2>1, <2>2 DEF Stage, Audited, TypedLedger
  <1>13. Audited(m, Requests, Outcomes)
    BY <1>1, <1>8, <1>10, StageSteps DEF Steps, Outcomes
  <1>14. /\ DOMAIN branches = {Outcome} /\ branches[Outcome] = branch
    BY <1>5 DEF With
  <1>15. active.branches = branches /\ active.epoch = e
    <2> HIDE DEF branches, e
    <2> QED BY <1>5 DEF opened
  <1>16. staged.active = active /\ staged.blocks = q.blocks /\ staged.round = q.round
    <2> HIDE DEF active
    <2> QED BY <1>11 DEF Request
  <1>17. branch.appended = width /\ branch.pages = spans
    OBVIOUS
  <1> HIDE DEF staged, active, branches, branch
  <1>18. /\ DOMAIN m.req = DOMAIN l.req /\ m.req[r] = staged
         /\ \A x \in DOMAIN l.req \ {r} : m.req[x] = l.req[x]
    BY <1>2, <1>9, <1>12 DEF With
  <1>19. staged.active # NoTxn
    <2>1. Branches(m, e) = branches
      BY <1>3, <1>15, <1>16, <1>18 DEF Branches
    <2>2. opened \in Transaction(Requests, Outcomes)
      BY <1>4
    <2>3. active \in [epoch : {e}, branches : {branches}]
      <3> HIDE DEF e
      <3> QED BY DEF active, opened
    <2>4. spans \in Seq(Span)
      <3>1. extent \in Nat /\ q.blocks \in Nat
        BY <1>11, ExtentNat DEF Request
      <3>2. start \in Int
        BY <3>1
      <3>3. n <= Cardinality(begun.alloc.free)
        BY <1>3, <1>10, <1>11 DEF CanStage
      <3> HIDE DEF start, extent
      <3> QED BY <1>8, <3>1, <3>2, <3>3, SaneLedger, SpansCover
    <2>5. branch \in Branch
      <3> HIDE DEF spans
      <3> QED BY <2>4 DEF branch, Branch, Cow
    <2>6. branches \in UNION {[S -> Branch] : S \in SUBSET Outcomes}
      <3>1. branches \in [{Outcome} -> Branch]
        BY <1>14, <2>5 DEF branches, With
      <3> HIDE DEF branches
      <3> QED BY <3>1 DEF Outcomes
    <2>7. active \in Transaction(Requests, Outcomes)
      BY <1>3, <2>3, <2>6 DEF Transaction, EpochType
    <2> QED BY <1>1, <1>16, <2>7
  <1>20. Branches(m, e)[Outcome].pages = spans
    BY <1>3, <1>14, <1>15, <1>16, <1>17, <1>18 DEF Branches
  <1>21. ASSUME NEW x \in SpanHandles(spans)
         PROVE  x.page \in Pages /\ x.gen = m.alloc.gen[x.page]
                /\ x.gen = l.alloc.gen[x.page] + 1
    <2>1. extent \in Nat /\ q.blocks \in Nat
      BY <1>11, ExtentNat DEF Request
    <2>2. start \in Int
      BY <2>1
    <2>3. n <= Cardinality(begun.alloc.free)
      BY <1>3, <1>10, <1>11 DEF CanStage
    <2>4. Sane(l.alloc) /\ n <= Cardinality(l.alloc.free)
      BY <1>7, <2>3, SaneLedger
    <2> DEFINE s == Spans(Leases(l.alloc, PagesFor(extent)), start, extent)
    <2>5. /\ n \in Nat /\ Len(s) = n
          /\ \A i \in 1 .. n : s[i].handle = Leases(l.alloc, n)[i]
      <3> HIDE DEF start, extent
      <3> QED BY <2>1, <2>2, <2>4, SpansCover
    <2>6. s = spans
      BY <1>7
    <2> HIDE DEF s, n, start, extent
    <2>7. PICK i \in 1 .. n : x = spans[i].handle
      BY <2>5, <2>6 DEF SpanHandles
    <2>8. x = Handle(NthFree(l.alloc, i), NextGen(l.alloc, NthFree(l.alloc, i)), l.alloc.pool)
      BY <2>5, <2>6, <2>7 DEF Leases
    <2>9. x.page = NthFree(l.alloc, i) /\ x.gen = l.alloc.gen[x.page] + 1
      BY <2>8, HandleFields DEF NextGen
    <2>10. /\ Taken(l.alloc, n) \subseteq l.alloc.free
           /\ m.alloc.gen = [p \in Pages |-> IF p \in Taken(l.alloc, n) THEN l.alloc.gen[p] + 1
                                             ELSE l.alloc.gen[p]]
      <3> DEFINE after == Allocate(l.alloc, n, BranchOwner(e, Outcome))
      <3>1. /\ Taken(l.alloc, n) \subseteq l.alloc.free
            /\ after.gen = [p \in Pages |-> IF p \in Taken(l.alloc, n) THEN l.alloc.gen[p] + 1
                                            ELSE l.alloc.gen[p]]
        BY <2>4, <2>5, AllocateParts
      <3>2. m.alloc = after
        BY <1>7, <1>12
      <3> HIDE DEF after
      <3> QED BY <3>1, <3>2
    <2>11. x.page \in Taken(l.alloc, n)
      BY <2>9 DEF Taken
    <2>12. x.page \in Pages
      BY <2>4, <2>10, <2>11 DEF Sane
    <2> QED BY <2>9, <2>10, <2>11, <2>12
  <1>22. \A p \in Pages : l.alloc.gen[p] <= m.alloc.gen[p]
    <2>1. n \in Nat /\ n <= Cardinality(l.alloc.free)
      <3>1. extent \in Nat
        BY <1>11, ExtentNat DEF Request
      <3> QED BY <1>3, <1>7, <1>10, <1>11, <3>1, PagesForBounds DEF CanStage
    <2> HIDE DEF n, m
    <2>2. m.alloc.gen = [p \in Pages |-> IF p \in Taken(l.alloc, n) THEN l.alloc.gen[p] + 1
                                         ELSE l.alloc.gen[p]]
      BY <1>7, <1>12, <2>1, SaneLedger, AllocateParts
    <2> QED BY <2>2, GenTypes
  <1> HIDE DEF m, spans
  <1>23. MethodOn(l, m, r)
    BY <1>2, <1>13, <1>18, <1>22 DEF MethodOn
  <1>24. /\ r \in DOMAIN m.req /\ m.req[r].blocks = old.blocks /\ m.req[r].round = round
         /\ m.req[r].active # NoTxn /\ m.req[r].active.epoch = e
         /\ DOMAIN m.req[r].active.branches = {Outcome}
         /\ m.req[r].active.branches[Outcome].appended = width
         /\ m.req[r].active.branches[Outcome].pages = spans
    BY <1>2, <1>6, <1>14, <1>15, <1>16, <1>17, <1>18, <1>19
  <1> HIDE DEF e
  <1> QED BY <1>3, <1>10, <1>20, <1>21, <1>23, <1>24 DEF m, e, begun, ReservedOn

LEMMA CommitOn ==
    ASSUME NEW l, Audited(l, Requests, Outcomes), NEW e, NEW accepted \in Nat,
           CanCommit(l, e, Outcome, accepted)
    PROVE  LET m == Commit(l, e, Outcome, accepted)
               r == e.req
           IN  /\ MethodOn(l, m, r)
               /\ r \in DOMAIN m.req
               /\ m.req[r].blocks = l.req[r].blocks + accepted
               /\ m.req[r].round = l.req[r].round
               /\ m.req[r].active = NoTxn
  <1> DEFINE m == Commit(l, e, Outcome, accepted)
             r == e.req
             request == l.req[r]
             branch == Branches(l, e)[Outcome]
             keep == IF accepted = 0 THEN <<>>
                     ELSE AcceptedPages(branch, request.blocks + accepted)
             stays == Len(request.trunk) - ReplacedTail(request, branch, accepted)
             replaced == SubSeq(request.trunk, stays + 1, Len(request.trunk))
             trunk == SubSeq(request.trunk, 1, stays) \o keep
             blocks == CommittedAfter(request, branch, accepted)
             q == [request EXCEPT !.trunk = trunk, !.blocks = blocks, !.active = NoTxn]
  <1>1. r \in DOMAIN l.req /\ request \in Request(Requests, Outcomes)
    BY ActiveFacts DEF CanCommit
  <1>2. Audited(m, Requests, Outcomes)
    BY CommitSteps DEF Steps
  <1>3. /\ m.req = With(l.req, r, q)
        /\ m.alloc = Reassign(Release(l.alloc, ReleasedByCommit(l, e, keep, replaced)),
                              SpanHandles(keep), TrunkOwner(r))
    BY <1>1 DEF Commit, Audited, TypedLedger, Request
  <1>4. blocks = request.blocks + accepted
    BY DEF CommittedAfter
  <1> HIDE DEF trunk, blocks
  <1>5. q.blocks = blocks /\ q.round = request.round /\ q.active = NoTxn
    BY <1>1 DEF Request
  <1> HIDE DEF keep, replaced, q
  <1>6. m.alloc.gen = l.alloc.gen
    <2> DEFINE kept == Release(l.alloc, ReleasedByCommit(l, e, keep, replaced))
    <2>1. kept.gen = l.alloc.gen
      BY ReleaseGen
    <2>2. m.alloc = Reassign(kept, SpanHandles(keep), TrunkOwner(r))
      BY <1>3
    <2>3. kept \in [pool : {kept.pool}, gen : {kept.gen}, free : {kept.free}, live : {kept.live}]
      BY SaneLedger DEF Release, Sane
    <2> HIDE DEF kept, m
    <2> QED BY <2>1, <2>2, <2>3 DEF Reassign
  <1>7. \A p \in Pages : l.alloc.gen[p] <= m.alloc.gen[p]
    BY <1>6, GenTypes
  <1> HIDE DEF m, blocks
  <1>8. r \in DOMAIN m.req /\ m.req[r] = q /\ MethodOn(l, m, r)
    BY <1>1, <1>2, <1>3, <1>7 DEF MethodOn, With
  <1> QED BY <1>4, <1>5, <1>8 DEF m

LEMMA DropOn ==
    ASSUME NEW l, Audited(l, Requests, Outcomes), NEW r \in DOMAIN l.req
    PROVE  MethodOn(l, Drop(l, r), r) /\ r \notin DOMAIN Drop(l, r).req
  <1> DEFINE m == Drop(l, r)
  <1>1. Audited(m, Requests, Outcomes)
    BY DropSteps DEF Steps, CanDrop
  <1>2. m.req = Without(l.req, r) /\ m.alloc.gen = l.alloc.gen
    <2> DEFINE handles == SpanHandles(l.req[r].trunk) \cup
                              IF l.req[r].active = NoTxn THEN {}
                              ELSE BranchHandles(l.req[r].active.branches)
    <2>1. m.req = Without(l.req, r) /\ m.alloc = Release(l.alloc, handles)
      BY DEF Drop, Audited, TypedLedger
    <2> HIDE DEF handles
    <2> QED BY <2>1, ReleaseGen
  <1>3. \A p \in Pages : l.alloc.gen[p] <= m.alloc.gen[p]
    BY <1>2, GenTypes
  <1> HIDE DEF m
  <1>4. MethodOn(l, m, r) /\ r \notin DOMAIN m.req
    BY <1>1, <1>2, <1>3 DEF MethodOn, Without
  <1> QED BY <1>4 DEF m

LEMMA AbortOn ==
    ASSUME NEW l, Audited(l, Requests, Outcomes), NEW e, IsActive(l, e)
    PROVE  MethodOn(l, Abort(l, e), e.req) /\ e.req \in DOMAIN Abort(l, e).req
  <1> DEFINE m == Abort(l, e)
             q == [l.req[e.req] EXCEPT !.active = NoTxn]
  <1>1. Audited(m, Requests, Outcomes) /\ e.req \in DOMAIN l.req
    BY AbortSteps, ActiveFacts DEF Steps
  <1>2. m.req = With(l.req, e.req, q) /\ m.alloc.gen = l.alloc.gen
    <2>1. /\ m.req = With(l.req, e.req, q)
          /\ m.alloc = Release(l.alloc, BranchHandles(Branches(l, e)))
      BY DEF Abort, Audited, TypedLedger
    <2> QED BY <2>1, ReleaseGen
  <1>3. \A p \in Pages : l.alloc.gen[p] <= m.alloc.gen[p]
    BY <1>2, GenTypes
  <1> HIDE DEF m
  <1>4. MethodOn(l, m, e.req) /\ e.req \in DOMAIN m.req
    BY <1>1, <1>2, <1>3 DEF MethodOn, With
  <1> QED BY <1>4 DEF m

LEMMA MethodOnTransitive ==
    ASSUME NEW l, NEW m, NEW k, NEW r, Audited(l, Requests, Outcomes),
           MethodOn(l, m, r), MethodOn(m, k, r)
    PROVE  MethodOn(l, k, r)
  <1>1. \A p \in Pages : /\ l.alloc.gen[p] \in Nat /\ m.alloc.gen[p] \in Nat
                         /\ k.alloc.gen[p] \in Nat
    BY GenTypes DEF MethodOn
  <1>2. \A p \in Pages : l.alloc.gen[p] <= k.alloc.gen[p]
    BY <1>1 DEF MethodOn
  <1> QED BY <1>2 DEF MethodOn

\* Aborting several open epochs at once.
LEMMA AbortAllOn ==
    ASSUME NEW l, Audited(l, Requests, Outcomes), NEW E, \A e \in E : IsActive(l, e)
    PROVE  LET m == AbortAll(l, E)
           IN  /\ Audited(m, Requests, Outcomes)
               /\ m.alloc.gen = l.alloc.gen
               /\ DOMAIN m.req = DOMAIN l.req
               /\ \A x \in DOMAIN l.req :
                     /\ m.req[x].blocks = l.req[x].blocks
                     /\ m.req[x].round = l.req[x].round
                     /\ m.req[x].active = IF \E e \in E : e.req = x THEN NoTxn
                                          ELSE l.req[x].active
  <1> DEFINE m == AbortAll(l, E)
             Hit(x) == \E e \in E : e.req = x
             quiet(x) == [l.req[x] EXCEPT !.active = NoTxn]
             handles == UNION {BranchHandles(Branches(l, e)) : e \in E}
             G == UNION {TransactionHoldings(l.req[e.req].active) : e \in E}
  <1>1. \A e \in E : /\ e.req \in DOMAIN l.req /\ e \in EpochType(Requests)
                     /\ l.req[e.req].active # NoTxn /\ l.req[e.req].active.epoch = e
                     /\ e.version = l.req[e.req].version /\ e.round = l.req[e.req].round
                     /\ e.version \in Nat /\ e.round \in Nat
                     /\ Branches(l, e) = l.req[e.req].active.branches
    BY ActiveFacts
  <1>2. \A x \in DOMAIN l.req : l.req[x] \in Request(Requests, Outcomes) /\ Aligned(l.req[x])
    BY RequestFacts
  <1>3. /\ m \in [alloc : {m.alloc}, req : {m.req}, aborted : {m.aborted}, floor : {m.floor}]
        /\ m.alloc = Release(l.alloc, handles)
        /\ m.req = [x \in DOMAIN l.req |-> IF Hit(x) THEN quiet(x) ELSE l.req[x]]
        /\ m.aborted = l.aborted \cup E
        /\ m.floor = l.floor
    BY DEF AbortAll, Audited, TypedLedger
  <1>4. \A x \in DOMAIN l.req :
            /\ quiet(x) \in Request(Requests, Outcomes) /\ quiet(x).active = NoTxn
            /\ quiet(x).blocks = l.req[x].blocks /\ quiet(x).round = l.req[x].round
            /\ quiet(x).trunk = l.req[x].trunk /\ quiet(x).version = l.req[x].version
    BY <1>2 DEF Request
  <1> HIDE DEF m, quiet, handles, Hit
  <1>5. /\ DOMAIN m.req = DOMAIN l.req
        /\ \A x \in DOMAIN l.req :
              /\ m.req[x] \in Request(Requests, Outcomes)
              /\ m.req[x].blocks = l.req[x].blocks /\ m.req[x].round = l.req[x].round
              /\ m.req[x].trunk = l.req[x].trunk /\ m.req[x].version = l.req[x].version
              /\ m.req[x].active = IF Hit(x) THEN NoTxn ELSE l.req[x].active
              /\ ~Hit(x) => m.req[x] = l.req[x]
    BY <1>2, <1>3, <1>4
  <1>6. m.alloc.gen = l.alloc.gen
    BY <1>3, ReleaseGen
  <1>7. Holdings(m) = Holdings(l) \ G /\ G \in SUBSET Holdings(l)
    <2>1. \A x \in DOMAIN l.req : l.req[x].active # NoTxn => l.req[x].active.epoch.req = x
      BY RequestFacts
    <2>2. ASSUME NEW h \in G
          PROVE  \E y \in DOMAIN l.req : /\ Hit(y)
                                         /\ h \in TransactionHoldings(l.req[y].active)
                                         /\ h \in RequestHoldings(y, l.req[y])
      <3>1. PICK e \in E : h \in TransactionHoldings(l.req[e.req].active)
        OBVIOUS
      <3> QED BY <1>1, <3>1 DEF Hit, RequestHoldings
    <2>3. ASSUME NEW y \in DOMAIN l.req, Hit(y)
          PROVE  TransactionHoldings(l.req[y].active) \subseteq G
      BY <2>3 DEF Hit
    <2> HIDE DEF G
    <2>4. ASSUME NEW h \in Holdings(m) PROVE h \in Holdings(l) /\ h \notin G
      <3>1. PICK x \in DOMAIN l.req : h \in RequestHoldings(x, m.req[x])
        BY <1>5, HoldingsAre
      <3>2. m.req[x].trunk = l.req[x].trunk
        BY <1>5
      <3>3. Hit(x) => h = <<TrunkOwner(x), l.req[x].trunk>>
        <4>1. Hit(x) => TransactionHoldings(m.req[x].active) = {}
          BY <1>5 DEF TransactionHoldings
        <4> QED BY <3>1, <3>2, <4>1 DEF RequestHoldings
      <3>4. h \in RequestHoldings(x, l.req[x])
        <4>1. CASE Hit(x)
          BY <3>3, <4>1 DEF RequestHoldings
        <4>2. CASE ~Hit(x)
          BY <1>5, <3>1, <4>2
        <4> QED BY <4>1, <4>2
      <3>5. ASSUME h \in G PROVE FALSE
        <4>1. PICK y \in DOMAIN l.req : /\ Hit(y)
                                        /\ h \in TransactionHoldings(l.req[y].active)
                                        /\ h \in RequestHoldings(y, l.req[y])
          BY <2>2, <3>5
        <4>2. Holder(h) = x /\ Holder(h) = y
          BY <2>1, <3>4, <4>1, HolderIs
        <4> QED BY <3>3, <4>1, <4>2, TrunkApart
      <3> QED BY <3>4, <3>5, HoldingsAre
    <2>5. ASSUME NEW h \in Holdings(l), h \notin G PROVE h \in Holdings(m)
      <3>1. PICK x \in DOMAIN l.req : h \in RequestHoldings(x, l.req[x])
        BY HoldingsAre
      <3>2. h \in RequestHoldings(x, m.req[x])
        BY <1>5, <2>3, <2>5, <3>1 DEF RequestHoldings
      <3> QED BY <1>5, <3>2, HoldingsAre
    <2>6. \A h \in G : h \in Holdings(l)
      BY <2>2, HoldingsAre
    <2> QED BY <2>4, <2>5, <2>6
  <1>8. Custody(m.alloc, Holdings(m))
    <2>1. \A x : x \in HandlesOf(G) <=> x \in handles
      <3>1. \A e \in E : HandlesOf(TransactionHoldings(l.req[e.req].active))
                             = BranchHandles(Branches(l, e))
        BY <1>1, TransactionHandles
      <3>2. \A x : x \in HandlesOf(G) <=>
                \E e \in E : x \in HandlesOf(TransactionHoldings(l.req[e.req].active))
        BY DEF HandlesOf
      <3> HIDE DEF G
      <3> QED BY <3>1, <3>2 DEF handles
    <2> HIDE DEF G
    <2>2. HandlesOf(G) = handles
      BY <2>1
    <2> QED BY <1>3, <1>7, <2>2, CustodyRelease DEF Audited
  <1> HIDE DEF G
  <1>9. TypedLedger(m, Requests, Outcomes)
    <2>1. m.req \in [DOMAIN m.req -> Request(Requests, Outcomes)]
      BY <1>3, <1>5
    <2>2. m.aborted \in SUBSET EpochType(Requests)
      BY <1>1, <1>3 DEF Audited, TypedLedger
    <2> QED BY <1>3, <1>5, <2>1, <2>2 DEF Audited, TypedLedger
  <1>10. \A x \in DOMAIN m.req : Aligned(m.req[x])
    <2> SUFFICES ASSUME NEW x \in DOMAIN l.req PROVE Aligned(m.req[x])
      BY <1>5
    <2>1. CASE Hit(x)
      BY <1>2, <1>5, <2>1 DEF Aligned
    <2>2. CASE ~Hit(x)
      BY <1>2, <1>5, <2>2
    <2> QED BY <2>1, <2>2
  <1>11. EpochsConsistent(m)
    <2>1. ASSUME NEW x \in DOMAIN m.req
          PROVE  /\ x \in DOMAIN m.floor /\ m.floor[x] = m.req[x].version
                 /\ m.req[x].version = 0 => m.req[x].round = -1
                 /\ m.req[x].active # NoTxn =>
                       m.req[x].active.epoch = Epoch(x, m.req[x].round, m.req[x].version)
      <3>1. x \in DOMAIN l.req
        BY <1>5
      <3>2. /\ x \in DOMAIN l.floor /\ l.floor[x] = l.req[x].version
            /\ l.req[x].version = 0 => l.req[x].round = -1
            /\ l.req[x].active # NoTxn =>
                  l.req[x].active.epoch = Epoch(x, l.req[x].round, l.req[x].version)
        BY <3>1, RequestFacts
      <3>3. m.req[x].active # NoTxn => m.req[x].active = l.req[x].active
        BY <1>5, <3>1
      <3> QED BY <1>3, <1>5, <3>1, <3>2, <3>3
    <2>2. ASSUME NEW e \in m.aborted, e.req \in DOMAIN m.req
          PROVE  /\ e.version <= m.req[e.req].version
                 /\ e.round <= m.req[e.req].round
                 /\ ~IsActive(m, e)
      <3>1. CASE e \in E
        <4>1. Hit(e.req)
          BY <3>1 DEF Hit
        <4>2. m.req[e.req].active = NoTxn
          BY <1>5, <2>2, <4>1
        <4> QED BY <1>1, <1>5, <3>1, <4>2 DEF IsActive
      <3>2. CASE e \in l.aborted
        <4>1. /\ e.version <= l.req[e.req].version /\ e.round <= l.req[e.req].round
              /\ ~IsActive(l, e)
          BY <1>5, <2>2, <3>2 DEF Audited, EpochsConsistent
        <4> QED BY <1>5, <2>2, <4>1 DEF IsActive
      <3> QED BY <1>3, <2>2, <3>1, <3>2
    <2> QED BY <2>1, <2>2 DEF EpochsConsistent
  <1>12. \A e \in m.aborted : e.req \in DOMAIN m.req
    BY <1>1, <1>3, <1>5 DEF Audited
  <1>13. Audited(m, Requests, Outcomes)
    BY <1>8, <1>9, <1>10, <1>11, <1>12 DEF Audited
  <1> QED BY <1>5, <1>6, <1>13 DEF m, Hit

-----------------------------------------------------------------------------
(* Records and ledger together. *)

\* The record of r and its request in l describe the same state.
Linked(l, r, record) ==
    /\ record \in [proto : Protocol, total : Nat, committed : Nat,
                    epoch : EpochType(Requests) \cup {NoEpoch}, table : {record.table},
                    cancelled : BOOLEAN, highWater : Nat]
    /\ Sound(record.proto, r)
    /\ record.highWater = record.proto.version
    /\ record.committed <= record.total
    /\ IF record.cancelled
       THEN /\ record.proto.state = "finished" /\ r \notin DOMAIN l.req
            /\ record.epoch = NoEpoch /\ record.table = NoEpoch
       ELSE /\ r \in DOMAIN l.req
            /\ l.req[r].blocks = record.committed
            /\ l.req[r].round = record.proto.round
            /\ IF record.proto.state = "verifying"
               THEN /\ Bound(l, r, record)
                    /\ record.committed + record.table.reserved <= record.total
               ELSE /\ record.epoch = NoEpoch /\ record.table = NoEpoch
                    /\ l.req[r].active = NoTxn
            /\ record.proto.state = "finished" => Complete(record)
            /\ Complete(record) => record.proto.state \in {"finished", "recovering"}

Whole(recs, l) ==
    /\ Audited(l, Requests, Outcomes)
    /\ recs = [r \in DOMAIN recs |-> recs[r]]
    /\ DOMAIN recs \subseteq Requests
    /\ DOMAIN l.req \subseteq DOMAIN recs
    /\ \A r \in DOMAIN recs : Linked(l, r, recs[r])

LEMMA WholeChanged ==
    ASSUME NEW recs, NEW l, Whole(recs, l), NEW r \in Requests, NEW m, MethodOn(l, m, r),
           NEW record, Linked(m, r, record)
    PROVE  Whole(With(recs, r, record), m)
  <1> DEFINE after == With(recs, r, record)
  <1>1. /\ DOMAIN after = DOMAIN recs \cup {r} /\ after[r] = record
        /\ \A x \in DOMAIN recs \ {r} : after[x] = recs[x]
        /\ after = [x \in DOMAIN after |-> after[x]]
    BY DEF With
  <1>2. ASSUME NEW x \in DOMAIN recs \ {r} PROVE Linked(m, x, recs[x])
    <2>1. /\ x \in DOMAIN m.req <=> x \in DOMAIN l.req
          /\ x \in DOMAIN l.req => m.req[x] = l.req[x]
      BY DEF MethodOn
    <2>2. Linked(l, x, recs[x])
      BY DEF Whole
    <2> DEFINE rec == recs[x]
    <2> HIDE DEF rec
    <2>3. Bound(l, x, rec) /\ x \in DOMAIN l.req => Bound(m, x, rec)
      BY <2>1 DEF Bound
    <2>4. Linked(l, x, rec)
      BY <2>2 DEF rec
    <2>5. Linked(m, x, rec)
      BY <2>1, <2>3, <2>4 DEF Linked
    <2> QED BY <2>5 DEF rec
  <1>3. DOMAIN m.req \subseteq DOMAIN after /\ DOMAIN after \subseteq Requests
    BY <1>1 DEF MethodOn, Whole
  <1> HIDE DEF after
  <1>4. \A x \in DOMAIN after : Linked(m, x, after[x])
    BY <1>1, <1>2
  <1>5. Audited(m, Requests, Outcomes)
    BY DEF MethodOn
  <1>6. Whole(after, m)
    BY <1>1, <1>3, <1>4, <1>5 DEF Whole
  <1> QED BY <1>6 DEF after

LEMMA ExceptIsWith ==
    ASSUME NEW recs, NEW l, Whole(recs, l), NEW r \in DOMAIN recs, NEW record
    PROVE  [recs EXCEPT ![r] = record] = With(recs, r, record)
  BY DEF Whole, With

\* The fields of a settled record.
LEMMA SettledFields ==
    ASSUME NEW l, NEW r \in Requests, NEW record, Linked(l, r, record),
           NEW p, Sound(p, r), record.proto.version <= p.version
    PROVE  LET s == Settled(record, p)
           IN  /\ s \in [proto : Protocol, total : Nat, committed : Nat,
                          epoch : {NoEpoch}, table : {NoEpoch},
                          cancelled : BOOLEAN, highWater : Nat]
               /\ s.proto = p /\ s.highWater = p.version
               /\ s.total = record.total /\ s.committed = record.committed
               /\ s.cancelled = record.cancelled
  <1> DEFINE high == IF p.version > record.highWater THEN p.version ELSE record.highWater
             s == [record EXCEPT !.proto = p, !.epoch = NoEpoch, !.table = NoEpoch,
                                 !.highWater = high]
  <1>1. /\ record \in [proto : Protocol, total : Nat, committed : Nat,
                        epoch : EpochType(Requests) \cup {NoEpoch}, table : {record.table},
                        cancelled : BOOLEAN, highWater : Nat]
        /\ record.highWater = record.proto.version
    BY DEF Linked
  <1>2. p \in Protocol /\ p.version \in Nat /\ record.highWater \in Nat
    BY <1>1 DEF Sound, Protocol
  <1>3. high = p.version
    BY <1>1, <1>2
  <1>4. Settled(record, p) = s
    BY <1>1 DEF Settled
  <1> HIDE DEF high
  <1>5. /\ s \in [proto : Protocol, total : Nat, committed : Nat,
                   epoch : {NoEpoch}, table : {NoEpoch},
                   cancelled : BOOLEAN, highWater : Nat]
        /\ s.proto = p /\ s.highWater = high
        /\ s.total = record.total /\ s.committed = record.committed
        /\ s.cancelled = record.cancelled
    BY <1>1, <1>2, <1>3
  <1> HIDE DEF s
  <1> QED BY <1>3, <1>4, <1>5

\* The step changes the record of r alone, to protocol p, and its pages.
Changes(r, p, committed, cancelled) ==
    /\ records' = With(records, r, records'[r])
    /\ records'[r].proto = p /\ records'[r].committed = committed
    /\ records'[r].cancelled = cancelled
    /\ Whole(records', ledger')
    /\ MethodOn(ledger, ledger', r)

LEMMA ChangesWhen ==
    ASSUME NEW r \in Requests, NEW record, records' = With(records, r, record),
           NEW m, ledger' = m, MethodOn(ledger, m, r),
           Whole(records, ledger), Linked(m, r, record),
           NEW p, record.proto = p, NEW committed, record.committed = committed,
           NEW cancelled, record.cancelled = cancelled
    PROVE  Changes(r, p, committed, cancelled)
  <1>1. records'[r] = record
    BY DEF With
  <1>2. Whole(With(records, r, record), ledger')
    BY WholeChanged
  <1> QED BY <1>1, <1>2 DEF Changes

-----------------------------------------------------------------------------
(* The methods keep records and ledger together. *)

LEMMA RegisterWhole ==
    ASSUME Whole(records, ledger), NEW r \in Requests, NEW total \in Nat, NEW committed \in Nat,
           RegisterRequest(r, total, committed)
    PROVE  LET p == IF committed = total THEN FinishProtocol(NewProtocol) ELSE NewProtocol
           IN  /\ Changes(r, p, committed, FALSE)
               /\ Sound(p, r) /\ p.state \in {"ready", "finished"} /\ p.version \in Nat
  <1> DEFINE p == IF committed = total THEN FinishProtocol(NewProtocol) ELSE NewProtocol
             record == [proto |-> p, total |-> total, committed |-> committed,
                        epoch |-> NoEpoch, table |-> NoEpoch, cancelled |-> FALSE,
                        highWater |-> p.version]
  <1>1. /\ ledger' = Register(ledger, r, committed) /\ CanRegister(ledger, r, committed)
        /\ records' = With(records, r, record) /\ committed <= total
    BY DEF RegisterRequest
  <1>2. /\ MethodOn(ledger, ledger', r)
        /\ r \in DOMAIN ledger'.req
        /\ ledger'.req[r].blocks = committed /\ ledger'.req[r].round = -1
        /\ ledger'.req[r].active = NoTxn
    BY <1>1, RegisterOn DEF Whole
  <1>3. /\ Sound(p, r) /\ p.version \in Nat /\ p.round = -1
        /\ p.state = IF committed = total THEN "finished" ELSE "ready"
    BY NewSound, FinishSound DEF CanFinish, NewProtocol, FinishProtocol
  <1> HIDE DEF p
  <1>4. Linked(ledger', r, record)
    BY <1>1, <1>2, <1>3 DEF Linked, Sound, Complete
  <1>5. record.proto = p /\ record.committed = committed /\ record.cancelled = FALSE
    OBVIOUS
  <1> HIDE DEF record
  <1>6. Changes(r, p, committed, FALSE)
    BY <1>1, <1>2, <1>4, <1>5, ChangesWhen
  <1> QED BY <1>3, <1>6 DEF p

LEMMA ReservedPagesAre ==
    ASSUME NEW record, NEW q, q.blocks = record.committed, record.committed \in Nat,
           NEW width \in Nat, width > 0
    PROVE  ReservedPages(record, width) = PagesFor(Extent(q, width))
  <1>1. record.committed % PageSize \in Nat
    BY DivMod
  <1> QED BY <1>1 DEF ReservedPages, Extent, Cow, TailUsed

\* A reservation that passes the preflight finds its round and its pages.
LEMMA PreflightFits ==
    ASSUME Whole(records, ledger), NEW r, NEW width \in Nat, width > 0, Preflight(r, width)
    PROVE  /\ r \in Requests /\ r \in DOMAIN records
           /\ records[r].proto.round + 1 \in Nat
           /\ CanBegin(ledger, r, records[r].proto.round + 1)
           /\ CanStartVerification(records[r].proto, records[r].proto.round + 1)
           /\ PagesFor(Extent(ledger.req[r], width)) <= Cardinality(ledger.alloc.free)
  <1>1. /\ r \in DOMAIN records /\ r \in Requests /\ Linked(ledger, r, records[r])
        /\ ~records[r].cancelled /\ records[r].proto.state \in ReadyStates
        /\ ReservedPages(records[r], width) <= Cardinality(ledger.alloc.free)
    BY DEF Preflight, IsReady, Whole
  <1>2. /\ r \in DOMAIN ledger.req /\ ledger.req[r].active = NoTxn
        /\ ledger.req[r].blocks = records[r].committed /\ records[r].committed \in Nat
        /\ ledger.req[r].round = records[r].proto.round
        /\ records[r].proto.round \in Nat \cup {-1}
    BY <1>1 DEF Linked, Protocol
  <1> QED BY <1>1, <1>2, ReservedPagesAre DEF CanBegin, CanStartVerification

LEMMA ReserveWhole ==
    ASSUME Whole(records, ledger), NEW r \in Requests, NEW width \in Nat, width > 0,
           Reserve(r, width)
    PROVE  LET round == records[r].proto.round + 1
               p     == StartVerification(records[r].proto, r, round)
           IN  /\ Changes(r, p, records[r].committed, FALSE)
               /\ r \in DOMAIN records /\ ~records[r].cancelled
               /\ records[r].proto.state \in ReadyStates
               /\ Sound(p, r) /\ p.state = "verifying"
               /\ p.version = records[r].proto.version + 1
               /\ ReservedOn(ledger, r, round, width)
  <1> DEFINE record == records[r]
             round == record.proto.round + 1
             p == StartVerification(record.proto, r, round)
             e == Epoch(r, round, ledger.req[r].version + 1)
             begun == Begin(ledger, r, round)
             staged == Stage(begun, e, Outcome, width)
             spans == Branches(staged, e)[Outcome].pages
             pages == Coordinates(spans)
             table == [epoch |-> e, base |-> record.committed,
                       reserved |-> width, pages |-> pages]
             new == [Settled(record, p) EXCEPT !.epoch = e, !.table = table]
  <1>1. /\ Preflight(r, width) /\ ledger' = staged
        /\ records' = [records EXCEPT ![r] = new]
    BY DEF Reserve
  <1>2. /\ r \in DOMAIN records /\ Linked(ledger, r, record) /\ ~record.cancelled
        /\ record.proto.state \in ReadyStates
        /\ width <= record.total - record.committed
    BY <1>1 DEF Preflight, IsReady, Whole
  <1>3. /\ round \in Nat /\ CanBegin(ledger, r, round)
        /\ CanStartVerification(record.proto, round)
        /\ PagesFor(Extent(ledger.req[r], width)) <= Cardinality(ledger.alloc.free)
    BY <1>1, PreflightFits
  <1>0. ReservedOn(ledger, r, round, width)
    <2>1. Audited(ledger, Requests, Outcomes)
      BY DEF Whole
    <2> HIDE DEF round
    <2> QED BY <1>3, <2>1, ReserveOn
  <1>4. /\ MethodOn(ledger, staged, r)
        /\ r \in DOMAIN staged.req
        /\ staged.req[r].blocks = ledger.req[r].blocks /\ staged.req[r].round = round
        /\ staged.req[r].active # NoTxn /\ staged.req[r].active.epoch = e
        /\ e \in EpochType(Requests) /\ e.round = round
        /\ DOMAIN staged.req[r].active.branches = {Outcome}
        /\ staged.req[r].active.branches[Outcome].appended = width
        /\ staged.req[r].active.branches[Outcome].pages = spans
    <2> HIDE DEF round
    <2> QED BY <1>0 DEF ReservedOn
  <1>5. /\ Sound(p, r) /\ p.state = "verifying" /\ p.round = round
        /\ p.version = record.proto.version + 1 /\ p.active.round = round
    BY <1>2, <1>3, StartSound DEF StartVerification, Linked, TagAt
  <1>6. record.proto.version <= p.version
    BY <1>2, <1>5 DEF Linked, Protocol
  <1> HIDE DEF staged, spans, e, p, round
  <1> DEFINE s == Settled(record, p)
  <1>7. /\ s \in [proto : Protocol, total : Nat, committed : Nat,
                   epoch : {NoEpoch}, table : {NoEpoch},
                   cancelled : BOOLEAN, highWater : Nat]
        /\ s.proto = p /\ s.highWater = p.version
        /\ s.total = record.total /\ s.committed = record.committed
        /\ s.cancelled = record.cancelled
    BY <1>2, <1>5, <1>6, SettledFields
  <1> HIDE DEF s
  <1>8. table.epoch = e /\ table.base = record.committed /\ table.reserved = width
        /\ table.pages = pages
    OBVIOUS
  <1> HIDE DEF table, pages
  <1>9. /\ new \in [proto : Protocol, total : Nat, committed : Nat,
                     epoch : EpochType(Requests) \cup {NoEpoch}, table : {new.table},
                     cancelled : BOOLEAN, highWater : Nat]
        /\ new.proto = p /\ new.highWater = p.version /\ new.epoch = e /\ new.table = table
        /\ new.total = record.total /\ new.committed = record.committed
        /\ new.cancelled = record.cancelled
    BY <1>4, <1>7 DEF s
  <1> HIDE DEF new
  <1>10. e # NoEpoch
    BY <1>4, NothingAssumption DEF EpochType
  <1>11. Bound(staged, r, new)
    BY <1>4, <1>5, <1>8, <1>9, <1>10 DEF Bound, pages
  <1>12. Linked(staged, r, new)
    <2>1. record.committed \in Nat /\ record.total \in Nat
          /\ record.committed <= record.total /\ ledger.req[r].blocks = record.committed
      BY <1>2 DEF Linked
    <2>2. record.committed # record.total /\ record.committed + width <= record.total
      BY <1>2, <2>1
    <2> QED BY <1>2, <1>4, <1>5, <1>8, <1>9, <1>11, <2>1, <2>2 DEF Linked, Complete
  <1>13. records' = With(records, r, new)
    BY <1>1, <1>2, ExceptIsWith
  <1>14. ledger' = staged
    BY <1>1 DEF staged, e, round
  <1>15. Changes(r, p, record.committed, FALSE)
    <2>1. /\ new.proto = p /\ new.committed = record.committed
          /\ new.cancelled = FALSE /\ MethodOn(ledger, staged, r)
      BY <1>2, <1>4, <1>9
    <2> QED BY <1>12, <1>13, <1>14, <2>1, ChangesWhen
  <1> QED BY <1>0, <1>2, <1>5, <1>15 DEF p, round

\* A reply the coordinator expects finds the branch of its request open.
LEMMA VerifyingOpen ==
    ASSUME NEW l, Audited(l, Requests, Outcomes), NEW r \in Requests, NEW record,
           Linked(l, r, record), ~record.cancelled, record.proto.state = "verifying"
    PROVE  /\ IsActive(l, record.epoch) /\ record.epoch.req = r
           /\ record.epoch \in EpochType(Requests) /\ record.epoch # NoEpoch
           /\ Outcome \in DOMAIN Branches(l, record.epoch)
           /\ Branches(l, record.epoch)[Outcome].appended = record.table.reserved
           /\ record.table.reserved \in Nat
  <1>1. /\ Bound(l, r, record) /\ r \in DOMAIN l.req
        /\ record.epoch \in EpochType(Requests) \cup {NoEpoch}
    BY DEF Linked
  <1>2. /\ l.req[r].active # NoTxn /\ l.req[r].active \in Transaction(Requests, Outcomes)
        /\ l.req[r].active.epoch = record.epoch /\ record.epoch.req = r
        /\ DOMAIN l.req[r].active.branches = {Outcome}
        /\ record.epoch # NoEpoch
        /\ record.table.reserved = l.req[r].active.branches[Outcome].appended
    <2>1. /\ l.req[r].active # NoTxn /\ l.req[r].active.epoch = record.epoch
          /\ DOMAIN l.req[r].active.branches = {Outcome}
          /\ record.epoch # NoEpoch
          /\ record.table.reserved = l.req[r].active.branches[Outcome].appended
      BY <1>1 DEF Bound
    <2>2. /\ l.req[r].active \in Transaction(Requests, Outcomes)
          /\ l.req[r].active.epoch.req = r
      BY <1>1, <2>1, RequestFacts
    <2> QED BY <2>1, <2>2
  <1>3. l.req[r].active.branches[Outcome] \in Branch
    BY <1>2 DEF Transaction
  <1>4. record.table.reserved \in Nat
    BY <1>2, <1>3 DEF Branch
  <1> QED BY <1>1, <1>2, <1>4 DEF IsActive, Branches

LEMMA AfterVerifySound ==
    ASSUME NEW r \in Requests, NEW record, Sound(record.proto, r), NEW tag,
           MatchesVerify(record.proto, tag), NEW hit \in BOOLEAN, NEW accepted \in Nat
    PROVE  LET p == AfterVerify(record, hit, accepted)
           IN  /\ Sound(p, r) /\ p.round = record.proto.round
               /\ record.proto.version <= p.version
               /\ p.version \in Nat
               /\ p.state = IF hit
                            THEN IF record.committed + accepted = record.total
                                 THEN "finished" ELSE "ready_hit"
                            ELSE "recovering"
               /\ p.state = "recovering" => /\ p.active = record.proto.active
                                             /\ p.version = record.proto.version
                                             /\ p.accepted = accepted
  <1> DEFINE h == HandleVerifyReply(record.proto, hit, accepted)
  <1>1. /\ Sound(h, r) /\ h.round = record.proto.round /\ h.version = record.proto.version
        /\ h.state = IF hit THEN "ready_hit" ELSE "recovering"
        /\ h.accepted = accepted
        /\ ~hit => h.active = record.proto.active
    BY VerifySound DEF HandleVerifyReply
  <1> HIDE DEF h
  <1>2. h.version \in Nat
    BY <1>1 DEF Sound, Protocol
  <1>3. hit => Sound(FinishProtocol(h), r)
    BY <1>1, FinishSound DEF CanFinish
  <1> QED BY <1>1, <1>2, <1>3 DEF AfterVerify, FinishProtocol, h

LEMMA VerifyWhole ==
    ASSUME Whole(records, ledger), NEW tag, NEW hit \in BOOLEAN, NEW accepted \in Nat,
           VerifyComplete(tag, hit, accepted)
    PROVE  LET r == tag.req
               p == AfterVerify(records[r], hit, accepted)
           IN  /\ Changes(r, p, records[r].committed + accepted, FALSE)
               /\ r \in Requests /\ r \in DOMAIN records /\ ~records[r].cancelled
               /\ Linked(ledger, r, records[r])
               /\ MatchesVerify(records[r].proto, tag)
  <1> DEFINE r == tag.req
             record == records[r]
             p == AfterVerify(record, hit, accepted)
             after == Commit(ledger, record.epoch, Outcome, accepted)
             s == Settled(record, p)
             new == [s EXCEPT !.committed = after.req[r].blocks]
  <1>1. /\ ledger' = after /\ records' = [records EXCEPT ![r] = new]
        /\ Expects(r, "verify", tag) /\ accepted <= record.table.reserved
    BY DEF VerifyComplete
  <1>2. /\ r \in DOMAIN records /\ r \in Requests /\ Linked(ledger, r, record)
        /\ ~record.cancelled /\ MatchesVerify(record.proto, tag)
        /\ record.proto.state = "verifying" /\ Audited(ledger, Requests, Outcomes)
    BY <1>1 DEF Expects, MatchesVerify, Whole
  <1>3. /\ IsActive(ledger, record.epoch) /\ record.epoch.req = r
        /\ Outcome \in DOMAIN Branches(ledger, record.epoch)
        /\ Branches(ledger, record.epoch)[Outcome].appended = record.table.reserved
        /\ record.table.reserved \in Nat
    BY <1>2, VerifyingOpen
  <1>4. CanCommit(ledger, record.epoch, Outcome, accepted)
    BY <1>1, <1>3 DEF CanCommit
  <1>5. /\ MethodOn(ledger, after, r)
        /\ r \in DOMAIN after.req
        /\ after.req[r].blocks = ledger.req[r].blocks + accepted
        /\ after.req[r].round = ledger.req[r].round
        /\ after.req[r].active = NoTxn
    BY <1>2, <1>3, <1>4, CommitOn
  <1>6. /\ Sound(p, r) /\ p.round = record.proto.round
        /\ record.proto.version <= p.version
        /\ p.state = IF hit
                     THEN IF record.committed + accepted = record.total
                          THEN "finished" ELSE "ready_hit"
                     ELSE "recovering"
    <2>1. Sound(record.proto, r)
      BY <1>2 DEF Linked
    <2> QED BY <1>2, <2>1, AfterVerifySound
  <1> HIDE DEF p, after
  <1>7. /\ s \in [proto : Protocol, total : Nat, committed : Nat,
                   epoch : {NoEpoch}, table : {NoEpoch},
                   cancelled : BOOLEAN, highWater : Nat]
        /\ s.proto = p /\ s.highWater = p.version
        /\ s.total = record.total /\ s.committed = record.committed
        /\ s.cancelled = record.cancelled
    BY <1>2, <1>6, SettledFields
  <1> HIDE DEF s
  <1>8. /\ record.committed \in Nat /\ ledger.req[r].blocks = record.committed
        /\ record.committed + accepted <= record.total /\ record.total \in Nat
        /\ ledger.req[r].round = record.proto.round
    <2>1. /\ record.committed \in Nat /\ ledger.req[r].blocks = record.committed
          /\ record.committed + record.table.reserved <= record.total /\ record.total \in Nat
          /\ ledger.req[r].round = record.proto.round
      BY <1>2 DEF Linked
    <2> QED BY <1>1, <1>3, <2>1
  <1>9. /\ new \in [proto : Protocol, total : Nat, committed : Nat,
                     epoch : EpochType(Requests) \cup {NoEpoch}, table : {new.table},
                     cancelled : BOOLEAN, highWater : Nat]
        /\ new.proto = p /\ new.highWater = p.version
        /\ new.epoch = NoEpoch /\ new.table = NoEpoch
        /\ new.total = record.total /\ new.committed = record.committed + accepted
        /\ new.cancelled = record.cancelled
    BY <1>5, <1>7, <1>8
  <1> HIDE DEF new
  <1>10. Linked(after, r, new)
    BY <1>2, <1>5, <1>6, <1>8, <1>9 DEF Linked, Complete
  <1>11. records' = With(records, r, new)
    BY <1>1, <1>2, ExceptIsWith
  <1>12. Changes(r, p, record.committed + accepted, FALSE)
    <2>1. /\ new.proto = p /\ new.committed = record.committed + accepted
          /\ new.cancelled = FALSE /\ MethodOn(ledger, after, r)
      BY <1>2, <1>5, <1>9
    <2>2. ledger' = after /\ r \in Requests
      BY <1>1, <1>2 DEF after
    <2> QED BY <1>10, <1>11, <2>1, <2>2, ChangesWhen
  <1> QED BY <1>2, <1>12 DEF p

LEMMA RecoveryWhole ==
    ASSUME Whole(records, ledger), NEW tag, NEW finished \in BOOLEAN,
           RecoveryComplete(tag, finished)
    PROVE  LET r == tag.req
               p == HandleRecoveryReply(records[r].proto, finished)
           IN  /\ Changes(r, p, records[r].committed, FALSE)
               /\ r \in Requests /\ r \in DOMAIN records
               /\ p.state \in {"finished", "ready_backup"}
               /\ p.version = records[r].proto.version
  <1> DEFINE r == tag.req
             record == records[r]
             p == HandleRecoveryReply(record.proto, finished)
             s == Settled(record, p)
  <1>1. /\ ledger' = ledger /\ records' = [records EXCEPT ![r] = s]
        /\ Expects(r, "recovery", tag) /\ finished = Complete(record)
    BY DEF RecoveryComplete
  <1>2. /\ r \in DOMAIN records /\ r \in Requests /\ Linked(ledger, r, record)
        /\ ~record.cancelled /\ MatchesRecovery(record.proto, tag)
        /\ record.proto.state = "recovering"
    BY <1>1 DEF Expects, MatchesRecovery, Whole
  <1>3. Sound(record.proto, r) /\ record.proto.version \in Nat
    BY <1>2 DEF Linked, Sound, Protocol
  <1>4. /\ Sound(p, r) /\ p.round = record.proto.round /\ p.version = record.proto.version
        /\ p.state = IF finished THEN "finished" ELSE "ready_backup"
        /\ record.proto.version <= p.version
    BY <1>2, <1>3, RecoverySound DEF HandleRecoveryReply
  <1> HIDE DEF p
  <1>5. /\ s \in [proto : Protocol, total : Nat, committed : Nat,
                   epoch : {NoEpoch}, table : {NoEpoch},
                   cancelled : BOOLEAN, highWater : Nat]
        /\ s.proto = p /\ s.highWater = p.version
        /\ s.total = record.total /\ s.committed = record.committed
        /\ s.cancelled = record.cancelled
    BY <1>2, <1>4, SettledFields
  <1>6. s.epoch = NoEpoch /\ s.table = NoEpoch
    BY <1>5
  <1> HIDE DEF s
  <1>7. Linked(ledger, r, s)
    BY <1>1, <1>2, <1>4, <1>5, <1>6 DEF Linked, Complete
  <1>8. records' = With(records, r, s)
    BY <1>1, <1>2, ExceptIsWith
  <1>9. MethodOn(ledger, ledger', r)
    BY <1>1, GenTypes DEF Whole, MethodOn
  <1>10. Changes(r, p, record.committed, FALSE)
    <2>1. s.proto = p /\ s.committed = record.committed /\ s.cancelled = FALSE
      BY <1>2, <1>5
    <2>2. ledger' = ledger /\ MethodOn(ledger, ledger, r) /\ r \in Requests
      BY <1>1, <1>2, <1>9
    <2> QED BY <1>7, <1>8, <2>1, <2>2, ChangesWhen
  <1> QED BY <1>2, <1>4, <1>10 DEF p

LEMMA ClosedSound ==
    ASSUME NEW r \in Requests, NEW p, Sound(p, r)
    PROVE  /\ Sound(Closed(p), r) /\ Closed(p).state = "finished"
           /\ p.version <= Closed(p).version
  <1>1. p.state \in ProtocolStates /\ p.version \in Nat
    BY DEF Sound, Protocol
  <1>2. CASE p.state = "verifying"
    <2> DEFINE h == HandleVerifyReply(p, TRUE, 0)
    <2>1. Sound(h, r) /\ h.state = "ready_hit" /\ h.version = p.version
      BY <1>2, VerifySound DEF MatchesVerify, HandleVerifyReply
    <2> HIDE DEF h
    <2>2. Sound(FinishProtocol(h), r)
      BY <2>1, FinishSound DEF CanFinish
    <2>3. Closed(p) = FinishProtocol(h)
      BY <1>2 DEF Closed, h
    <2> QED BY <1>1, <2>1, <2>2, <2>3 DEF FinishProtocol
  <1>3. CASE p.state = "recovering"
    <2>1. Sound(HandleRecoveryReply(p, TRUE), r)
      BY <1>3, RecoverySound DEF MatchesRecovery
    <2>2. Closed(p) = HandleRecoveryReply(p, TRUE)
      BY <1>3 DEF Closed
    <2> QED BY <1>1, <2>1, <2>2 DEF HandleRecoveryReply
  <1>4. CASE p.state \in ReadyStates
    <2>1. Sound(FinishProtocol(p), r)
      BY <1>4, FinishSound DEF CanFinish
    <2>2. Closed(p) = FinishProtocol(p)
      BY <1>4 DEF Closed
    <2> QED BY <1>1, <2>1, <2>2 DEF FinishProtocol
  <1>5. CASE p.state = "finished"
    BY <1>1, <1>5 DEF Closed
  <1> QED BY <1>1, <1>2, <1>3, <1>4, <1>5

LEMMA CancelWhole ==
    ASSUME Whole(records, ledger), NEW r \in Requests, Cancel(r)
    PROVE  LET p == Closed(records[r].proto)
           IN  /\ Changes(r, p, records[r].committed, TRUE)
               /\ r \in DOMAIN records
               /\ p.state = "finished" /\ records[r].proto.version <= p.version
  <1> DEFINE record == records[r]
             aborted == IF record.epoch = NoEpoch THEN ledger ELSE Abort(ledger, record.epoch)
             p == Closed(record.proto)
             s == Settled(record, p)
             new == [s EXCEPT !.cancelled = TRUE]
  <1>1. /\ ledger' = Drop(aborted, r) /\ records' = [records EXCEPT ![r] = new]
        /\ r \in DOMAIN records /\ ~record.cancelled
    BY DEF Cancel
  <1>2. Linked(ledger, r, record) /\ Audited(ledger, Requests, Outcomes)
    BY <1>1 DEF Whole
  <1>3. MethodOn(ledger, aborted, r) /\ r \in DOMAIN aborted.req
    <2>1. CASE record.proto.state = "verifying"
      <3>1. IsActive(ledger, record.epoch) /\ record.epoch.req = r /\ record.epoch # NoEpoch
        BY <1>1, <1>2, <2>1, VerifyingOpen
      <3>2. aborted = Abort(ledger, record.epoch)
        BY <3>1
      <3> QED BY <1>2, <3>1, <3>2, AbortOn
    <2>2. CASE record.proto.state # "verifying"
      <3>1. record.epoch = NoEpoch /\ r \in DOMAIN ledger.req
        BY <1>1, <1>2, <2>2 DEF Linked
      <3>2. MethodOn(ledger, ledger, r)
        BY <1>2, GenTypes DEF MethodOn
      <3> QED BY <3>1, <3>2
    <2> QED BY <2>1, <2>2
  <1> HIDE DEF aborted
  <1>4. MethodOn(aborted, ledger', r) /\ r \notin DOMAIN ledger'.req
    <2>1. Audited(aborted, Requests, Outcomes)
      BY <1>3 DEF MethodOn
    <2> QED BY <1>1, <1>3, <2>1, DropOn
  <1>5. MethodOn(ledger, ledger', r)
    BY <1>2, <1>3, <1>4, MethodOnTransitive
  <1>6. /\ Sound(p, r) /\ p.state = "finished" /\ record.proto.version <= p.version
    BY <1>2, ClosedSound DEF Linked
  <1> HIDE DEF p
  <1>7. /\ s \in [proto : Protocol, total : Nat, committed : Nat,
                   epoch : {NoEpoch}, table : {NoEpoch},
                   cancelled : BOOLEAN, highWater : Nat]
        /\ s.proto = p /\ s.highWater = p.version
        /\ s.total = record.total /\ s.committed = record.committed
    BY <1>2, <1>6, SettledFields
  <1> HIDE DEF s
  <1>8. /\ new \in [proto : Protocol, total : Nat, committed : Nat,
                     epoch : EpochType(Requests) \cup {NoEpoch}, table : {new.table},
                     cancelled : BOOLEAN, highWater : Nat]
        /\ new.proto = p /\ new.highWater = p.version
        /\ new.epoch = NoEpoch /\ new.table = NoEpoch
        /\ new.total = record.total /\ new.committed = record.committed
        /\ new.cancelled = TRUE
    BY <1>7
  <1> HIDE DEF new
  <1>9. Linked(ledger', r, new)
    <2>1. record.committed <= record.total
      BY <1>2 DEF Linked
    <2> QED BY <1>4, <1>6, <1>8, <2>1 DEF Linked
  <1>10. records' = With(records, r, new)
    BY <1>1, ExceptIsWith
  <1>11. Changes(r, p, record.committed, TRUE)
    <2>1. new.proto = p /\ new.committed = record.committed /\ new.cancelled = TRUE
      BY <1>8
    <2> QED BY <1>5, <1>9, <1>10, <2>1, ChangesWhen
  <1> QED BY <1>1, <1>6, <1>11 DEF p

-----------------------------------------------------------------------------
(* Restoration. *)

\* The coordinates of a block table survive the move to another namespace.
LEMMA CoordinatesRebased ==
    ASSUME NEW pages \in Seq(Span), NEW pool \in Nat
    PROVE  Coordinates(RebaseSpans(pages, pool)) = Coordinates(pages)
  <1> DEFINE moved == RebaseSpans(pages, pool)
  <1>1. /\ Len(pages) \in Nat /\ Len(moved) = Len(pages)
        /\ \A i \in 1 .. Len(pages) :
              moved[i].handle = Handle(pages[i].handle.page, pages[i].handle.gen, pool)
    BY RebasedSpans
  <1>2. \A i \in 1 .. Len(pages) : /\ moved[i].handle.page = pages[i].handle.page
                                   /\ moved[i].handle.gen = pages[i].handle.gen
    BY <1>1, HandleFields
  <1> HIDE DEF moved
  <1> DEFINE At(h) == [page |-> h.page, gen |-> h.gen]
  <1>3. \A i \in 1 .. Len(pages) : At(moved[i].handle) = At(pages[i].handle)
    BY <1>2
  <1>4. \A c : c \in Coordinates(pages) <=> \E i \in 1 .. Len(pages) : c = At(pages[i].handle)
    BY DEF Coordinates, SpanHandles
  <1>5. \A c : c \in Coordinates(moved) <=> \E i \in 1 .. Len(pages) : c = At(moved[i].handle)
    BY <1>1 DEF Coordinates, SpanHandles
  <1> HIDE DEF At
  <1>6. \A c : c \in Coordinates(moved) <=> c \in Coordinates(pages)
    BY <1>3, <1>4, <1>5
  <1>7. Coordinates(moved) = Coordinates(pages)
    BY <1>6
  <1> QED BY <1>7 DEF moved

LEMMA RestoredWhole ==
    ASSUME NEW recs, NEW l, Whole(recs, l), NEW pool \in Nat
    PROVE  LET m == RestoreLedger(l, pool)
           IN  /\ Whole(recs, m)
               /\ m.alloc.gen = l.alloc.gen
               /\ DOMAIN m.req = DOMAIN l.req
  <1> DEFINE m == RestoreLedger(l, pool)
  <1>0. NoTxn \notin Transaction(Requests, Outcomes) /\ Audited(l, Requests, Outcomes)
    BY NothingAssumption DEF Outcomes, Whole
  <1>1. Audited(m, Requests, Outcomes) /\ m.alloc = Rebase(l.alloc, pool)
    BY <1>0, RestoreAudited
  <1>2. m.req = [r \in DOMAIN l.req |-> RebaseRequest(l.req[r], pool)]
    BY <1>0 DEF RestoreLedger, Audited, TypedLedger
  <1>3. m.alloc.gen = l.alloc.gen
    BY <1>0, <1>1, SaneLedger DEF Rebase, Sane
  <1> HIDE DEF m
  <1>4. ASSUME NEW r \in DOMAIN l.req
        PROVE  /\ m.req[r].blocks = l.req[r].blocks /\ m.req[r].round = l.req[r].round
               /\ m.req[r].active = RebaseTxn(l.req[r].active, pool)
               /\ m.req[r].active = NoTxn <=> l.req[r].active = NoTxn
               /\ l.req[r] \in Request(Requests, Outcomes)
    BY <1>0, <1>2, RequestFacts, RebasedRequest
  <1>5. ASSUME NEW r \in DOMAIN recs PROVE Linked(m, r, recs[r])
    <2> DEFINE record == recs[r]
    <2>1. Linked(l, r, record)
      BY DEF Whole
    <2>2. ASSUME Bound(l, r, record), r \in DOMAIN l.req PROVE Bound(m, r, record)
      <3> DEFINE txn == l.req[r].active
      <3>1. txn # NoTxn /\ txn \in Transaction(Requests, Outcomes)
        BY <1>0, <2>2, RequestFacts DEF Bound
      <3>2. /\ m.req[r].active.epoch = txn.epoch
            /\ DOMAIN m.req[r].active.branches = DOMAIN txn.branches
            /\ \A o \in DOMAIN txn.branches :
                  /\ txn.branches[o] \in Branch
                  /\ m.req[r].active.branches[o].appended = txn.branches[o].appended
                  /\ m.req[r].active.branches[o].pages = RebaseSpans(txn.branches[o].pages, pool)
        BY <1>4, <2>2, <3>1, RebasedTransaction
      <3>3. Outcome \in DOMAIN txn.branches
        BY <2>2 DEF Bound
      <3>4. txn.branches[Outcome].pages \in Seq(Span)
        BY <3>2, <3>3 DEF Branch
      <3>5. Coordinates(m.req[r].active.branches[Outcome].pages)
                = Coordinates(txn.branches[Outcome].pages)
        BY <3>2, <3>3, <3>4, CoordinatesRebased
      <3> QED BY <1>4, <2>2, <3>1, <3>2, <3>3, <3>5 DEF Bound
    <2>3. DOMAIN m.req = DOMAIN l.req
      BY <1>2
    <2>4. CASE r \in DOMAIN l.req
      BY <1>4, <2>1, <2>2, <2>3, <2>4 DEF Linked
    <2>5. CASE r \notin DOMAIN l.req
      BY <2>1, <2>3, <2>5 DEF Linked
    <2> QED BY <2>4, <2>5
  <1>6. DOMAIN m.req = DOMAIN l.req
    BY <1>2
  <1>7. Whole(recs, m)
    BY <1>1, <1>5, <1>6 DEF Whole
  <1> QED BY <1>3, <1>6, <1>7 DEF m

\* What a crash makes of a snapshot, and the requests it fences.
Fenced(recs) == {r \in DOMAIN recs : Interrupted(recs[r])}

Resumed(recs) ==
    [r \in DOMAIN recs |->
        IF r \in Fenced(recs) THEN Settled(recs[r], ResumeAfterCrash(recs[r].proto, r))
        ELSE recs[r]]

Reborn(recs, l, pool) ==
    AbortAll(RestoreLedger(l, pool), {recs[r].epoch : r \in Fenced(recs)} \ {NoEpoch})

\* A fenced record is recovering, one version above its snapshot.
LEMMA FencedRecord ==
    ASSUME NEW recs, NEW l, Whole(recs, l), NEW r \in Fenced(recs)
    PROVE  LET record == recs[r]
               new    == Resumed(recs)[r]
           IN  /\ r \in DOMAIN recs /\ r \in Requests
               /\ ~record.cancelled /\ record.proto.state \in InFlightStates
               /\ new \in [proto : Protocol, total : Nat, committed : Nat,
                            epoch : {NoEpoch}, table : {NoEpoch},
                            cancelled : BOOLEAN, highWater : Nat]
               /\ Sound(new.proto, r) /\ new.highWater = new.proto.version
               /\ new.total = record.total /\ new.committed = record.committed
               /\ new.cancelled = record.cancelled
               /\ new.proto.state = "recovering"
               /\ new.proto.round = record.proto.round
               /\ new.proto.version = record.proto.version + 1
               /\ record.proto.version \in Nat
               /\ new.proto.active \in Tag
               /\ new.proto.active.req = r /\ new.proto.active.version = new.proto.version
  <1> DEFINE record == recs[r]
             p == ResumeAfterCrash(record.proto, r)
             new == Settled(record, p)
  <1>1. /\ r \in DOMAIN recs /\ r \in Requests /\ Linked(l, r, record)
        /\ ~record.cancelled /\ record.proto.state \in InFlightStates
    BY DEF Whole, Fenced, Interrupted
  <1>2. Sound(record.proto, r) /\ record.proto.version \in Nat
    BY <1>1 DEF Linked, Sound, Protocol
  <1>3. /\ Sound(p, r) /\ p.state = "recovering" /\ p.round = record.proto.round
        /\ p.version = record.proto.version + 1 /\ record.proto.version <= p.version
    BY <1>1, <1>2, ResumeSound DEF ResumeAfterCrash, InvalidateInflight
  <1> HIDE DEF p
  <1>4. p.active \in Tag /\ p.active.req = r /\ p.active.version = p.version
    BY <1>1, <1>3, ActiveTag
  <1>5. /\ new \in [proto : Protocol, total : Nat, committed : Nat,
                     epoch : {NoEpoch}, table : {NoEpoch},
                     cancelled : BOOLEAN, highWater : Nat]
        /\ new.proto = p /\ new.highWater = p.version
        /\ new.total = record.total /\ new.committed = record.committed
        /\ new.cancelled = record.cancelled
    BY <1>1, <1>3, SettledFields
  <1>6. Resumed(recs)[r] = new
    BY <1>1 DEF Resumed, p
  <1> HIDE DEF new
  <1> QED BY <1>1, <1>2, <1>3, <1>4, <1>5, <1>6

LEMMA RebornWhole ==
    ASSUME NEW recs, NEW l, Whole(recs, l), NEW pool \in Nat
    PROVE  /\ Whole(Resumed(recs), Reborn(recs, l, pool))
           /\ Reborn(recs, l, pool).alloc.gen = l.alloc.gen
           /\ DOMAIN Resumed(recs) = DOMAIN recs
  <1> DEFINE k == RestoreLedger(l, pool)
             E == {recs[r].epoch : r \in Fenced(recs)} \ {NoEpoch}
             m == AbortAll(k, E)
             after == Resumed(recs)
  <1>1. Whole(recs, k) /\ k.alloc.gen = l.alloc.gen
    BY RestoredWhole
  <1> HIDE DEF k
  <1>2. ASSUME NEW r \in Fenced(recs), recs[r].proto.state = "verifying"
        PROVE  recs[r].epoch \in E /\ recs[r].epoch.req = r /\ IsActive(k, recs[r].epoch)
    <2>1. r \in Requests /\ Linked(k, r, recs[r]) /\ ~recs[r].cancelled
          /\ Audited(k, Requests, Outcomes)
      BY <1>1 DEF Whole, Fenced, Interrupted
    <2>2. /\ IsActive(k, recs[r].epoch) /\ recs[r].epoch.req = r
          /\ recs[r].epoch # NoEpoch
      BY <1>2, <2>1, VerifyingOpen
    <2> QED BY <2>2
  <1>3. ASSUME NEW r \in Fenced(recs), recs[r].proto.state # "verifying"
        PROVE  recs[r].epoch = NoEpoch
    BY <1>1, <1>3 DEF Whole, Fenced, Interrupted, Linked
  <1>4. \A e \in E : IsActive(k, e)
    BY <1>2, <1>3
  <1>5. \A r \in Fenced(recs) : recs[r].proto.state = "verifying" => \E e \in E : e.req = r
    BY <1>2
  <1> HIDE DEF E
  <1>6. /\ Audited(m, Requests, Outcomes)
        /\ m.alloc.gen = k.alloc.gen
        /\ DOMAIN m.req = DOMAIN k.req
        /\ \A x \in DOMAIN k.req :
              /\ m.req[x].blocks = k.req[x].blocks
              /\ m.req[x].round = k.req[x].round
              /\ m.req[x].active = IF \E e \in E : e.req = x THEN NoTxn
                                   ELSE k.req[x].active
    BY <1>1, <1>4, AbortAllOn DEF Whole
  <1> HIDE DEF m
  <1>7. /\ after = [r \in DOMAIN after |-> after[r]] /\ DOMAIN after = DOMAIN recs
        /\ \A r \in DOMAIN recs \ Fenced(recs) : after[r] = recs[r]
    BY DEF Resumed
  <1>8. ASSUME NEW r \in Fenced(recs) PROVE Linked(m, r, after[r])
    <2> DEFINE new == after[r]
    <2>1. /\ r \in DOMAIN recs /\ r \in Requests
          /\ ~recs[r].cancelled /\ recs[r].proto.state \in InFlightStates
          /\ new \in [proto : Protocol, total : Nat, committed : Nat,
                       epoch : {NoEpoch}, table : {NoEpoch},
                       cancelled : BOOLEAN, highWater : Nat]
          /\ Sound(new.proto, r) /\ new.highWater = new.proto.version
          /\ new.total = recs[r].total /\ new.committed = recs[r].committed
          /\ new.cancelled = recs[r].cancelled
          /\ new.proto.state = "recovering"
          /\ new.proto.round = recs[r].proto.round
      BY FencedRecord
    <2> HIDE DEF after
    <2>2. Linked(k, r, recs[r])
      BY <1>1, <2>1 DEF Whole
    <2>3. /\ r \in DOMAIN k.req /\ k.req[r].blocks = recs[r].committed
          /\ k.req[r].round = recs[r].proto.round
          /\ recs[r].committed <= recs[r].total
          /\ recs[r].proto.state # "verifying" => k.req[r].active = NoTxn
      BY <2>1, <2>2 DEF Linked
    <2>4. m.req[r].active = NoTxn
      BY <1>5, <1>6, <2>3
    <2>5. /\ r \in DOMAIN m.req /\ m.req[r].blocks = new.committed
          /\ m.req[r].round = new.proto.round /\ new.committed <= new.total
      BY <1>6, <2>1, <2>3
    <2>6. ~new.cancelled /\ new.epoch = NoEpoch /\ new.table = NoEpoch
      BY <2>1
    <2> HIDE DEF new
    <2>7. Linked(m, r, new)
      BY <2>1, <2>4, <2>5, <2>6 DEF Linked
    <2> QED BY <2>7 DEF new
  <1>9. ASSUME NEW r \in DOMAIN recs \ Fenced(recs) PROVE Linked(m, r, recs[r])
    <2>1. Linked(k, r, recs[r]) /\ ~Interrupted(recs[r])
      BY <1>1 DEF Whole, Fenced
    <2>2. r \in DOMAIN k.req =>
              /\ m.req[r].blocks = k.req[r].blocks /\ m.req[r].round = k.req[r].round
              /\ k.req[r].active = NoTxn => m.req[r].active = NoTxn
      BY <1>6
    <2> QED BY <1>6, <2>1, <2>2 DEF Linked, Interrupted
  <1>10. DOMAIN m.req \subseteq DOMAIN after /\ DOMAIN after \subseteq Requests
    BY <1>1, <1>6, <1>7 DEF Whole
  <1> HIDE DEF after
  <1>11. Whole(after, m)
    BY <1>6, <1>7, <1>8, <1>9, <1>10 DEF Whole
  <1>12. Reborn(recs, l, pool) = m
    BY DEF Reborn, m, k, E
  <1> QED BY <1>1, <1>6, <1>7, <1>11, <1>12 DEF after

LEMMA CrashWhole ==
    ASSUME Whole(durable.records, durable.ledger), ledger.alloc.pool \in Nat, Crash
    PROVE  /\ records' = Resumed(durable.records)
           /\ ledger' = Reborn(durable.records, durable.ledger, ledger.alloc.pool + 1)
           /\ Whole(records', ledger')
           /\ ledger'.alloc.gen = durable.ledger.alloc.gen
  <1>1. /\ records' = Resumed(durable.records)
        /\ ledger' = Reborn(durable.records, durable.ledger, ledger.alloc.pool + 1)
    BY DEF Crash, Resumed, Reborn, Fenced
  <1> DEFINE pool == ledger.alloc.pool + 1
             recs == durable.records
             l == durable.ledger
  <1>2. pool \in Nat
    OBVIOUS
  <1> HIDE DEF pool, recs, l
  <1>3. /\ Whole(Resumed(recs), Reborn(recs, l, pool))
        /\ Reborn(recs, l, pool).alloc.gen = l.alloc.gen
    BY <1>2, RebornWhole DEF recs, l
  <1>4. records' = Resumed(recs) /\ ledger' = Reborn(recs, l, pool)
    BY <1>1 DEF recs, l, pool
  <1> QED BY <1>1, <1>3, <1>4 DEF recs, l, pool

-----------------------------------------------------------------------------
(* The outbox is what a restoration would rebuild. *)

LEMMA RebuiltChanged ==
    ASSUME NEW recs, NEW box, box = RebuiltOutbox(recs), NEW r, NEW record
    PROVE  LET after == RebuiltOutbox(With(recs, r, record))
           IN  IF ~record.cancelled /\ record.proto.state = "recovering"
               THEN after = With(box, r, [tag |-> record.proto.active,
                                          accepted |-> record.proto.accepted])
               ELSE after = Without(box, r)
  <1> DEFINE in(recs2) == {x \in DOMAIN recs2 :
                             ~recs2[x].cancelled /\ recs2[x].proto.state = "recovering"}
             to(record2) == [tag |-> record2.proto.active, accepted |-> record2.proto.accepted]
             next == With(recs, r, record)
  <1>1. /\ box = [x \in in(recs) |-> to(recs[x])]
        /\ RebuiltOutbox(next) = [x \in in(next) |-> to(next[x])]
    BY DEF RebuiltOutbox
  <1>2. /\ DOMAIN next = DOMAIN recs \cup {r} /\ next[r] = record
        /\ \A x \in DOMAIN recs \ {r} : next[x] = recs[x]
    BY DEF With
  <1> HIDE DEF next
  <1>3. \A x : x # r => (x \in in(next) <=> x \in in(recs))
    BY <1>2
  <1>4. r \in in(next) <=> ~record.cancelled /\ record.proto.state = "recovering"
    BY <1>2
  <1>5. \A x \in in(recs) \ {r} : next[x] = recs[x]
    BY <1>2
  <1> HIDE DEF in, to
  <1>6. CASE ~record.cancelled /\ record.proto.state = "recovering"
    <2>1. in(next) = in(recs) \cup {r}
      BY <1>3, <1>4, <1>6
    <2>2. RebuiltOutbox(next) = With(box, r, to(record))
      BY <1>1, <1>2, <1>5, <2>1 DEF With
    <2> QED BY <1>6, <2>2 DEF to, next
  <1>7. CASE ~(~record.cancelled /\ record.proto.state = "recovering")
    <2>1. in(next) = in(recs) \ {r}
      BY <1>3, <1>4, <1>7
    <2>2. RebuiltOutbox(next) = Without(box, r)
      BY <1>1, <1>5, <2>1 DEF Without
    <2> QED BY <1>7, <2>2 DEF next
  <1> QED BY <1>6, <1>7

\* Removing what is not there.
LEMMA WithoutNothing ==
    ASSUME NEW recs, NEW box, box = RebuiltOutbox(recs), NEW r, r \notin DOMAIN box
    PROVE  Without(box, r) = box
  <1>1. box = [x \in DOMAIN box |-> box[x]]
    BY DEF RebuiltOutbox
  <1>2. DOMAIN box \ {r} = DOMAIN box
    OBVIOUS
  <1> QED BY <1>1, <1>2 DEF Without

\* Records, ledger and outbox that belong together pass the audit.
LEMMA WholePasses ==
    ASSUME NEW recs, NEW l, Whole(recs, l)
    PROVE  Audit(recs, l, RebuiltOutbox(recs))
  <1> DEFINE box == RebuiltOutbox(recs)
  <1>1. /\ DOMAIN box \subseteq DOMAIN recs
        /\ \A r \in DOMAIN recs :
              IF ~recs[r].cancelled /\ recs[r].proto.state = "recovering"
              THEN /\ r \in DOMAIN box
                   /\ box[r] = [tag |-> recs[r].proto.active, accepted |-> recs[r].proto.accepted]
              ELSE r \notin DOMAIN box
    BY DEF RebuiltOutbox
  <1> HIDE DEF box
  <1>2. LedgerAuditOf(l)
    BY AuditedPasses DEF Whole
  <1>3. ASSUME NEW r \in DOMAIN recs PROVE AuditRecord(l, box, r, recs[r])
    <2>1. Linked(l, r, recs[r])
      BY DEF Whole
    <2>2. recs[r].committed \in 0 .. recs[r].total
      BY <2>1 DEF Linked
    <2> QED BY <1>1, <2>1, <2>2 DEF Linked, Sound, AuditRecord
  <1>4. Audit(recs, l, box)
    BY <1>1, <1>2, <1>3 DEF Audit, Whole
  <1> QED BY <1>4 DEF box

-----------------------------------------------------------------------------
(* The invariant of the composition. *)

\* What was published belongs together too.
CInv ==
    /\ Whole(records, ledger)
    /\ outbox = RebuiltOutbox(records)
    /\ durable # NoSnapshot => Whole(durable.records, durable.ledger)
    /\ life \in Nat

\* A step that keeps records and ledger together and publishes them or not.
LEMMA EmitKeeps ==
    ASSUME CInv, Whole(records', ledger'), outbox' = RebuiltOutbox(records'), life' \in Nat,
           \/ durable' = durable
           \/ durable' = [records |-> records', ledger |-> ledger', effects |-> effects']
    PROVE  CInv'
  <1>1. durable' # NoSnapshot => Whole(durable'.records, durable'.ledger)
    BY DEF CInv
  <1> QED BY <1>1 DEF CInv

LEMMA CInvInit == Init => CInv
  <1> SUFFICES ASSUME Init PROVE CInv
    OBVIOUS
  <1>1. /\ records = [r \in {} |-> 0] /\ ledger = NewLedger(0)
        /\ outbox = [r \in {} |-> 0] /\ durable = NoSnapshot /\ life = 0
    BY DEF Init
  <1>2. DOMAIN records = {} /\ records = [r \in DOMAIN records |-> records[r]]
    BY <1>1
  <1>3. Audited(ledger, Requests, Outcomes) /\ DOMAIN ledger.req = {}
    BY <1>1, NewLedgerAudited DEF NewLedger
  <1>4. Whole(records, ledger)
    BY <1>2, <1>3 DEF Whole
  <1>5. outbox = RebuiltOutbox(records)
    BY <1>1, <1>2 DEF RebuiltOutbox
  <1> QED BY <1>1, <1>4, <1>5 DEF CInv

\* What a restoration rebuilds after a step that changes one record.
LEMMA OutboxChanges ==
    ASSUME CInv, NEW r, NEW p, NEW committed, NEW cancelled,
           Changes(r, p, committed, cancelled)
    PROVE  RebuiltOutbox(records') =
               IF ~cancelled /\ p.state = "recovering"
               THEN With(outbox, r, [tag |-> p.active, accepted |-> p.accepted])
               ELSE Without(outbox, r)
  <1> DEFINE record == records'[r]
  <1>1. /\ records' = With(records, r, record)
        /\ record.proto = p /\ record.cancelled = cancelled
    BY DEF Changes
  <1>2. outbox = RebuiltOutbox(records)
    BY DEF CInv
  <1> HIDE DEF record
  <1>3. IF ~record.cancelled /\ record.proto.state = "recovering"
        THEN RebuiltOutbox(With(records, r, record))
                = With(outbox, r, [tag |-> record.proto.active,
                                   accepted |-> record.proto.accepted])
        ELSE RebuiltOutbox(With(records, r, record)) = Without(outbox, r)
    BY <1>2, RebuiltChanged
  <1> QED BY <1>1, <1>3

LEMMA RegisterKeeps ==
    ASSUME CInv, NEW r \in Requests, NEW total \in Nat, NEW committed \in Nat,
           RegisterRequest(r, total, committed)
    PROVE  CInv'
  <1> DEFINE p == IF committed = total THEN FinishProtocol(NewProtocol) ELSE NewProtocol
  <1>1. Changes(r, p, committed, FALSE) /\ p.state \in {"ready", "finished"}
    BY RegisterWhole DEF CInv
  <1>2. /\ outbox' = outbox /\ durable' = durable /\ life' = life
        /\ r \notin DOMAIN records
    BY DEF RegisterRequest
  <1>3. r \notin DOMAIN outbox /\ outbox = RebuiltOutbox(records)
    BY <1>2 DEF CInv, RebuiltOutbox
  <1> HIDE DEF p
  <1>4. outbox' = RebuiltOutbox(records')
    BY <1>1, <1>2, <1>3, OutboxChanges, WithoutNothing
  <1> QED BY <1>1, <1>2, <1>4, EmitKeeps DEF Changes, CInv

LEMMA ReserveKeeps ==
    ASSUME CInv, NEW r \in Requests, NEW width \in Nat, width > 0, Reserve(r, width)
    PROVE  CInv'
  <1> DEFINE p == StartVerification(records[r].proto, r, records[r].proto.round + 1)
  <1>1. /\ Changes(r, p, records[r].committed, FALSE) /\ p.state = "verifying"
        /\ records[r].proto.state \in ReadyStates
    BY ReserveWhole DEF CInv
  <1>2. /\ outbox' = outbox /\ life' = life
        /\ \/ durable' = durable
           \/ durable' = [records |-> records', ledger |-> ledger', effects |-> effects']
    BY DEF Reserve, Emit
  <1>3. r \notin DOMAIN outbox /\ outbox = RebuiltOutbox(records)
    BY <1>1 DEF CInv, RebuiltOutbox
  <1> HIDE DEF p
  <1>4. outbox' = RebuiltOutbox(records')
    BY <1>1, <1>2, <1>3, OutboxChanges, WithoutNothing
  <1> QED BY <1>1, <1>2, <1>4, EmitKeeps DEF Changes, CInv

LEMMA VerifyKeeps ==
    ASSUME CInv, NEW tag, NEW hit \in BOOLEAN, NEW accepted \in Nat,
           VerifyComplete(tag, hit, accepted)
    PROVE  CInv'
  <1> DEFINE r == tag.req
             p == AfterVerify(records[r], hit, accepted)
  <1>1. /\ Changes(r, p, records[r].committed + accepted, FALSE)
        /\ r \in Requests /\ Sound(records[r].proto, r)
        /\ MatchesVerify(records[r].proto, tag)
    BY VerifyWhole DEF CInv, Linked
  <1>2. IF hit THEN p.state # "recovering" ELSE p.state = "recovering" /\ p.accepted = accepted
    <2> DEFINE record == records[r]
               whole == record.committed + accepted = record.total
    <2>1. r \in Requests /\ Sound(record.proto, r) /\ MatchesVerify(record.proto, tag)
      BY <1>1
    <2> HIDE DEF record
    <2>2. p = AfterVerify(record, hit, accepted)
      BY DEF record
    <2> HIDE DEF p, r
    <2>3. p.state = IF hit THEN IF whole THEN "finished" ELSE "ready_hit" ELSE "recovering"
      BY <2>1, <2>2, AfterVerifySound
    <2>4. p.state = "recovering" => p.accepted = accepted
      BY <2>1, <2>2, AfterVerifySound
    <2> HIDE DEF whole
    <2> QED BY <2>3, <2>4
  <1>3. /\ life' = life
        /\ outbox' = IF hit THEN Without(outbox, r)
                     ELSE With(outbox, r, [tag |-> p.active, accepted |-> accepted])
        /\ \/ durable' = durable
           \/ durable' = [records |-> records', ledger |-> ledger', effects |-> effects']
    BY DEF VerifyComplete, Emit
  <1> HIDE DEF p
  <1>4. outbox' = RebuiltOutbox(records')
    BY <1>1, <1>2, <1>3, OutboxChanges
  <1> QED BY <1>1, <1>3, <1>4, EmitKeeps DEF Changes, CInv

LEMMA RecoveryKeeps ==
    ASSUME CInv, NEW tag, NEW finished \in BOOLEAN, RecoveryComplete(tag, finished)
    PROVE  CInv'
  <1> DEFINE r == tag.req
             p == HandleRecoveryReply(records[r].proto, finished)
  <1>1. /\ Changes(r, p, records[r].committed, FALSE)
        /\ p.state \in {"finished", "ready_backup"}
    BY RecoveryWhole DEF CInv
  <1>2. /\ life' = life /\ durable' = durable /\ outbox' = Without(outbox, r)
    BY DEF RecoveryComplete
  <1> HIDE DEF p
  <1>3. outbox' = RebuiltOutbox(records')
    BY <1>1, <1>2, OutboxChanges
  <1> QED BY <1>1, <1>2, <1>3, EmitKeeps DEF Changes, CInv

LEMMA CancelKeeps ==
    ASSUME CInv, NEW r \in Requests, Cancel(r)
    PROVE  CInv'
  <1> DEFINE p == Closed(records[r].proto)
  <1>1. Changes(r, p, records[r].committed, TRUE)
    BY CancelWhole DEF CInv
  <1>2. /\ life' = life /\ durable' = durable /\ outbox' = Without(outbox, r)
    BY DEF Cancel
  <1> HIDE DEF p
  <1>3. outbox' = RebuiltOutbox(records')
    BY <1>1, <1>2, OutboxChanges
  <1> QED BY <1>1, <1>2, <1>3, EmitKeeps DEF Changes, CInv

\* The pool counter of an audited ledger.
LEMMA PoolNat ==
    ASSUME NEW recs, NEW l, Whole(recs, l)
    PROVE  l.alloc.pool \in Nat
  BY SaneLedger DEF Whole, Sane

LEMMA ReloadKeeps ==
    ASSUME CInv, Reload
    PROVE  CInv'
  <1>1. Whole(records, RestoreLedger(ledger, ledger.alloc.pool + 1))
    BY PoolNat, RestoredWhole DEF CInv
  <1>2. /\ records' = records /\ ledger' = RestoreLedger(ledger, ledger.alloc.pool + 1)
        /\ outbox' = RebuiltOutbox(records) /\ life' = life /\ effects' = effects
        /\ durable' = [records |-> records, ledger |-> ledger, effects |-> effects]
    BY DEF Reload
  <1>3. Whole(durable'.records, durable'.ledger)
    BY <1>2 DEF CInv
  <1> QED BY <1>1, <1>2, <1>3 DEF CInv

LEMMA CrashKeeps ==
    ASSUME CInv, Crash
    PROVE  CInv'
  <1>1. /\ Whole(durable.records, durable.ledger) /\ ledger.alloc.pool \in Nat
    BY PoolNat DEF CInv, Crash
  <1>2. /\ records' = Resumed(durable.records) /\ Whole(records', ledger')
    BY <1>1, CrashWhole
  <1> DEFINE recs == durable.records
             to(record) == [tag |-> record.proto.active, accepted |-> record.proto.accepted]
             in(recs2) == {r \in DOMAIN recs2 :
                              ~recs2[r].cancelled /\ recs2[r].proto.state = "recovering"}
  <1>3. /\ life' = life + 1
        /\ outbox' = [r \in Fenced(recs) |-> to(Resumed(recs)[r])]
        /\ \/ durable' = durable
           \/ durable' = [records |-> records', ledger |-> ledger', effects |-> effects']
    BY DEF Crash, Emit, Fenced, Resumed
  <1>4. RebuiltOutbox(records') = [r \in in(records') |-> to(records'[r])]
    BY DEF RebuiltOutbox
  <1> HIDE DEF to, recs
  <1>5. DOMAIN records' = DOMAIN recs
    BY <1>2 DEF Resumed, recs
  <1>6. ASSUME NEW r \in Fenced(recs)
        PROVE  r \in DOMAIN recs /\ ~records'[r].cancelled
               /\ records'[r].proto.state = "recovering"
    BY <1>1, <1>2, FencedRecord DEF recs
  <1>7. ASSUME NEW r \in DOMAIN recs, r \notin Fenced(recs)
        PROVE  records'[r].cancelled \/ records'[r].proto.state # "recovering"
    BY <1>2, <1>7 DEF Resumed, Fenced, Interrupted, recs
  <1>8. \A r : r \in in(records') <=> r \in Fenced(recs)
    <2>1. \A r : r \in Fenced(recs) => r \in DOMAIN recs
      BY DEF Fenced
    <2> QED BY <1>5, <1>6, <1>7, <2>1
  <1> HIDE DEF in
  <1>9. in(records') = Fenced(recs)
    BY <1>8
  <1>10. outbox' = RebuiltOutbox(records')
    BY <1>2, <1>3, <1>4, <1>9 DEF recs
  <1>11. life' \in Nat
    BY <1>3 DEF CInv
  <1> QED BY <1>2, <1>3, <1>10, <1>11, EmitKeeps

LEMMA CInvStep == CInv /\ [Next]_vars => CInv'
  <1> SUFFICES ASSUME CInv, [Next]_vars PROVE CInv'
    OBVIOUS
  <1>0. Totals \subseteq Nat /\ 0 .. MaxBlocks \subseteq Nat /\ 1 .. MaxBlocks \subseteq Nat
    BY CoordinatorAssumption
  <1>1. ASSUME NEW r \in Requests, NEW total \in Totals, NEW committed \in 0 .. MaxBlocks,
               RegisterRequest(r, total, committed)
        PROVE  CInv'
    BY <1>0, <1>1, RegisterKeeps
  <1>2. ASSUME NEW r \in Requests, NEW width \in 1 .. MaxBlocks, Reserve(r, width)
        PROVE  CInv'
    <2>1. width \in Nat /\ width > 0
      BY <1>0
    <2> QED BY <1>2, <2>1, ReserveKeeps
  <1>3. ASSUME NEW r \in Requests, Cancel(r)
        PROVE  CInv'
    BY <1>3, CancelKeeps
  <1>4. ASSUME NEW c \in sent, NEW hit \in BOOLEAN, NEW accepted \in 0 .. MaxBlocks,
               VerifyComplete(c.tag, hit, accepted)
        PROVE  CInv'
    BY <1>0, <1>4, VerifyKeeps
  <1>5. ASSUME NEW c \in sent, NEW finished \in BOOLEAN, RecoveryComplete(c.tag, finished)
        PROVE  CInv'
    BY <1>5, RecoveryKeeps
  <1>6. CASE Publish
    BY <1>6, EmitKeeps DEF Publish, CInv
  <1>7. CASE Reload
    BY <1>7, ReloadKeeps
  <1>8. CASE Crash
    BY <1>8, CrashKeeps
  <1>9. CASE UNCHANGED vars
    BY <1>9 DEF vars, CInv
  <1> QED BY <1>1, <1>2, <1>3, <1>4, <1>5, <1>6, <1>7, <1>8, <1>9 DEF Next

\* The audit that closes every method never raises, and whatever is durable
\* can be restored: in every reachable state of Coordinator.
THEOREM AuditNeverRaises == Spec => []CoordinatorAudit
  <1>1. CInv => CoordinatorAudit
    BY WholePasses DEF CInv, CoordinatorAudit
  <1> QED BY CInvInit, CInvStep, <1>1, PTL DEF Spec

\* A reservation that passes the preflight finds a ledger that accepts its
\* round and holds its pages, and a protocol object that starts it.
THEOREM ReservationsNeverFail == Spec => []PreflightSuffices
  <1>1. CInv => PreflightSuffices
    <2> SUFFICES ASSUME CInv, NEW r \in DOMAIN records, NEW width \in 1 .. MaxBlocks,
                        Preflight(r, width)
                 PROVE  LET round == records[r].proto.round + 1
                            e     == Epoch(r, round, ledger.req[r].version + 1)
                        IN  /\ CanBegin(ledger, r, round)
                            /\ CanStage(Begin(ledger, r, round), e, Outcome, width)
                            /\ CanStartVerification(records[r].proto, round)
      BY DEF PreflightSuffices
    <2> DEFINE round == records[r].proto.round + 1
    <2>0. width \in Nat /\ width > 0
      BY CoordinatorAssumption
    <2>1. /\ r \in Requests /\ round \in Nat /\ CanBegin(ledger, r, round)
          /\ CanStartVerification(records[r].proto, round)
          /\ PagesFor(Extent(ledger.req[r], width)) <= Cardinality(ledger.alloc.free)
          /\ Audited(ledger, Requests, Outcomes)
      BY <2>0, PreflightFits DEF CInv, Whole
    <2> HIDE DEF round
    <2>2. ReservedOn(ledger, r, round, width)
      BY <2>0, <2>1, ReserveOn
    <2> QED BY <2>1, <2>2 DEF ReservedOn, round
  <1> QED BY CInvInit, CInvStep, <1>1, PTL DEF Spec

-----------------------------------------------------------------------------
(* How records age. *)

\* Versions grow, and only a new version brings a request into flight.
Ages(recs, after) ==
    /\ DOMAIN recs \subseteq DOMAIN after
    /\ \A r \in DOMAIN recs :
          /\ recs[r].proto.version <= after[r].proto.version
          /\ after[r].proto.state \in InFlightStates =>
                \/ recs[r].proto.state \in InFlightStates
                \/ recs[r].proto.version < after[r].proto.version
          /\ after[r].proto.state = "verifying" =>
                \/ recs[r].proto.state = "verifying"
                \/ recs[r].proto.version < after[r].proto.version

LEMMA VersionNat ==
    ASSUME NEW recs, NEW l, Whole(recs, l)
    PROVE  \A r \in DOMAIN recs : /\ recs[r].proto.version \in Nat
                                  /\ recs[r].committed \in Nat
                                  /\ r \in Requests
  BY DEF Whole, Linked, Protocol

LEMMA AgesWhen ==
    ASSUME CInv, NEW r, NEW p, NEW committed, NEW cancelled,
           Changes(r, p, committed, cancelled),
           r \in DOMAIN records =>
               /\ records[r].proto.version <= p.version
               /\ p.state \in InFlightStates =>
                     \/ records[r].proto.state \in InFlightStates
                     \/ records[r].proto.version < p.version
               /\ p.state = "verifying" =>
                     \/ records[r].proto.state = "verifying"
                     \/ records[r].proto.version < p.version
    PROVE  Ages(records, records')
  <1>1. /\ DOMAIN records' = DOMAIN records \cup {r} /\ records'[r].proto = p
        /\ \A x \in DOMAIN records \ {r} : records'[x] = records[x]
    BY DEF Changes, With
  <1>2. \A x \in DOMAIN records : records[x].proto.version \in Nat
    BY VersionNat DEF CInv
  <1> QED BY <1>1, <1>2 DEF Ages

LEMMA RegisterAges ==
    ASSUME CInv, NEW r \in Requests, NEW total \in Nat, NEW committed \in Nat,
           RegisterRequest(r, total, committed)
    PROVE  Ages(records, records')
  <1> DEFINE p == IF committed = total THEN FinishProtocol(NewProtocol) ELSE NewProtocol
  <1>1. Changes(r, p, committed, FALSE)
    BY RegisterWhole DEF CInv
  <1>2. r \notin DOMAIN records
    BY DEF RegisterRequest
  <1> HIDE DEF p
  <1> QED BY <1>1, <1>2, AgesWhen

LEMMA ReserveAges ==
    ASSUME CInv, NEW r \in Requests, NEW width \in Nat, width > 0, Reserve(r, width)
    PROVE  Ages(records, records')
  <1> DEFINE p == StartVerification(records[r].proto, r, records[r].proto.round + 1)
  <1>1. /\ Changes(r, p, records[r].committed, FALSE)
        /\ p.version = records[r].proto.version + 1 /\ r \in DOMAIN records
    BY ReserveWhole DEF CInv
  <1> HIDE DEF p
  <1>2. records[r].proto.version < p.version /\ records[r].proto.version <= p.version
    BY <1>1, VersionNat DEF CInv
  <1> QED BY <1>1, <1>2, AgesWhen

\* What a verify reply makes of its record, with the protocol object p.
Judged(tag, hit, accepted, p) ==
    LET r == tag.req
    IN  /\ Changes(r, p, records[r].committed + accepted, FALSE)
        /\ r \in Requests /\ r \in DOMAIN records /\ ~records[r].cancelled
        /\ records[r].proto.state = "verifying"
        /\ records[r].proto.active = tag
        /\ tag.version = records[r].proto.version /\ tag \in Tag
        /\ p.state # "verifying"
        /\ records[r].proto.version <= p.version /\ p.version \in Nat
        /\ ~hit => p.active = tag /\ p.version = records[r].proto.version

LEMMA VerifyFacts ==
    ASSUME CInv, NEW tag, NEW hit \in BOOLEAN, NEW accepted \in Nat,
           VerifyComplete(tag, hit, accepted)
    PROVE  Judged(tag, hit, accepted, AfterVerify(records[tag.req], hit, accepted))
  <1> DEFINE r == tag.req
             record == records[r]
             p == AfterVerify(record, hit, accepted)
             whole == record.committed + accepted = record.total
  <1>1. /\ Changes(r, p, record.committed + accepted, FALSE)
        /\ r \in Requests /\ r \in DOMAIN records /\ ~record.cancelled
        /\ Sound(record.proto, r) /\ MatchesVerify(record.proto, tag)
    BY VerifyWhole DEF CInv, Linked
  <1>2. record.proto.state = "verifying" /\ record.proto.active = tag
    BY <1>1 DEF MatchesVerify
  <1>3. tag \in Tag /\ tag.version = record.proto.version
    BY <1>1, <1>2, ActiveTag
  <1> HIDE DEF record
  <1>4. p = AfterVerify(record, hit, accepted)
    OBVIOUS
  <1> HIDE DEF p, r
  <1>5. /\ p.state = IF hit THEN IF whole THEN "finished" ELSE "ready_hit" ELSE "recovering"
        /\ record.proto.version <= p.version /\ p.version \in Nat
    BY <1>1, <1>4, AfterVerifySound
  <1>6. p.state = "recovering" =>
            p.active = record.proto.active /\ p.version = record.proto.version
    BY <1>1, <1>4, AfterVerifySound
  <1> HIDE DEF whole
  <1>7. p.state # "verifying" /\ (~hit => p.state = "recovering")
    BY <1>5
  <1>8. Judged(tag, hit, accepted, p)
    BY <1>1, <1>2, <1>3, <1>5, <1>6, <1>7 DEF Judged, r, record
  <1> QED BY <1>8 DEF p, r, record

LEMMA VerifyAges ==
    ASSUME CInv, NEW tag, NEW hit \in BOOLEAN, NEW accepted \in Nat,
           VerifyComplete(tag, hit, accepted)
    PROVE  Ages(records, records')
  <1> DEFINE p == AfterVerify(records[tag.req], hit, accepted)
  <1>1. Judged(tag, hit, accepted, p)
    BY VerifyFacts
  <1> HIDE DEF p
  <1> QED BY <1>1, AgesWhen DEF Judged

LEMMA RecoveryAges ==
    ASSUME CInv, NEW tag, NEW finished \in BOOLEAN, RecoveryComplete(tag, finished)
    PROVE  Ages(records, records')
  <1> DEFINE r == tag.req
             p == HandleRecoveryReply(records[r].proto, finished)
  <1>1. /\ Changes(r, p, records[r].committed, FALSE) /\ r \in DOMAIN records
        /\ p.state \in {"finished", "ready_backup"} /\ p.version = records[r].proto.version
    BY RecoveryWhole DEF CInv
  <1> HIDE DEF p, r
  <1>2. records[r].proto.version <= p.version
    BY <1>1, VersionNat DEF CInv
  <1> QED BY <1>1, <1>2, AgesWhen

LEMMA CancelAges ==
    ASSUME CInv, NEW r \in Requests, Cancel(r)
    PROVE  Ages(records, records')
  <1> DEFINE p == Closed(records[r].proto)
  <1>1. /\ Changes(r, p, records[r].committed, TRUE)
        /\ p.state = "finished" /\ records[r].proto.version <= p.version
    BY CancelWhole DEF CInv
  <1> HIDE DEF p
  <1> QED BY <1>1, AgesWhen

LEMMA ResumedAges ==
    ASSUME NEW recs, NEW l, Whole(recs, l)
    PROVE  /\ Ages(recs, Resumed(recs))
           /\ DOMAIN Resumed(recs) = DOMAIN recs
           /\ \A r \in DOMAIN recs : Resumed(recs)[r].committed = recs[r].committed
  <1>1. DOMAIN Resumed(recs) = DOMAIN recs
    BY DEF Resumed
  <1>2. \A r \in DOMAIN recs \ Fenced(recs) : Resumed(recs)[r] = recs[r]
    BY DEF Resumed
  <1>3. ASSUME NEW r \in Fenced(recs)
        PROVE  /\ Resumed(recs)[r].committed = recs[r].committed
               /\ recs[r].proto.version < Resumed(recs)[r].proto.version
               /\ recs[r].proto.version <= Resumed(recs)[r].proto.version
    <2> DEFINE new == Resumed(recs)[r]
    <2>1. /\ new.committed = recs[r].committed /\ recs[r].proto.version \in Nat
          /\ new.proto.version = recs[r].proto.version + 1
      BY FencedRecord
    <2> HIDE DEF new
    <2>2. /\ new.committed = recs[r].committed
          /\ recs[r].proto.version < new.proto.version
          /\ recs[r].proto.version <= new.proto.version
      BY <2>1
    <2> QED BY <2>2 DEF new
  <1>4. \A r \in DOMAIN recs : recs[r].proto.version \in Nat
    BY VersionNat
  <1>5. Ages(recs, Resumed(recs))
    BY <1>1, <1>2, <1>3, <1>4 DEF Ages
  <1> QED BY <1>1, <1>2, <1>3, <1>5

-----------------------------------------------------------------------------
(* Every committed block has one effect. *)

EffectsOf(recs, eff) ==
    /\ IsFiniteSet(eff)
    /\ \A x \in eff :
          /\ x.tag.req \in DOMAIN recs /\ x.blocks \in Nat /\ x.tag.version \in Nat
          /\ x.tag.version <= recs[x.tag.req].proto.version
          /\ recs[x.tag.req].proto.state = "verifying" =>
                x.tag.version < recs[x.tag.req].proto.version
    /\ \A x, y \in eff : x.tag = y.tag => x = y
    /\ \A r \in DOMAIN recs : recs[r].committed = Blocks({x \in eff : x.tag.req = r})

LEMMA EffectsKept ==
    ASSUME NEW recs, NEW eff, EffectsOf(recs, eff), NEW l, Whole(recs, l),
           NEW after, NEW m, Whole(after, m), Ages(recs, after), DOMAIN after = DOMAIN recs,
           \A r \in DOMAIN recs : after[r].committed = recs[r].committed
    PROVE  EffectsOf(after, eff)
  <1>1. \A r \in DOMAIN recs : recs[r].proto.version \in Nat /\ after[r].proto.version \in Nat
    BY VersionNat
  <1>2. ASSUME NEW x \in eff
        PROVE  /\ x.tag.req \in DOMAIN after /\ x.blocks \in Nat /\ x.tag.version \in Nat
               /\ x.tag.version <= after[x.tag.req].proto.version
               /\ after[x.tag.req].proto.state = "verifying" =>
                     x.tag.version < after[x.tag.req].proto.version
    <2> DEFINE r == x.tag.req
    <2>1. /\ r \in DOMAIN recs /\ x.blocks \in Nat /\ x.tag.version \in Nat
          /\ x.tag.version <= recs[r].proto.version
          /\ recs[r].proto.state = "verifying" => x.tag.version < recs[r].proto.version
      BY DEF EffectsOf
    <2>2. /\ recs[r].proto.version <= after[r].proto.version
          /\ after[r].proto.state = "verifying" =>
                \/ recs[r].proto.state = "verifying"
                \/ recs[r].proto.version < after[r].proto.version
      BY <2>1 DEF Ages
    <2> HIDE DEF r
    <2>3. /\ x.tag.version <= after[r].proto.version
          /\ after[r].proto.state = "verifying" => x.tag.version < after[r].proto.version
      BY <1>1, <2>1, <2>2
    <2> QED BY <2>1, <2>3 DEF r
  <1>3. \A r \in DOMAIN after : after[r].committed = Blocks({x \in eff : x.tag.req = r})
    BY DEF EffectsOf
  <1>4. IsFiniteSet(eff) /\ \A x, y \in eff : x.tag = y.tag => x = y
    BY DEF EffectsOf
  <1> QED BY <1>2, <1>3, <1>4 DEF EffectsOf

LEMMA EffectsGained ==
    ASSUME NEW recs, NEW eff, EffectsOf(recs, eff), NEW l, Whole(recs, l),
           NEW after, NEW m, Whole(after, m), Ages(recs, after),
           NEW r, DOMAIN after = DOMAIN recs \cup {r},
           \A x \in DOMAIN recs \ {r} : after[x] = recs[x],
           NEW tag, tag.req = r, tag.version \in Nat, tag.version <= after[r].proto.version,
           after[r].proto.state # "verifying",
           \A x \in eff : x.tag.req = r => x.tag.version < tag.version,
           NEW blocks \in Nat,
           after[r].committed = Blocks({x \in eff : x.tag.req = r}) + blocks
    PROVE  EffectsOf(after, eff \cup {[tag |-> tag, blocks |-> blocks]})
  <1> DEFINE new == [tag |-> tag, blocks |-> blocks]
             all == eff \cup {new}
             Of(S, s) == {x \in S : x.tag.req = s}
  <1>1. new.tag = tag /\ new.blocks = blocks
    OBVIOUS
  <1> HIDE DEF new
  <1>2. new \notin eff /\ \A x \in eff : x.tag # tag
    BY <1>1
  <1>3. IsFiniteSet(all)
    BY FS_AddElement DEF EffectsOf
  <1>4. ASSUME NEW x \in eff
        PROVE  /\ x.tag.req \in DOMAIN after /\ x.blocks \in Nat /\ x.tag.version \in Nat
               /\ x.tag.version <= after[x.tag.req].proto.version
               /\ after[x.tag.req].proto.state = "verifying" =>
                     x.tag.version < after[x.tag.req].proto.version
    <2>1. /\ x.tag.req \in DOMAIN recs /\ x.blocks \in Nat /\ x.tag.version \in Nat
          /\ x.tag.version <= recs[x.tag.req].proto.version
          /\ recs[x.tag.req].proto.state = "verifying" =>
                x.tag.version < recs[x.tag.req].proto.version
      BY DEF EffectsOf
    <2>2. CASE x.tag.req = r
      <3>1. after[r].proto.version \in Nat
        BY VersionNat
      <3> QED BY <2>1, <2>2, <3>1
    <2>3. CASE x.tag.req # r
      BY <2>1, <2>3
    <2> QED BY <2>2, <2>3
  <1>5. \A x \in all : /\ x.tag.req \in DOMAIN after /\ x.blocks \in Nat
                       /\ x.tag.version \in Nat
                       /\ x.tag.version <= after[x.tag.req].proto.version
                       /\ after[x.tag.req].proto.state = "verifying" =>
                             x.tag.version < after[x.tag.req].proto.version
    BY <1>1, <1>4
  <1>6. \A x, y \in all : x.tag = y.tag => x = y
    BY <1>1, <1>2 DEF EffectsOf
  <1>7. ASSUME NEW s \in DOMAIN after PROVE after[s].committed = Blocks(Of(all, s))
    <2>1. CASE s = r
      <3>1. Of(all, s) = Of(eff, s) \cup {new} /\ new \notin Of(eff, s)
        BY <1>1, <1>2, <2>1
      <3>2. IsFiniteSet(Of(eff, s)) /\ \A x \in Of(eff, s) : x.blocks \in Nat
        BY FS_Subset DEF EffectsOf
      <3>3. after[s].committed = Blocks(Of(eff, s)) + blocks
        BY <2>1
      <3> HIDE DEF Of, all
      <3>4. Blocks(Of(eff, s) \cup {new}) = Blocks(Of(eff, s)) + new.blocks
        BY <1>1, <3>1, <3>2, BlocksAdded
      <3> QED BY <1>1, <3>1, <3>3, <3>4
    <2>2. CASE s # r
      <3>1. Of(all, s) = Of(eff, s)
        BY <1>1, <2>2
      <3>2. after[s].committed = Blocks(Of(eff, s))
        BY <2>2 DEF EffectsOf
      <3> QED BY <3>1, <3>2
    <2> QED BY <2>1, <2>2
  <1>8. EffectsOf(after, all)
    BY <1>3, <1>5, <1>6, <1>7 DEF EffectsOf
  <1> QED BY <1>8 DEF new

EInv ==
    /\ EffectsOf(records, effects)
    /\ durable # NoSnapshot => EffectsOf(durable.records, durable.effects)

LEMMA EInvInit == Init => EInv
  <1> SUFFICES ASSUME Init PROVE EInv
    OBVIOUS
  <1>1. DOMAIN records = {} /\ effects = {} /\ durable = NoSnapshot
    BY DEF Init
  <1> QED BY <1>1, FS_EmptySet DEF EInv, EffectsOf

\* What is published has the effects of its records.
LEMMA EffectsEmitted ==
    ASSUME EInv, EffectsOf(records', effects'),
           \/ durable' = durable
           \/ durable' = [records |-> records', ledger |-> ledger', effects |-> effects']
    PROVE  EInv'
  BY DEF EInv

LEMMA EffectsUnchanged ==
    ASSUME CInv, CInv', EInv, Ages(records, records'), effects' = effects,
           NEW r \in DOMAIN records, NEW p, NEW cancelled,
           Changes(r, p, records[r].committed, cancelled),
           \/ durable' = durable
           \/ durable' = [records |-> records', ledger |-> ledger', effects |-> effects']
    PROVE  EInv'
  <1>1. /\ DOMAIN records' = DOMAIN records
        /\ \A x \in DOMAIN records : records'[x].committed = records[x].committed
    BY DEF Changes, With
  <1>2. EffectsOf(records, effects) /\ Whole(records, ledger) /\ Whole(records', ledger')
    BY DEF EInv, CInv
  <1>3. EffectsOf(records', effects)
    BY <1>1, <1>2, EffectsKept
  <1> QED BY <1>3, EffectsEmitted

LEMMA EffectsOfVerify ==
    ASSUME CInv, CInv', EInv, NEW tag, NEW hit \in BOOLEAN, NEW accepted \in Nat,
           VerifyComplete(tag, hit, accepted)
    PROVE  EInv'
  <1>0. EffectsOf(records, effects) /\ Whole(records, ledger) /\ Whole(records', ledger')
    BY DEF EInv, CInv
  <1> DEFINE r == tag.req
             p == AfterVerify(records[r], hit, accepted)
  <1>1. Judged(tag, hit, accepted, p)
    BY VerifyFacts
  <1> HIDE DEF p
  <1>2. /\ Changes(r, p, records[r].committed + accepted, FALSE)
        /\ r \in DOMAIN records
        /\ records[r].proto.state = "verifying"
        /\ tag.version = records[r].proto.version
        /\ p.state # "verifying" /\ records[r].proto.version <= p.version
    BY <1>1 DEF Judged
  <1>3. Ages(records, records')
    BY VerifyAges
  <1>4. /\ effects' = effects \cup {[tag |-> tag, blocks |-> accepted]}
        /\ \/ durable' = durable
           \/ durable' = [records |-> records', ledger |-> ledger', effects |-> effects']
    BY DEF VerifyComplete, Emit
  <1>5. r = tag.req
    OBVIOUS
  <1> HIDE DEF p, r
  <1>6. /\ DOMAIN records' = DOMAIN records \cup {r}
        /\ \A x \in DOMAIN records \ {r} : records'[x] = records[x]
        /\ records'[r].proto = p /\ records'[r].committed = records[r].committed + accepted
    BY <1>2 DEF Changes, With
  <1>7. \A x \in effects : x.tag.req = r => x.tag.version < tag.version
    BY <1>0, <1>2 DEF EffectsOf
  <1>8. records'[r].committed = Blocks({x \in effects : x.tag.req = r}) + accepted
    BY <1>0, <1>2, <1>6 DEF EffectsOf
  <1>9. /\ tag.version \in Nat /\ tag.version <= records'[r].proto.version
        /\ records'[r].proto.state # "verifying"
    BY <1>2, <1>6, VersionNat DEF CInv
  <1>10. EffectsOf(records', effects')
    BY <1>0, <1>3, <1>4, <1>5, <1>6, <1>7, <1>8, <1>9, EffectsGained
  <1> QED BY <1>4, <1>10, EffectsEmitted

LEMMA EInvStep == CInv /\ CInv' /\ EInv /\ [Next]_vars => EInv'
  <1> SUFFICES ASSUME CInv, CInv', EInv, [Next]_vars PROVE EInv'
    OBVIOUS
  <1>0. Totals \subseteq Nat /\ 0 .. MaxBlocks \subseteq Nat /\ 1 .. MaxBlocks \subseteq Nat
    BY CoordinatorAssumption
  <1>11. EffectsOf(records, effects) /\ Whole(records, ledger) /\ Whole(records', ledger')
    BY DEF EInv, CInv
  <1>1. ASSUME NEW r \in Requests, NEW total \in Totals, NEW committed \in 0 .. MaxBlocks,
               RegisterRequest(r, total, committed)
        PROVE  EInv'
    <2> DEFINE p == IF committed = total THEN FinishProtocol(NewProtocol) ELSE NewProtocol
               tag == TagAt(r, -1, 0)
    <2>1. total \in Nat /\ committed \in Nat
      BY <1>0
    <2>2. /\ Changes(r, p, committed, FALSE)
          /\ p.state \in {"ready", "finished"} /\ p.version \in Nat
      BY <1>1, <2>1, RegisterWhole DEF CInv
    <2>3. Ages(records, records')
      BY <1>1, <2>1, RegisterAges
    <2>4. /\ r \notin DOMAIN records /\ durable' = durable
          /\ effects' = effects \cup {[tag |-> tag, blocks |-> committed]}
      BY <1>1 DEF RegisterRequest
    <2>5. tag.req = r /\ tag.version = 0
      BY DEF TagAt
    <2> HIDE DEF p, tag
    <2>6. /\ DOMAIN records' = DOMAIN records \cup {r}
          /\ \A x \in DOMAIN records \ {r} : records'[x] = records[x]
          /\ records'[r].proto = p /\ records'[r].committed = committed
      BY <2>2 DEF Changes, With
    <2>7. \A x \in effects : x.tag.req # r
      BY <1>11, <2>4 DEF EffectsOf
    <2>8. {x \in effects : x.tag.req = r} = {}
      BY <2>7
    <2>9. records'[r].committed = Blocks({x \in effects : x.tag.req = r}) + committed
      <3>1. Blocks({x \in effects : x.tag.req = r}) = 0
        BY <2>8, BlocksOfNone
      <3> QED BY <2>1, <2>6, <3>1
    <2>10. /\ tag.version \in Nat /\ tag.version <= records'[r].proto.version
           /\ records'[r].proto.state # "verifying"
      BY <2>2, <2>5, <2>6
    <2>11. EffectsOf(records', effects')
      BY <1>11, <2>1, <2>3, <2>4, <2>5, <2>6, <2>7, <2>9, <2>10, EffectsGained
    <2> QED BY <2>4, <2>11, EffectsEmitted
  <1>2. ASSUME NEW r \in Requests, NEW width \in 1 .. MaxBlocks, Reserve(r, width)
        PROVE  EInv'
    <2>1. width \in Nat /\ width > 0
      BY <1>0
    <2> DEFINE p == StartVerification(records[r].proto, r, records[r].proto.round + 1)
    <2>2. Changes(r, p, records[r].committed, FALSE) /\ r \in DOMAIN records
      BY <1>2, <2>1, ReserveWhole DEF CInv
    <2>3. Ages(records, records')
      BY <1>2, <2>1, ReserveAges
    <2>4. /\ effects' = effects
          /\ \/ durable' = durable
             \/ durable' = [records |-> records', ledger |-> ledger', effects |-> effects']
      BY <1>2 DEF Reserve, Emit
    <2> HIDE DEF p
    <2> QED BY <2>2, <2>3, <2>4, EffectsUnchanged
  <1>3. ASSUME NEW r \in Requests, Cancel(r)
        PROVE  EInv'
    <2> DEFINE p == Closed(records[r].proto)
    <2>1. Changes(r, p, records[r].committed, TRUE) /\ r \in DOMAIN records
      BY <1>3, CancelWhole DEF CInv
    <2>2. effects' = effects /\ durable' = durable
      BY <1>3 DEF Cancel
    <2> HIDE DEF p
    <2> QED BY <1>3, <2>1, <2>2, CancelAges, EffectsUnchanged
  <1>4. ASSUME NEW c \in sent, NEW hit \in BOOLEAN, NEW accepted \in 0 .. MaxBlocks,
               VerifyComplete(c.tag, hit, accepted)
        PROVE  EInv'
    BY <1>0, <1>4, EffectsOfVerify
  <1>5. ASSUME NEW c \in sent, NEW finished \in BOOLEAN, RecoveryComplete(c.tag, finished)
        PROVE  EInv'
    <2> DEFINE r == c.tag.req
               p == HandleRecoveryReply(records[r].proto, finished)
    <2>1. Changes(r, p, records[r].committed, FALSE) /\ r \in DOMAIN records
      BY <1>5, RecoveryWhole DEF CInv
    <2>2. effects' = effects /\ durable' = durable
      BY <1>5 DEF RecoveryComplete
    <2>3. Ages(records, records')
      BY <1>5, RecoveryAges
    <2> HIDE DEF p, r
    <2> QED BY <2>1, <2>2, <2>3, EffectsUnchanged
  <1>6. CASE Publish
    BY <1>6, EffectsEmitted DEF Publish, EInv
  <1>7. CASE Reload
    BY <1>7, EffectsEmitted DEF Reload, EInv
  <1>8. CASE Crash
    <2>1. /\ Whole(durable.records, durable.ledger) /\ ledger.alloc.pool \in Nat
          /\ EffectsOf(durable.records, durable.effects)
      BY <1>8, PoolNat DEF CInv, EInv, Crash
    <2>2. records' = Resumed(durable.records)
      BY <1>8, <2>1, CrashWhole
    <2>3. /\ effects' = durable.effects
          /\ \/ durable' = durable
             \/ durable' = [records |-> records', ledger |-> ledger', effects |-> effects']
      BY <1>8 DEF Crash, Emit
    <2> DEFINE old == durable.records
    <2>4. /\ Ages(old, Resumed(old)) /\ DOMAIN Resumed(old) = DOMAIN old
          /\ \A r \in DOMAIN old : Resumed(old)[r].committed = old[r].committed
      BY <2>1, ResumedAges
    <2> HIDE DEF old
    <2>5. EffectsOf(records', effects')
      BY <1>11, <2>1, <2>2, <2>3, <2>4, EffectsKept DEF old
    <2> QED BY <2>3, <2>5, EffectsEmitted
  <1>9. CASE UNCHANGED vars
    BY <1>9 DEF vars, EInv
  <1> QED BY <1>1, <1>2, <1>3, <1>4, <1>5, <1>6, <1>7, <1>8, <1>9 DEF Next

\* At-least-once delivery has an exactly-once effect: whatever is duplicated,
\* lost with a crash or restored, the committed blocks of a request add up
\* over replies with distinct tags, and however snapshots are published.
THEOREM EffectsAddUp == Spec => []BlocksCommittedOnce
  <1>1. EInv => BlocksCommittedOnce
    BY DEF EInv, EffectsOf, Blocks, BlocksCommittedOnce
  <1>2. CInv /\ EInv /\ [Next]_vars => (CInv /\ EInv)'
    BY CInvStep, EInvStep
  <1>3. Init => CInv /\ EInv
    BY CInvInit, EInvInit
  <1> QED BY <1>1, <1>2, <1>3, PTL DEF Spec

-----------------------------------------------------------------------------
(* Fencing, when commands leave only once the state that names them is     *)
(* durable.                                                                *)

CommandsTyped ==
    \A c \in sent : /\ c.tag \in Tag /\ c.life \in Nat /\ c.life <= life
                    /\ \A x \in c.pages : x.page \in Pages /\ x.gen \in Nat

\* What left is in these records and this ledger: tags and generations.
Remembers(recs, l, S) ==
    \A c \in S : /\ c.tag.req \in DOMAIN recs
                 /\ c.tag.version <= recs[c.tag.req].proto.version
                 /\ \A x \in c.pages : x.gen <= l.alloc.gen[x.page]

\* A request in flight is newer than every command of an older life.
LivesApart ==
    \A c \in sent :
        c.life < life /\ records[c.tag.req].proto.state \in InFlightStates
            => c.tag.version < records[c.tag.req].proto.version

AttemptsApart ==
    \A c, d \in sent :
        /\ c.kind = "verify" /\ d.kind = "verify"
        /\ c.tag.req = d.tag.req /\ c.tag.version = d.tag.version
        => c.tag = d.tag

\* A verdict answers an attempt, and that version is judged no more.
VerdictsSpent ==
    \A t \in verdicts :
        /\ \E c \in sent : c.kind = "verify" /\ c.tag = t
        /\ records[t.req].proto.state = "verifying"
              => t.version < records[t.req].proto.version

FInv ==
    /\ CommandsTyped
    /\ Remembers(records, ledger, sent)
    /\ durable # NoSnapshot => Remembers(durable.records, durable.ledger, sent)
    /\ LivesApart /\ AttemptsApart /\ VerdictsSpent
    /\ CoordinatesNeverReused

GensGrow(l, m) == \A p \in Pages : l.alloc.gen[p] <= m.alloc.gen[p]

LEMMA TagFacts ==
    ASSUME NEW t \in Tag
    PROVE  t.req \in Requests /\ t.version \in Nat
  BY DEF Tag

\* Memory only grows.
LEMMA RemembersOn ==
    ASSUME NEW recs, NEW l, Whole(recs, l), NEW after, NEW m, Whole(after, m),
           CommandsTyped, Remembers(recs, l, sent), Ages(recs, after), GensGrow(l, m)
    PROVE  Remembers(after, m, sent)
  <1> SUFFICES ASSUME NEW c \in sent
               PROVE  /\ c.tag.req \in DOMAIN after
                      /\ c.tag.version <= after[c.tag.req].proto.version
                      /\ \A x \in c.pages : x.gen <= m.alloc.gen[x.page]
    BY DEF Remembers
  <1> DEFINE r == c.tag.req
             v == c.tag.version
  <1>1. /\ r \in DOMAIN recs /\ v <= recs[r].proto.version
        /\ \A x \in c.pages : x.gen <= l.alloc.gen[x.page]
    BY DEF Remembers
  <1>2. v \in Nat /\ \A x \in c.pages : x.page \in Pages /\ x.gen \in Nat
    BY TagFacts DEF CommandsTyped
  <1> HIDE DEF r, v
  <1>3. /\ r \in DOMAIN after /\ recs[r].proto.version <= after[r].proto.version
        /\ recs[r].proto.version \in Nat /\ after[r].proto.version \in Nat
    BY <1>1, VersionNat DEF Ages
  <1>4. v <= after[r].proto.version
    BY <1>1, <1>2, <1>3
  <1>5. \A p \in Pages : l.alloc.gen[p] \in Nat /\ m.alloc.gen[p] \in Nat
    BY GenTypes DEF Whole
  <1>6. \A x \in c.pages : x.gen <= m.alloc.gen[x.page]
    BY <1>1, <1>2, <1>5 DEF GensGrow
  <1> QED BY <1>3, <1>4, <1>6 DEF r, v

\* What a step within one life leaves true of the commands and verdicts
\* that were there before it.
LEMMA OldCommands ==
    ASSUME CInv, CInv', FInv, Ages(records, records'), GensGrow(ledger, ledger')
    PROVE  /\ Remembers(records', ledger', sent)
           /\ \A c \in sent :
                 c.life < life /\ records'[c.tag.req].proto.state \in InFlightStates
                     => c.tag.version < records'[c.tag.req].proto.version
           /\ \A t \in verdicts :
                 records'[t.req].proto.state = "verifying"
                     => t.version < records'[t.req].proto.version
  <1>1. Whole(records, ledger) /\ Whole(records', ledger')
    BY DEF CInv
  <1>2. Remembers(records', ledger', sent)
    BY <1>1, RemembersOn DEF FInv
  <1>3. ASSUME NEW t \in Tag, t.req \in DOMAIN records,
               t.version <= records[t.req].proto.version
        PROVE  /\ t.version < records[t.req].proto.version
                     => t.version < records'[t.req].proto.version
               /\ records'[t.req].proto.state \in InFlightStates =>
                     \/ records[t.req].proto.state \in InFlightStates
                     \/ t.version < records'[t.req].proto.version
               /\ records'[t.req].proto.state = "verifying" =>
                     \/ records[t.req].proto.state = "verifying"
                     \/ t.version < records'[t.req].proto.version
    <2> DEFINE r == t.req
               v == t.version
    <2>1. /\ v \in Nat /\ r \in DOMAIN records /\ v <= records[r].proto.version
          /\ r \in DOMAIN records'
          /\ records[r].proto.version \in Nat /\ records'[r].proto.version \in Nat
          /\ records[r].proto.version <= records'[r].proto.version
          /\ records'[r].proto.state \in InFlightStates =>
                \/ records[r].proto.state \in InFlightStates
                \/ records[r].proto.version < records'[r].proto.version
          /\ records'[r].proto.state = "verifying" =>
                \/ records[r].proto.state = "verifying"
                \/ records[r].proto.version < records'[r].proto.version
      BY <1>1, <1>3, VersionNat, TagFacts DEF Ages
    <2> HIDE DEF r, v
    <2>2. /\ v < records[r].proto.version => v < records'[r].proto.version
          /\ records'[r].proto.state \in InFlightStates =>
                \/ records[r].proto.state \in InFlightStates
                \/ v < records'[r].proto.version
          /\ records'[r].proto.state = "verifying" =>
                \/ records[r].proto.state = "verifying"
                \/ v < records'[r].proto.version
      BY <2>1
    <2> QED BY <2>2 DEF r, v
  <1>4. ASSUME NEW c \in sent, c.life < life,
               records'[c.tag.req].proto.state \in InFlightStates
        PROVE  c.tag.version < records'[c.tag.req].proto.version
    <2>1. /\ c.tag \in Tag /\ c.tag.req \in DOMAIN records
          /\ c.tag.version <= records[c.tag.req].proto.version
      BY DEF FInv, CommandsTyped, Remembers
    <2>2. records[c.tag.req].proto.state \in InFlightStates
              => c.tag.version < records[c.tag.req].proto.version
      BY <1>4 DEF FInv, LivesApart
    <2> QED BY <1>3, <1>4, <2>1, <2>2
  <1>5. ASSUME NEW t \in verdicts, records'[t.req].proto.state = "verifying"
        PROVE  t.version < records'[t.req].proto.version
    <2>1. PICK c \in sent : c.tag = t
      BY DEF FInv, VerdictsSpent
    <2>2. /\ t \in Tag /\ t.req \in DOMAIN records
          /\ t.version <= records[t.req].proto.version
      BY <2>1 DEF FInv, CommandsTyped, Remembers
    <2>3. records[t.req].proto.state = "verifying"
              => t.version < records[t.req].proto.version
      BY DEF FInv, VerdictsSpent
    <2> QED BY <1>3, <1>5, <2>2, <2>3
  <1> QED BY <1>2, <1>4, <1>5

\* A step that emits nothing and judges nothing.
LEMMA QuietKeeps ==
    ASSUME CInv, CInv', FInv, Ages(records, records'), GensGrow(ledger, ledger'),
           sent' = sent, verdicts' = verdicts, life' = life,
           \/ durable' = durable
           \/ durable' = [records |-> records', ledger |-> ledger', effects |-> effects']
    PROVE  FInv'
  <1>1. /\ Remembers(records', ledger', sent)
        /\ \A c \in sent :
              c.life < life /\ records'[c.tag.req].proto.state \in InFlightStates
                  => c.tag.version < records'[c.tag.req].proto.version
        /\ \A t \in verdicts :
              records'[t.req].proto.state = "verifying"
                  => t.version < records'[t.req].proto.version
    BY OldCommands
  <1>2. durable' # NoSnapshot => Remembers(durable'.records, durable'.ledger, sent)
    BY <1>1 DEF FInv
  <1>3. LivesApart' /\ VerdictsSpent'
    BY <1>1 DEF FInv, LivesApart, VerdictsSpent
  <1>4. CommandsTyped' /\ AttemptsApart' /\ CoordinatesNeverReused'
    BY DEF FInv, CommandsTyped, AttemptsApart, CoordinatesNeverReused
  <1> QED BY <1>1, <1>2, <1>3, <1>4 DEF FInv

\* A step that emits the commands new, whose state is published if there are any.
LEMMA EmitsKeep ==
    ASSUME CInv, CInv', FInv, Ages(records, records'), GensGrow(ledger, ledger'),
           life' = life, NEW new, sent' = sent \cup new,
           \/ new = {} /\ durable' = durable
           \/ durable' = [records |-> records', ledger |-> ledger', effects |-> effects'],
           \A c \in new : /\ c.tag \in Tag /\ c.life = life
                          /\ \A x \in c.pages : x.page \in Pages /\ x.gen \in Nat,
           Remembers(records', ledger', new),
           AttemptsApart', CoordinatesNeverReused',
           \A t \in verdicts' : \/ t \in verdicts
                                \/ /\ \E c \in sent : c.kind = "verify" /\ c.tag = t
                                   /\ records'[t.req].proto.state # "verifying"
    PROVE  FInv'
  <1>1. /\ Remembers(records', ledger', sent)
        /\ \A c \in sent :
              c.life < life /\ records'[c.tag.req].proto.state \in InFlightStates
                  => c.tag.version < records'[c.tag.req].proto.version
        /\ \A t \in verdicts :
              records'[t.req].proto.state = "verifying"
                  => t.version < records'[t.req].proto.version
    BY OldCommands
  <1>2. Remembers(records', ledger', sent')
    BY <1>1 DEF Remembers
  <1>3. durable' # NoSnapshot => Remembers(durable'.records, durable'.ledger, sent')
    <2>1. CASE new = {} /\ durable' = durable
      <3>1. sent' = sent
        BY <2>1
      <3> QED BY <2>1, <3>1 DEF FInv
    <2>2. CASE durable' = [records |-> records', ledger |-> ledger', effects |-> effects']
      BY <1>2, <2>2
    <2> QED BY <2>1, <2>2
  <1>4. life \in Nat
    BY DEF CInv
  <1>5. CommandsTyped'
    BY <1>4 DEF FInv, CommandsTyped
  <1>6. LivesApart'
    BY <1>1, <1>4 DEF LivesApart
  <1>7. VerdictsSpent'
    BY <1>1 DEF FInv, VerdictsSpent
  <1> QED BY <1>2, <1>3, <1>5, <1>6, <1>7 DEF FInv

LEMMA ReserveFences ==
    ASSUME PublishBeforeEmit, CInv, CInv', FInv,
           NEW r \in Requests, NEW width \in Nat, width > 0, Reserve(r, width)
    PROVE  FInv'
  <1> DEFINE round == records[r].proto.round + 1
             p == StartVerification(records[r].proto, r, round)
             e == Epoch(r, round, ledger.req[r].version + 1)
             m == Stage(Begin(ledger, r, round), e, Outcome, width)
             spans == Branches(m, e)[Outcome].pages
             pages == Coordinates(spans)
             c == [kind |-> "verify", tag |-> p.active, life |-> life, pages |-> pages]
  <1>1. /\ Changes(r, p, records[r].committed, FALSE)
        /\ r \in DOMAIN records /\ Sound(p, r) /\ p.state = "verifying"
        /\ p.version = records[r].proto.version + 1
        /\ ReservedOn(ledger, r, round, width)
    BY ReserveWhole DEF CInv
  <1>2. Ages(records, records')
    BY ReserveAges
  <1>3. /\ ledger' = m /\ life' = life /\ verdicts' = verdicts
        /\ sent' = sent \cup {c}
        /\ durable' = [records |-> records', ledger |-> ledger', effects |-> effects']
    BY DEF Reserve, Emit
  <1>4. c.kind = "verify" /\ c.tag = p.active /\ c.life = life /\ c.pages = pages
    OBVIOUS
  <1>5. /\ \A x \in SpanHandles(spans) :
              /\ x.page \in Pages /\ x.gen = m.alloc.gen[x.page]
              /\ x.gen = ledger.alloc.gen[x.page] + 1
        /\ MethodOn(ledger, m, r)
    <2> HIDE DEF round
    <2> QED BY <1>1 DEF ReservedOn
  <1> HIDE DEF c, m, spans, p, round
  <1>6. \A x \in pages : /\ x.page \in Pages /\ x.gen = ledger'.alloc.gen[x.page]
                         /\ x.gen = ledger.alloc.gen[x.page] + 1
    BY <1>3, <1>5 DEF Coordinates
  <1> HIDE DEF pages
  <1>7. GensGrow(ledger, ledger')
    BY <1>3, <1>5 DEF MethodOn, GensGrow
  <1>8. c.tag \in Tag /\ c.tag.req = r /\ c.tag.version = p.version
    BY <1>1, <1>4, ActiveTag
  <1>9. \A q \in Pages : ledger.alloc.gen[q] \in Nat
    BY GenTypes DEF CInv, Whole
  <1>10. \A x \in c.pages : x.page \in Pages /\ x.gen \in Nat
    BY <1>4, <1>6, <1>9
  <1>11. records[r].proto.version \in Nat
    BY <1>1, VersionNat DEF CInv
  <1>12. r \in DOMAIN records' /\ records'[r].proto = p
    BY <1>1 DEF Changes, With
  <1>13. Remembers(records', ledger', {c})
    <2>1. \A x \in c.pages : x.gen <= ledger'.alloc.gen[x.page]
      BY <1>4, <1>6, <1>10
    <2>2. c.tag.version <= records'[r].proto.version
      BY <1>1, <1>8, <1>11, <1>12
    <2> QED BY <1>8, <1>12, <2>1, <2>2 DEF Remembers
  <1>14. AttemptsApart'
    <2>1. ASSUME NEW d \in sent, d.tag.req = r PROVE d.tag.version # c.tag.version
      <3>1. d.tag \in Tag /\ d.tag.version <= records[r].proto.version
        BY <2>1 DEF FInv, CommandsTyped, Remembers
      <3> QED BY <1>1, <1>8, <1>11, <3>1, TagFacts
    <2> QED BY <1>3, <1>8, <2>1 DEF FInv, AttemptsApart
  <1>15. CoordinatesNeverReused'
    <2>1. ASSUME NEW d \in sent PROVE c.pages \cap d.pages = {} /\ d.pages \cap c.pages = {}
      <3>1. ASSUME NEW x \in c.pages, x \in d.pages PROVE FALSE
        <4>1. x.gen <= ledger.alloc.gen[x.page] /\ x.page \in Pages
          BY <3>1 DEF FInv, Remembers, CommandsTyped
        <4> QED BY <1>4, <1>6, <1>9, <4>1
      <3> QED BY <3>1
    <2> QED BY <1>3, <2>1 DEF FInv, CoordinatesNeverReused
  <1> HIDE DEF c
  <1> QED BY <1>2, <1>3, <1>4, <1>7, <1>8, <1>10, <1>13, <1>14, <1>15, EmitsKeep

LEMMA VerifyFences ==
    ASSUME PublishBeforeEmit, CInv, CInv', FInv,
           NEW tag, NEW hit \in BOOLEAN, NEW accepted \in Nat,
           \E c \in sent : c.kind = "verify" /\ c.tag = tag,
           VerifyComplete(tag, hit, accepted)
    PROVE  FInv'
  <1> DEFINE r == tag.req
             p == AfterVerify(records[r], hit, accepted)
             d == [kind |-> "recovery", tag |-> p.active, life |-> life, pages |-> {}]
             new == IF hit THEN {} ELSE {d}
  <1>1. Judged(tag, hit, accepted, p)
    BY VerifyFacts
  <1>2. Ages(records, records')
    BY VerifyAges
  <1>3. /\ life' = life /\ verdicts' = verdicts \cup {tag}
        /\ sent' = sent \cup new
        /\ \/ new = {} /\ durable' = durable
           \/ durable' = [records |-> records', ledger |-> ledger', effects |-> effects']
    BY DEF VerifyComplete, Emit
  <1>4. d.kind = "recovery" /\ d.tag = p.active /\ d.life = life /\ d.pages = {}
    OBVIOUS
  <1> HIDE DEF d, p
  <1>5. /\ Changes(r, p, records[r].committed + accepted, FALSE)
        /\ r \in DOMAIN records /\ tag \in Tag
        /\ tag.version = records[r].proto.version
        /\ p.state # "verifying"
        /\ ~hit => p.active = tag /\ p.version = records[r].proto.version
    BY <1>1 DEF Judged
  <1>6. r \in DOMAIN records' /\ records'[r].proto = p
    BY <1>5 DEF Changes, With
  <1>7. GensGrow(ledger, ledger')
    BY <1>5 DEF Changes, MethodOn, GensGrow
  <1>8. \A c \in new : /\ c.kind = "recovery" /\ c.tag = tag /\ c.life = life
                       /\ c.pages = {} /\ ~hit
    BY <1>4, <1>5
  <1> HIDE DEF new
  <1>9. \A c \in new : /\ c.tag \in Tag /\ c.life = life
                       /\ \A x \in c.pages : x.page \in Pages /\ x.gen \in Nat
    BY <1>5, <1>8
  <1>10. Remembers(records', ledger', new)
    <2>1. ASSUME NEW c \in new PROVE c.tag.version <= records'[r].proto.version
      <3>1. c.tag.version = records'[r].proto.version /\ tag.version \in Nat
        BY <1>5, <1>6, <1>8, TagFacts
      <3> QED BY <1>8, <3>1
    <2> QED BY <1>6, <1>8, <2>1 DEF Remembers
  <1>11. AttemptsApart' /\ CoordinatesNeverReused'
    BY <1>3, <1>8 DEF FInv, AttemptsApart, CoordinatesNeverReused
  <1>12. \A t \in verdicts' : \/ t \in verdicts
                              \/ /\ \E c \in sent : c.kind = "verify" /\ c.tag = t
                                 /\ records'[t.req].proto.state # "verifying"
    BY <1>3, <1>5, <1>6
  <1> QED BY <1>2, <1>3, <1>7, <1>9, <1>10, <1>11, <1>12, EmitsKeep

\* A restored request in flight was fenced, and awaits no verdict.
LEMMA ResumedInFlight ==
    ASSUME NEW recs, NEW l, Whole(recs, l), NEW r \in DOMAIN recs
    PROVE  /\ Resumed(recs)[r].proto.state # "verifying"
           /\ Resumed(recs)[r].proto.state \in InFlightStates => r \in Fenced(recs)
           /\ r \in Fenced(recs) =>
                 recs[r].proto.version < Resumed(recs)[r].proto.version
  <1>1. CASE r \in Fenced(recs)
    <2> DEFINE new == Resumed(recs)[r]
    <2>1. /\ new.proto.state = "recovering" /\ recs[r].proto.version \in Nat
          /\ new.proto.version = recs[r].proto.version + 1
      BY <1>1, FencedRecord
    <2> HIDE DEF new
    <2>2. new.proto.state # "verifying" /\ recs[r].proto.version < new.proto.version
      BY <2>1
    <2> QED BY <1>1, <2>2 DEF new
  <1>2. CASE r \notin Fenced(recs)
    <2>1. Resumed(recs)[r] = recs[r] /\ ~Interrupted(recs[r]) /\ Linked(l, r, recs[r])
      BY <1>2 DEF Resumed, Fenced, Whole
    <2>2. recs[r].proto.state \notin InFlightStates
      BY <2>1 DEF Interrupted, Linked
    <2> QED BY <1>2, <2>1, <2>2
  <1> QED BY <1>1, <1>2

LEMMA CrashFences ==
    ASSUME PublishBeforeEmit, CInv, CInv', FInv, Crash
    PROVE  FInv'
  <1> DEFINE old == durable.records
             Cmd(r) == [kind |-> "recovery", tag |-> Resumed(old)[r].proto.active,
                        life |-> life + 1, pages |-> {}]
             new == {Cmd(r) : r \in Fenced(old)}
  <1>1. /\ Whole(old, durable.ledger) /\ ledger.alloc.pool \in Nat
        /\ Remembers(old, durable.ledger, sent)
    BY PoolNat DEF CInv, FInv, Crash
  <1>2. /\ records' = Resumed(old) /\ Whole(records', ledger')
        /\ ledger'.alloc.gen = durable.ledger.alloc.gen
    BY <1>1, CrashWhole
  <1>3. /\ life' = life + 1 /\ verdicts' = verdicts /\ sent' = sent \cup new
        /\ \/ new = {} /\ durable' = durable
           \/ durable' = [records |-> records', ledger |-> ledger', effects |-> effects']
    BY DEF Crash, Emit, Fenced, Resumed
  <1> HIDE DEF old
  <1>4. Ages(old, records') /\ DOMAIN records' = DOMAIN old
    BY <1>1, <1>2, ResumedAges
  <1>5. GensGrow(durable.ledger, ledger')
    BY <1>1, <1>2, GenTypes DEF GensGrow, Whole
  <1>6. Remembers(records', ledger', sent)
    BY <1>1, <1>2, <1>4, <1>5, RemembersOn DEF FInv
  <1>7. life \in Nat
    BY DEF CInv
  <1>8. ASSUME NEW c \in new
        PROVE  /\ c.kind = "recovery" /\ c.tag \in Tag /\ c.life = life + 1 /\ c.pages = {}
               /\ c.tag.req \in DOMAIN records'
               /\ c.tag.version <= records'[c.tag.req].proto.version
    <2>1. PICK r \in Fenced(old) : c = Cmd(r)
      OBVIOUS
    <2>2. /\ c.kind = "recovery" /\ c.tag = Resumed(old)[r].proto.active
          /\ c.life = life + 1 /\ c.pages = {}
      BY <2>1
    <2> DEFINE rec == Resumed(old)[r]
    <2>3. /\ r \in DOMAIN old /\ rec.proto.active \in Tag /\ rec.proto.active.req = r
          /\ rec.proto.active.version = rec.proto.version
      BY <1>1, FencedRecord
    <2>4. rec = records'[r]
      BY <1>2
    <2> HIDE DEF rec
    <2>5. c.tag \in Tag /\ c.tag.req = r /\ c.tag.version = records'[r].proto.version
      BY <2>2, <2>3, <2>4 DEF rec
    <2>6. c.tag.version <= records'[r].proto.version
      BY <2>5, TagFacts
    <2> QED BY <1>4, <2>2, <2>3, <2>5, <2>6
  <1> HIDE DEF new
  <1>9. Remembers(records', ledger', sent')
    BY <1>3, <1>6, <1>8 DEF Remembers
  <1>10. durable' # NoSnapshot => Remembers(durable'.records, durable'.ledger, sent')
    BY <1>3, <1>9 DEF FInv
  <1>11. CommandsTyped'
    BY <1>3, <1>7, <1>8 DEF FInv, CommandsTyped
  <1>12. \A r \in DOMAIN old :
            /\ records'[r].proto.state # "verifying"
            /\ records'[r].proto.state \in InFlightStates =>
                  old[r].proto.version < records'[r].proto.version
    BY <1>1, <1>2, ResumedInFlight
  <1>13. LivesApart'
    <2>1. ASSUME NEW c \in sent, records'[c.tag.req].proto.state \in InFlightStates
          PROVE  c.tag.version < records'[c.tag.req].proto.version
      <3> DEFINE r == c.tag.req
                 v == c.tag.version
      <3>1. v \in Nat /\ r \in DOMAIN old /\ v <= old[r].proto.version
        BY <1>1, TagFacts DEF Remembers, FInv, CommandsTyped
      <3>2. old[r].proto.version \in Nat /\ records'[r].proto.version \in Nat
        BY <1>1, <1>2, <1>4, <3>1, VersionNat
      <3>3. old[r].proto.version < records'[r].proto.version
        BY <1>12, <2>1, <3>1
      <3> HIDE DEF r, v
      <3>4. v < records'[r].proto.version
        BY <3>1, <3>2, <3>3
      <3> QED BY <3>4 DEF r, v
    <2>2. \A c \in new : ~(c.life < life')
      BY <1>3, <1>7, <1>8
    <2> QED BY <1>3, <2>1, <2>2 DEF LivesApart
  <1>14. AttemptsApart' /\ CoordinatesNeverReused'
    BY <1>3, <1>8 DEF FInv, AttemptsApart, CoordinatesNeverReused
  <1>15. VerdictsSpent'
    <2>1. ASSUME NEW t \in verdicts
          PROVE  /\ \E c \in sent : c.kind = "verify" /\ c.tag = t
                 /\ records'[t.req].proto.state # "verifying"
      <3>1. PICK c \in sent : c.kind = "verify" /\ c.tag = t
        BY DEF FInv, VerdictsSpent
      <3>2. t.req \in DOMAIN old
        BY <1>1, <3>1 DEF Remembers
      <3> QED BY <1>12, <3>1, <3>2
    <2> QED BY <1>3, <2>1 DEF VerdictsSpent
  <1> QED BY <1>9, <1>10, <1>11, <1>13, <1>14, <1>15 DEF FInv

LEMMA FInvStep == PublishBeforeEmit /\ CInv /\ CInv' /\ FInv /\ [Next]_vars => FInv'
  <1> SUFFICES ASSUME PublishBeforeEmit, CInv, CInv', FInv, [Next]_vars PROVE FInv'
    OBVIOUS
  <1>0. Totals \subseteq Nat /\ 0 .. MaxBlocks \subseteq Nat /\ 1 .. MaxBlocks \subseteq Nat
    BY CoordinatorAssumption
  <1>1. ASSUME NEW r, NEW p, NEW committed, NEW cancelled,
               Changes(r, p, committed, cancelled)
        PROVE  GensGrow(ledger, ledger')
    BY <1>1 DEF Changes, MethodOn, GensGrow
  <1>2. ASSUME NEW r \in Requests, NEW total \in Totals, NEW committed \in 0 .. MaxBlocks,
               RegisterRequest(r, total, committed)
        PROVE  FInv'
    <2> DEFINE p == IF committed = total THEN FinishProtocol(NewProtocol) ELSE NewProtocol
    <2>1. total \in Nat /\ committed \in Nat
      BY <1>0
    <2>2. Changes(r, p, committed, FALSE)
      BY <1>2, <2>1, RegisterWhole DEF CInv
    <2>3. Ages(records, records')
      BY <1>2, <2>1, RegisterAges
    <2>4. sent' = sent /\ verdicts' = verdicts /\ life' = life /\ durable' = durable
      BY <1>2 DEF RegisterRequest
    <2> HIDE DEF p
    <2> QED BY <1>1, <2>2, <2>3, <2>4, QuietKeeps
  <1>3. ASSUME NEW r \in Requests, NEW width \in 1 .. MaxBlocks, Reserve(r, width)
        PROVE  FInv'
    <2>1. width \in Nat /\ width > 0
      BY <1>0
    <2> QED BY <1>3, <2>1, ReserveFences
  <1>4. ASSUME NEW r \in Requests, Cancel(r)
        PROVE  FInv'
    <2> DEFINE p == Closed(records[r].proto)
    <2>1. Changes(r, p, records[r].committed, TRUE)
      BY <1>4, CancelWhole DEF CInv
    <2>2. sent' = sent /\ verdicts' = verdicts /\ life' = life /\ durable' = durable
      BY <1>4 DEF Cancel
    <2> HIDE DEF p
    <2> QED BY <1>1, <1>4, <2>1, <2>2, CancelAges, QuietKeeps
  <1>5. ASSUME NEW c \in sent, c.kind = "verify",
               NEW hit \in BOOLEAN, NEW accepted \in 0 .. MaxBlocks,
               VerifyComplete(c.tag, hit, accepted)
        PROVE  FInv'
    BY <1>0, <1>5, VerifyFences
  <1>6. ASSUME NEW c \in sent, NEW finished \in BOOLEAN, RecoveryComplete(c.tag, finished)
        PROVE  FInv'
    <2> DEFINE r == c.tag.req
               p == HandleRecoveryReply(records[r].proto, finished)
    <2>1. Changes(r, p, records[r].committed, FALSE)
      BY <1>6, RecoveryWhole DEF CInv
    <2>2. sent' = sent /\ verdicts' = verdicts /\ life' = life /\ durable' = durable
      BY <1>6 DEF RecoveryComplete
    <2>3. Ages(records, records')
      BY <1>6, RecoveryAges
    <2> HIDE DEF p, r
    <2> QED BY <1>1, <2>1, <2>2, <2>3, QuietKeeps
  <1>7. Ages(records, records) /\ GensGrow(ledger, ledger)
    BY VersionNat, GenTypes DEF CInv, Ages, GensGrow, Whole
  <1>8. CASE Publish
    <2>1. /\ records' = records /\ ledger' = ledger /\ effects' = effects /\ sent' = sent
          /\ verdicts' = verdicts /\ life' = life
          /\ durable' = [records |-> records', ledger |-> ledger', effects |-> effects']
      BY <1>8 DEF Publish
    <2>2. Ages(records, records') /\ GensGrow(ledger, ledger')
      BY <1>7, <2>1
    <2> QED BY <2>1, <2>2, QuietKeeps
  <1>9. CASE Reload
    <2>1. /\ records' = records /\ effects' = effects /\ sent' = sent
          /\ verdicts' = verdicts /\ life' = life
          /\ durable' = [records |-> records, ledger |-> ledger, effects |-> effects]
          /\ ledger' = RestoreLedger(ledger, ledger.alloc.pool + 1)
      BY <1>9 DEF Reload
    <2>2. ledger'.alloc.gen = ledger.alloc.gen
      <3>1. Whole(records, ledger) /\ ledger.alloc.pool \in Nat
        BY PoolNat DEF CInv
      <3> DEFINE pool == ledger.alloc.pool + 1
      <3>2. pool \in Nat /\ ledger' = RestoreLedger(ledger, pool)
        BY <2>1, <3>1
      <3> HIDE DEF pool
      <3> QED BY <3>1, <3>2, RestoredWhole
    <2>3. Ages(records, records') /\ GensGrow(ledger, ledger')
      BY <1>7, <2>1, <2>2 DEF GensGrow
    <2>4. FInv => Remembers(records, ledger, sent)
      BY DEF FInv
    <2>5. /\ Remembers(records', ledger', sent)
          /\ \A c \in sent :
                c.life < life /\ records'[c.tag.req].proto.state \in InFlightStates
                    => c.tag.version < records'[c.tag.req].proto.version
          /\ \A t \in verdicts :
                records'[t.req].proto.state = "verifying"
                    => t.version < records'[t.req].proto.version
      BY <2>3, OldCommands
    <2>6. durable' # NoSnapshot => Remembers(durable'.records, durable'.ledger, sent)
      BY <2>1, <2>4
    <2>7. LivesApart' /\ VerdictsSpent'
      BY <2>1, <2>5 DEF FInv, LivesApart, VerdictsSpent
    <2>8. CommandsTyped' /\ AttemptsApart' /\ CoordinatesNeverReused'
      BY <2>1 DEF FInv, CommandsTyped, AttemptsApart, CoordinatesNeverReused
    <2> QED BY <2>1, <2>5, <2>6, <2>7, <2>8 DEF FInv
  <1>10. CASE Crash
    BY <1>10, CrashFences
  <1>11. CASE UNCHANGED vars
    <2>1. /\ records' = records /\ ledger' = ledger /\ sent' = sent
          /\ verdicts' = verdicts /\ life' = life /\ durable' = durable
      BY <1>11 DEF vars
    <2>2. Ages(records, records') /\ GensGrow(ledger, ledger')
      BY <1>7, <2>1
    <2> QED BY <2>1, <2>2, QuietKeeps
  <1> QED BY <1>2, <1>3, <1>4, <1>5, <1>6, <1>8, <1>9, <1>10, <1>11 DEF Next

LEMMA FInvInit == Init => FInv
  <1> SUFFICES ASSUME Init PROVE FInv
    OBVIOUS
  <1>1. sent = {} /\ verdicts = {} /\ durable = NoSnapshot
    BY DEF Init
  <1> QED BY <1>1 DEF FInv, CommandsTyped, Remembers, LivesApart, AttemptsApart,
                      VerdictsSpent, CoordinatesNeverReused

LEMMA Fenceable == ASSUME PublishBeforeEmit PROVE Spec => [](CInv /\ FInv)
  <1>1. CInv /\ FInv /\ [Next]_vars => (CInv /\ FInv)'
    BY CInvStep, FInvStep
  <1>2. Init => CInv /\ FInv
    BY CInvInit, FInvInit
  <1> QED BY <1>1, <1>2, PTL DEF Spec

\* A reply from a dead address space is never expected, whatever it says and
\* however many crashes later it arrives.
THEOREM LostRepliesChangeNothing ==
    ASSUME PublishBeforeEmit PROVE Spec => []LostRepliesInert
  <1>1. CInv /\ FInv => LostRepliesInert
    <2> SUFFICES ASSUME CInv, FInv, NEW c \in sent, c.life < life,
                        Expects(c.tag.req, c.kind, c.tag)
                 PROVE  FALSE
      BY DEF LostRepliesInert
    <2> DEFINE r == c.tag.req
               p == records[r].proto
    <2>1. /\ r \in DOMAIN records /\ p.state \in InFlightStates /\ p.active = c.tag
      BY DEF Expects, MatchesVerify, MatchesRecovery
    <2>2. Sound(p, r) /\ r \in Requests
      BY <2>1 DEF CInv, Whole, Linked
    <2>3. c.tag.version < p.version
      BY <2>1 DEF FInv, LivesApart
    <2>4. c.tag.version = p.version /\ p.version \in Nat
      BY <2>1, <2>2, ActiveTag, TagFacts
    <2> HIDE DEF p, r
    <2> QED BY <2>3, <2>4
  <1> QED BY Fenceable, <1>1, PTL

\* No two block tables ever show a backend the same page and generation, in
\* whatever life they were sent.
THEOREM CoordinatesUnique ==
    ASSUME PublishBeforeEmit PROVE Spec => []CoordinatesNeverReused
  <1>1. CInv /\ FInv => CoordinatesNeverReused
    BY DEF FInv
  <1> QED BY Fenceable, <1>1, PTL

-----------------------------------------------------------------------------
(* Refinement of FencedVerdicts. *)

Attempts == {c.tag : c \in {d \in sent : d.kind = "verify"}}

LEMMA IssueWhen ==
    ASSUME NEW t, t \in Tag, t \notin Attempts,
           \A u \in Attempts : u.req = t.req => u.version < t.version,
           Attempts' = Attempts \cup {t}, verdicts' = verdicts
    PROVE  Verdicts!Next
  <1>1. Verdicts!Issue(t)
    BY DEF Verdicts!Issue, Verdicts!Attempt, Verdicts!Newer, Tag, Attempts
  <1> QED BY <1>1 DEF Verdicts!Next, Attempts

\* A reservation issues a tag newer than every attempt of its request.
LEMMA ReserveFresh ==
    ASSUME CInv, FInv, NEW r \in Requests, NEW width \in Nat, width > 0, Reserve(r, width)
    PROVE  LET p == StartVerification(records[r].proto, r, records[r].proto.round + 1)
           IN  /\ p.active \in Tag /\ p.active.req = r /\ p.active \notin Attempts
               /\ \A u \in Attempts : u.req = r => u.version < p.active.version
               /\ Attempts' = Attempts \cup {p.active} /\ verdicts' = verdicts
  <1> DEFINE round == records[r].proto.round + 1
             p == StartVerification(records[r].proto, r, round)
             e == Epoch(r, round, ledger.req[r].version + 1)
             staged == Stage(Begin(ledger, r, round), e, Outcome, width)
             pages == Coordinates(Branches(staged, e)[Outcome].pages)
             c == [kind |-> "verify", tag |-> p.active, life |-> life, pages |-> pages]
  <1>1. /\ r \in DOMAIN records /\ Sound(p, r) /\ p.state = "verifying"
        /\ p.version = records[r].proto.version + 1
    BY ReserveWhole DEF CInv
  <1>2. sent' = sent \cup {c} /\ verdicts' = verdicts
    BY DEF Reserve, Emit
  <1>3. c.kind = "verify" /\ c.tag = p.active
    OBVIOUS
  <1> HIDE DEF c, p, round
  <1>4. p.active \in Tag /\ p.active.req = r /\ p.active.version = p.version
    BY <1>1, ActiveTag
  <1>5. Attempts' = Attempts \cup {p.active}
    <2>1. \A t : t \in Attempts' <=> t \in Attempts \/ t = p.active
      BY <1>2, <1>3 DEF Attempts
    <2> QED BY <2>1
  <1>6. ASSUME NEW u \in Attempts, u.req = r PROVE u.version < p.active.version
    <2>1. u \in Tag /\ u.version <= records[r].proto.version
      BY <1>6 DEF Attempts, FInv, CommandsTyped, Remembers
    <2>2. records[r].proto.version \in Nat
      BY <1>1, VersionNat DEF CInv
    <2> QED BY <1>1, <1>4, <2>1, <2>2, TagFacts
  <1>7. p.active \notin Attempts
    BY <1>4, <1>6, TagFacts
  <1> QED BY <1>2, <1>4, <1>5, <1>6, <1>7 DEF p, round

\* A reservation is an abstract Issue of its tag.
LEMMA ReserveIssues ==
    ASSUME CInv, FInv, NEW r \in Requests, NEW width \in Nat, width > 0, Reserve(r, width)
    PROVE  Verdicts!Next
  <1> DEFINE p == StartVerification(records[r].proto, r, records[r].proto.round + 1)
  <1>1. /\ p.active \in Tag /\ p.active.req = r /\ p.active \notin Attempts
        /\ \A u \in Attempts : u.req = r => u.version < p.active.version
        /\ Attempts' = Attempts \cup {p.active} /\ verdicts' = verdicts
    BY ReserveFresh
  <1> HIDE DEF p
  <1> QED BY <1>1, IssueWhen

\* A verify reply that takes effect is an abstract Judge of its tag.
LEMMA VerifyJudges ==
    ASSUME CInv, FInv, NEW tag, NEW hit \in BOOLEAN, NEW accepted \in Nat,
           \E c \in sent : c.kind = "verify" /\ c.tag = tag,
           VerifyComplete(tag, hit, accepted)
    PROVE  Verdicts!Next
  <1> DEFINE r == tag.req
             p == AfterVerify(records[r], hit, accepted)
  <1>1. Judged(tag, hit, accepted, p)
    BY VerifyFacts
  <1> HIDE DEF p
  <1>2. /\ r \in DOMAIN records /\ tag \in Tag
        /\ records[r].proto.state = "verifying"
        /\ tag.version = records[r].proto.version
    BY <1>1 DEF Judged
  <1>3. tag \in Attempts
    BY DEF Attempts
  <1>4. tag \notin verdicts
    <2>1. tag \in verdicts => tag.version < records[r].proto.version
      BY <1>2 DEF FInv, VerdictsSpent
    <2> QED BY <1>2, <2>1, TagFacts
  <1>5. ASSUME NEW u \in Attempts \ {tag}, u.req = r PROVE u.version < tag.version
    <2>1. PICK d \in sent : d.kind = "verify" /\ d.tag = u
      BY DEF Attempts
    <2>2. u \in Tag /\ u.version <= records[r].proto.version
      BY <1>5, <2>1 DEF FInv, CommandsTyped, Remembers
    <2>3. u.version # tag.version
      BY <1>5, <2>1 DEF FInv, AttemptsApart
    <2> QED BY <1>2, <2>2, <2>3, TagFacts
  <1>6. Attempts' = Attempts /\ verdicts' = verdicts \cup {tag}
    <2>1. /\ verdicts' = verdicts \cup {tag}
          /\ \A c \in sent : c \in sent'
          /\ \A c \in sent' : c \in sent \/ c.kind = "recovery"
      BY DEF VerifyComplete, Emit
    <2>2. \A t : t \in Attempts' <=> t \in Attempts
      BY <2>1 DEF Attempts
    <2> QED BY <2>1, <2>2
  <1>7. Verdicts!Judge(tag)
    BY <1>3, <1>4, <1>5, <1>6 DEF Verdicts!Judge, Verdicts!Newer, Attempts
  <1> QED BY <1>3, <1>7 DEF Verdicts!Next, Attempts

\* Every other step leaves attempts and verdicts alone.
LEMMA OthersStutter ==
    ASSUME \/ \E r, total, committed : RegisterRequest(r, total, committed)
           \/ \E r : Cancel(r)
           \/ \E tag, finished : RecoveryComplete(tag, finished)
           \/ Publish \/ Reload \/ Crash
           \/ UNCHANGED vars
    PROVE  UNCHANGED Verdicts!vars
  <1>1. verdicts' = verdicts
    BY DEF RegisterRequest, Cancel, RecoveryComplete, Publish, Reload, Crash, vars
  <1>2. /\ \A c \in sent : c \in sent'
        /\ \A c \in sent' : c \in sent \/ c.kind = "recovery"
    <2>1. CASE Crash
      <3> DEFINE new == {[kind |-> "recovery", tag |-> Resumed(durable.records)[r].proto.active,
                          life |-> life + 1, pages |-> {}] : r \in Fenced(durable.records)}
      <3>1. sent' = sent \cup new
        BY <2>1 DEF Crash, Emit, Fenced, Resumed
      <3>2. \A c \in new : c.kind = "recovery"
        OBVIOUS
      <3> HIDE DEF new
      <3> QED BY <3>1, <3>2
    <2>2. CASE ~Crash
      BY <2>2 DEF RegisterRequest, Cancel, RecoveryComplete, Publish, Reload, vars
    <2> QED BY <2>1, <2>2
  <1>3. \A t : t \in Attempts' <=> t \in Attempts
    BY <1>2 DEF Attempts
  <1>4. Attempts' = Attempts
    BY <1>3
  <1> QED BY <1>1, <1>4 DEF Verdicts!vars, Attempts

LEMMA RefinementStep ==
    CInv /\ FInv /\ [Next]_vars => [Verdicts!Next]_(Verdicts!vars)
  <1> SUFFICES ASSUME CInv, FInv, [Next]_vars PROVE [Verdicts!Next]_(Verdicts!vars)
    OBVIOUS
  <1>0. 0 .. MaxBlocks \subseteq Nat /\ 1 .. MaxBlocks \subseteq Nat
    BY CoordinatorAssumption
  <1>1. ASSUME NEW r \in Requests, NEW width \in 1 .. MaxBlocks, Reserve(r, width)
        PROVE  Verdicts!Next
    <2>1. width \in Nat /\ width > 0
      BY <1>0
    <2> QED BY <1>1, <2>1, ReserveIssues
  <1>2. ASSUME NEW c \in sent, c.kind = "verify",
               NEW hit \in BOOLEAN, NEW accepted \in 0 .. MaxBlocks,
               VerifyComplete(c.tag, hit, accepted)
        PROVE  Verdicts!Next
    BY <1>0, <1>2, VerifyJudges
  <1> QED BY <1>1, <1>2, OthersStutter DEF Next

\* The composition keeps the promise of its protocol objects: every reservation
\* is a fresh attempt, and only the newest is judged, once, across crashes.
THEOREM CoordinatorRefines ==
    ASSUME PublishBeforeEmit PROVE Spec => ImplementsFencedVerdicts
  <1>1. Init => Verdicts!Init
    BY DEF Init, Verdicts!Init
  <1> QED BY <1>1, Fenceable, RefinementStep, PTL
          DEF Spec, ImplementsFencedVerdicts, Verdicts!Spec

=============================================================================
