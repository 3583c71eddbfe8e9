-------------------------- MODULE SpeculativeLedger --------------------------
(***************************************************************************)
(* The transaction ledger of fissionspec/ledger.py as pure operators on    *)
(*                                                                         *)
(*   [alloc   : its FixedPageAllocator,                                    *)
(*    req     : a function from the registered requests to                 *)
(*              [blocks, trunk, version, round, active],                   *)
(*    aborted : the epochs whose abort may be replayed,                    *)
(*    floor   : version floors, which outlive their requests]              *)
(*                                                                         *)
(* A trunk is the sequence of page spans that holds the committed blocks;  *)
(* active is NoTxn or [epoch, branches], and a branch is one outcome's     *)
(* private extension [appended, pages, cow].  Can... is the condition      *)
(* under which a method does not raise; the operator named after the       *)
(* method is the ledger afterwards.                                        *)
(*                                                                         *)
(* An operator named Wrong... is a plausible mistake in the operator that  *)
(* follows it, for the property named beside it to catch.                  *)
(***************************************************************************)
EXTENDS FixedPageAllocator, Sequences

CONSTANTS
    PageSize,   \* blocks per page
    NoTxn       \* active = None

ASSUME PageSizeAssumption == PageSize \in Nat \ {0}

\* The values of _Branch and _Transaction, for requests R and outcomes O.
Span ==
    [handle : [page : Pages, gen : Nat, pool : Nat], start : Int, used : Int]

Branch == [appended : Nat, pages : Seq(Span), cow : BOOLEAN]

Transaction(R, O) ==
    [epoch    : [req : R, round : Nat, version : Nat],
     branches : UNION {[S -> Branch] : S \in SUBSET O}]

NewLedger(pool) ==
    [alloc |-> NewAllocator(pool), req |-> [r \in {} |-> 0],
     aborted |-> {}, floor |-> [r \in {} |-> 0]]

Epoch(r, round, version) == [req |-> r, round |-> round, version |-> version]
TrunkOwner(r) == <<"trunk", r>>
BranchOwner(e, o) == <<"branch", e, o>>

\* f with k mapped to v, and f without k (a dict assignment, a dict del).
With(f, k, v) == [x \in DOMAIN f \cup {k} |-> IF x = k THEN v ELSE f[x]]
Without(f, k) == [x \in DOMAIN f \ {k} |-> f[x]]

-----------------------------------------------------------------------------
(* Spans: [handle, start, used] is one page and the blocks it holds. *)

PagesFor(blocks) == (blocks + PageSize - 1) \div PageSize

Least(a, b) == IF a < b THEN a ELSE b

Spans(handles, start, blocks) ==
    [i \in 1 .. Len(handles) |->
        [handle |-> handles[i], start |-> start + (i - 1) * PageSize,
         used |-> Least(PageSize, blocks - (i - 1) * PageSize)]]

SpanHandles(pages) == {pages[i].handle : i \in 1 .. Len(pages)}

BranchHandles(branches) ==
    UNION {SpanHandles(branches[o].pages) : o \in DOMAIN branches}

TailUsed(request) == request.blocks % PageSize

Cow(request, appended) == appended > 0 /\ TailUsed(request) > 0

\* Blocks a branch stores privately: its own and, if any, the cloned tail.
Extent(request, appended) ==
    appended + IF Cow(request, appended) THEN TailUsed(request) ELSE 0

\* The spans of a branch before the first that starts at block end or later,
\* the last one truncated.
AcceptedPages(branch, end) ==
    LET kept == {i \in 1 .. Len(branch.pages) :
                    \A j \in 1 .. i : branch.pages[j].start < end}
    IN  [i \in kept |->
            [branch.pages[i] EXCEPT !.used = Least(PageSize, end - branch.pages[i].start)]]

-----------------------------------------------------------------------------
(* Methods. *)

CanRegister(l, r, blocks) ==
    /\ r \notin DOMAIN l.req
    /\ PagesFor(blocks) <= Cardinality(l.alloc.free)

FloorOf(l, r) == IF r \in DOMAIN l.floor THEN l.floor[r] ELSE 0

Register(l, r, blocks) ==
    LET n == PagesFor(blocks)
    IN  [l EXCEPT
            !.alloc = Allocate(@, n, TrunkOwner(r)),
            !.req = With(@, r, [blocks  |-> blocks,
                                trunk   |-> Spans(Leases(l.alloc, n), 0, blocks),
                                version |-> FloorOf(l, r), round |-> -1,
                                active  |-> NoTxn]),
            !.floor = With(@, r, FloorOf(l, r))]

CanBegin(l, r, round) ==
    /\ r \in DOMAIN l.req
    /\ l.req[r].active = NoTxn
    /\ round > l.req[r].round

Begin(l, r, round) ==
    LET request == l.req[r]
        version == request.version + 1
        opened  == [request EXCEPT
                       !.version = version,
                       !.round = round,
                       !.active = [epoch |-> Epoch(r, round, version),
                                   branches |-> [o \in {} |-> 0]]]
    IN  [l EXCEPT !.req = With(@, r, opened),
                  !.floor = With(@, r, version)]

\* The exact epoch e is the one its request has open.
IsActive(l, e) ==
    /\ e.req \in DOMAIN l.req
    /\ l.req[e.req].active # NoTxn
    /\ l.req[e.req].active.epoch = e

Branches(l, e) == l.req[e.req].active.branches

CanStage(l, e, o, appended) ==
    /\ IsActive(l, e)
    /\ o \notin DOMAIN Branches(l, e)
    /\ PagesFor(Extent(l.req[e.req], appended)) <= Cardinality(l.alloc.free)

\* The first page of a copy-on-write branch clones the partial tail.
Stage(l, e, o, appended) ==
    LET request == l.req[e.req]
        extent  == Extent(request, appended)
        n       == PagesFor(extent)
        start   == request.blocks - (extent - appended)
        branch  == [appended |-> appended,
                    pages |-> Spans(Leases(l.alloc, n), start, extent),
                    cow |-> Cow(request, appended)]
        active  == [request.active EXCEPT !.branches = With(@, o, branch)]
        staged  == [request EXCEPT !.active = active]
    IN  [l EXCEPT !.alloc = Allocate(@, n, BranchOwner(e, o)),
                  !.req = With(@, e.req, staged)]

CanCommit(l, e, o, accepted) ==
    /\ IsActive(l, e)
    /\ o \in DOMAIN Branches(l, e)
    /\ accepted <= Branches(l, e)[o].appended

\* The branches that lost keep their pages (LedgerAudit).
WrongReleasedByCommit(l, e, keep, replaced) ==
    SpanHandles(replaced)

\* What a commit gives back: the branches but for the kept pages, and the
\* tail of the trunk that the first kept page replaces.
ReleasedByCommit(l, e, keep, replaced) ==
    (BranchHandles(Branches(l, e)) \ SpanHandles(keep)) \cup SpanHandles(replaced)

\* A full tail is replaced too (CommittedPrefixStable).
WrongReplacedTail(request, branch, accepted) ==
    IF accepted > 0 /\ request.trunk # <<>> THEN 1 ELSE 0

\* How many trunk spans, at most its partial tail, the kept pages replace.
ReplacedTail(request, branch, accepted) ==
    IF accepted > 0 /\ branch.cow THEN 1 ELSE 0

\* The whole branch is counted (BlocksCommittedOnce).
WrongCommittedAfter(request, branch, accepted) ==
    request.blocks + branch.appended

CommittedAfter(request, branch, accepted) == request.blocks + accepted

Commit(l, e, o, accepted) ==
    LET request  == l.req[e.req]
        branch   == Branches(l, e)[o]
        keep     == IF accepted = 0 THEN <<>>
                    ELSE AcceptedPages(branch, request.blocks + accepted)
        stays    == Len(request.trunk) - ReplacedTail(request, branch, accepted)
        replaced == SubSeq(request.trunk, stays + 1, Len(request.trunk))
        settled  == [request EXCEPT
                        !.trunk = SubSeq(@, 1, stays) \o keep,
                        !.blocks = CommittedAfter(request, branch, accepted),
                        !.active = NoTxn]
    IN  [l EXCEPT
            !.alloc = Reassign(Release(@, ReleasedByCommit(l, e, keep, replaced)),
                               SpanHandles(keep), TrunkOwner(e.req)),
            !.req = With(@, e.req, settled)]

\* abort of an epoch already aborted returns False and changes nothing.
CanAbort(l, e) == e \notin l.aborted /\ IsActive(l, e)

Abort(l, e) ==
    [l EXCEPT
        !.alloc = Release(@, BranchHandles(Branches(l, e))),
        !.req = With(@, e.req, [l.req[e.req] EXCEPT !.active = NoTxn]),
        !.aborted = @ \cup {e}]

CanRetry(l, e) == IsActive(l, e)

Retry(l, e) ==
    LET request == l.req[e.req]
        version == request.version + 1
        opened  == [request EXCEPT
                       !.version = version,
                       !.active = [epoch |-> Epoch(e.req, request.round, version),
                                   branches |-> [o \in {} |-> 0]]]
    IN  [l EXCEPT !.alloc = Release(@, BranchHandles(Branches(l, e))),
                  !.req = With(@, e.req, opened),
                  !.floor = With(@, e.req, version)]

CanDrop(l, r) == r \in DOMAIN l.req

\* The version floor goes with the request (ClosedEpochsStayClosed).
WrongFloorsAfterDrop(l, r) == Without(l.floor, r)

\* A tombstone is kept, so that a reused identifier cannot recreate an epoch.
FloorsAfterDrop(l, r) == l.floor

Drop(l, r) ==
    LET request == l.req[r]
    IN  [l EXCEPT
            !.alloc = Release(@, SpanHandles(request.trunk) \cup
                          IF request.active = NoTxn THEN {}
                          ELSE BranchHandles(request.active.branches)),
            !.req = Without(@, r),
            !.aborted = {e \in @ : e.req # r},
            !.floor = FloorsAfterDrop(l, r)]

-----------------------------------------------------------------------------
(* from_snapshot: every handle moves to the namespace of the new pool. *)

RebaseSpans(pages, pool) ==
    [i \in 1 .. Len(pages) |-> [pages[i] EXCEPT !.handle.pool = pool]]

RebaseBranch(branch, pool) == [branch EXCEPT !.pages = RebaseSpans(@, pool)]

RebaseTxn(txn, pool) ==
    IF txn = NoTxn THEN NoTxn
    ELSE [txn EXCEPT !.branches = [o \in DOMAIN @ |-> RebaseBranch(@[o], pool)]]

RebaseRequest(request, pool) ==
    [request EXCEPT !.trunk = RebaseSpans(@, pool), !.active = RebaseTxn(@, pool)]

RestoreLedger(l, pool) ==
    [l EXCEPT !.alloc = Rebase(@, pool),
              !.req = [r \in DOMAIN @ |-> RebaseRequest(@[r], pool)]]

-----------------------------------------------------------------------------
(* audit(): what every method checks before it returns. *)

\* The places that own pages: <<owner, page spans>>.
Holdings(l) ==
    {<<TrunkOwner(r), l.req[r].trunk>> : r \in DOMAIN l.req} \cup
    UNION {{<<BranchOwner(l.req[r].active.epoch, o), l.req[r].active.branches[o].pages>> :
                o \in DOMAIN l.req[r].active.branches} :
           r \in {x \in DOMAIN l.req : l.req[x].active # NoTxn}}

\* Every lease is held in exactly one place of one holding, which is its
\* owner, and every span is a live lease: no leak, no sharing, no dangling.
PagesHeldOnce(l) ==
    /\ \A h \in Holdings(l), i \in 1 .. PageCount :
          i <= Len(h[2]) =>
              /\ IsLive(l.alloc, h[2][i].handle)
              /\ l.alloc.live[h[2][i].handle.page].owner = h[1]
              /\ \A g \in Holdings(l), j \in 1 .. PageCount :
                    j <= Len(g[2]) /\ g[2][j].handle.page = h[2][i].handle.page
                        => g = h /\ j = i
    /\ LiveHandles(l.alloc) = UNION {SpanHandles(h[2]) : h \in Holdings(l)}

\* Span i covers the i-th page of the extent [start, end).
Covers(pages, start, end) ==
    /\ Len(pages) = PagesFor(end - start)
    /\ \A i \in 1 .. Len(pages) :
          /\ pages[i].start = start + (i - 1) * PageSize
          /\ pages[i].used = Least(PageSize, end - pages[i].start)

Aligned(request) ==
    /\ Covers(request.trunk, 0, request.blocks)
    /\ request.active # NoTxn =>
          \A o \in DOMAIN request.active.branches :
              LET b == request.active.branches[o]
              IN  /\ b.cow = Cow(request, b.appended)
                  /\ Covers(b.pages,
                            request.blocks - (Extent(request, b.appended) - b.appended),
                            request.blocks + b.appended)

EpochsConsistent(l) ==
    /\ \A r \in DOMAIN l.req :
          LET request == l.req[r]
          IN  /\ r \in DOMAIN l.floor /\ l.floor[r] = request.version
              /\ request.version = 0 => request.round = -1
              /\ request.active # NoTxn =>
                    request.active.epoch = Epoch(r, request.round, request.version)
    /\ \A e \in l.aborted : e.req \in DOMAIN l.req =>
          /\ e.version <= l.req[e.req].version
          /\ e.round <= l.req[e.req].round
          /\ ~IsActive(l, e)

LedgerAuditOf(l) ==
    /\ AllocatorAudit(l.alloc)
    /\ PagesHeldOnce(l)
    /\ \A r \in DOMAIN l.req : Aligned(l.req[r])
    /\ EpochsConsistent(l)

=============================================================================
