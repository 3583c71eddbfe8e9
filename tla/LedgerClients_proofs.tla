------------------------- MODULE LedgerClients_proofs -------------------------
(***************************************************************************)
(* Theorems about LedgerClients, for every value of its constants: the     *)
(* audit of the ledger never fails, the committed prefix is stable, what   *)
(* was closed stays closed unless a restoration goes back to before its    *)
(* end, and what was retired stays dead.                                   *)
(*                                                                         *)
(* The lemmas of SpeculativeLedger_proofs say what each method does to an  *)
(* audited ledger (Steps).  Here the histories are added to the invariant: *)
(* closed epochs are at or below the version floor of their identifier,    *)
(* above which epochs are opened, and retired handles are at or below the  *)
(* generation of their page, above which pages are leased; a restored      *)
(* ledger names its leases in a namespace no handle was ever made in.      *)
(***************************************************************************)
EXTENDS LedgerClients, SpeculativeLedger_proofs

\* No epoch of done is open, or above the floor of its request.
ClosedFor(l, done) ==
    \A e \in done :
        /\ e.req \in DOMAIN l.floor
        /\ e.version \in 0 .. l.floor[e.req]
        /\ ~ IsActive(l, e)

LInv ==
    /\ Audited(ledger, Requests, Outcomes)
    /\ Audited(saved.ledger, Requests, Outcomes)
    /\ ClosedFor(ledger, closed \ undone)
    /\ ClosedFor(saved.ledger, saved.closed)
    /\ \A h \in retired : Past(ledger.alloc, h)

LEMMA LInvInit == Init => LInv
  <1> SUFFICES ASSUME Init PROVE LInv
    OBVIOUS
  <1>1. /\ ledger = NewLedger(0) /\ saved.ledger = ledger
        /\ closed = {} /\ undone = {} /\ saved.closed = {} /\ retired = {}
    BY DEF Init
  <1>2. Audited(NewLedger(0), Requests, Outcomes)
    BY NewLedgerAudited
  <1> QED BY <1>1, <1>2 DEF LInv, ClosedFor

\* A method that closes the epochs of done keeps the invariant.
LEMMA ApplySteps ==
    ASSUME LInv, NEW l, NEW done, Steps(ledger, l, Requests, Outcomes), Apply(l, done),
           \A e \in done :
               /\ e.req \in DOMAIN ledger.floor
               /\ e.version \in 0 .. ledger.floor[e.req]
               /\ ~ IsActive(l, e)
    PROVE  LInv' /\ PrefixKept(ledger, ledger')
  <1>1. /\ ledger' = l /\ saved' = saved
        /\ closed' = closed \cup done /\ undone' = undone \ done
        /\ retired' = retired \cup (LiveHandles(ledger.alloc) \ LiveHandles(l.alloc))
    BY DEF Apply
  <1>2. Audited(l, Requests, Outcomes) /\ Follows(ledger.alloc, l.alloc)
        /\ PrefixKept(ledger, l) /\ EpochsFresh(ledger, l)
    BY DEF Steps
  <1>3. \A h \in retired' : Past(l.alloc, h)
    BY <1>1, <1>2 DEF LInv, Follows
  <1>4. /\ \A x \in DOMAIN ledger.floor :
              /\ x \in DOMAIN l.floor
              /\ ledger.floor[x] \in Nat /\ l.floor[x] \in Nat
              /\ ledger.floor[x] <= l.floor[x]
    BY <1>2 DEF EpochsFresh, LInv, Audited, TypedLedger
  <1>5. ASSUME NEW e \in (closed \ undone) \cup done
        PROVE  /\ e.req \in DOMAIN l.floor
               /\ e.version \in 0 .. l.floor[e.req]
               /\ ~ IsActive(l, e)
    <2>1. e.req \in DOMAIN ledger.floor /\ e.version \in 0 .. ledger.floor[e.req]
      BY DEF LInv, ClosedFor
    <2>2. e.req \in DOMAIN l.floor /\ e.version \in 0 .. l.floor[e.req]
      BY <1>4, <2>1
    <2>3. CASE e \in done
      BY <2>2, <2>3
    <2>4. CASE e \in closed \ undone
      <3>1. ~ IsActive(ledger, e) /\ ~ (ledger.floor[e.req] < e.version)
        BY <1>4, <2>1, <2>4 DEF LInv, ClosedFor
      <3> QED BY <1>2, <2>1, <2>2, <3>1 DEF EpochsFresh
    <2> QED BY <2>3, <2>4
  <1>6. ClosedFor(l, closed' \ undone')
    BY <1>1, <1>5 DEF ClosedFor
  <1> QED BY <1>1, <1>2, <1>3, <1>6 DEF LInv

\* An open epoch is at the floor.
LEMMA OpenAtFloor ==
    ASSUME LInv, NEW e, IsActive(ledger, e)
    PROVE  e.req \in DOMAIN ledger.floor /\ e.version \in 0 .. ledger.floor[e.req]
  <1>1. /\ e.req \in DOMAIN ledger.floor /\ ledger.floor[e.req] = e.version
        /\ e.version \in Nat
    BY ActiveFacts DEF LInv
  <1> QED BY <1>1

\* What every step keeps, with what it may not do to committed prefixes.
Kept ==
    /\ LInv'
    /\ ledger'.alloc.pool = ledger.alloc.pool => PrefixKept(ledger, ledger')

LEMMA LInvStep == LInv /\ [Next]_vars => Kept
  <1> SUFFICES ASSUME LInv, [Next]_vars PROVE Kept
    OBVIOUS
  <1>0. /\ Audited(ledger, Requests, Outcomes) /\ Audited(saved.ledger, Requests, Outcomes)
        /\ NoTxn \notin Transaction(Requests, Outcomes)
    BY NoTxnAssumption DEF LInv
  <1>1. ASSUME NEW r \in Requests, NEW blocks \in 0..MaxBlocks, RegisterRequest(r, blocks)
        PROVE  Kept
    <2>1. blocks \in Nat
      BY ClientsAssumption
    <2>2. Steps(ledger, Register(ledger, r, blocks), Requests, Outcomes)
      BY <1>0, <1>1, <2>1, RegisterSteps DEF RegisterRequest
    <2> QED BY <1>1, <2>2, ApplySteps DEF RegisterRequest, Kept
  <1>2. ASSUME NEW r \in Requests, NEW round \in 0..MaxRound, BeginTransaction(r, round)
        PROVE  Kept
    <2>1. round \in Nat
      BY ClientsAssumption
    <2>2. Steps(ledger, Begin(ledger, r, round), Requests, Outcomes)
      BY <1>0, <1>2, <2>1, BeginSteps DEF BeginTransaction
    <2> QED BY <1>2, <2>2, ApplySteps DEF BeginTransaction, Kept
  <1>3. ASSUME NEW r \in Requests, DropRequest(r)
        PROVE  Kept
    <2> DEFINE done == IF ledger.req[r].active = NoTxn THEN {}
                       ELSE {ledger.req[r].active.epoch}
               l == Drop(ledger, r)
    <2>1. r \in DOMAIN ledger.req /\ Apply(l, done)
      BY <1>3 DEF DropRequest, CanDrop
    <2>2. Steps(ledger, l, Requests, Outcomes)
      BY <1>0, <1>3, DropSteps DEF DropRequest
    <2>3. \A e \in done : IsActive(ledger, e) /\ e.req = r
      BY <1>0, <2>1, RequestFacts DEF IsActive
    <2>4. DOMAIN l.req = DOMAIN ledger.req \ {r}
      BY <1>0 DEF Drop, Without, Audited, TypedLedger
    <2> HIDE DEF done, l
    <2>5. \A e \in done : ~ IsActive(l, e)
      BY <2>3, <2>4 DEF IsActive
    <2> QED BY <2>1, <2>2, <2>3, <2>5, OpenAtFloor, ApplySteps DEF Kept
  <1>4. ASSUME NEW e \in HeldEpochs, NEW o \in Outcomes, NEW appended \in 0..MaxAppended,
               StageOutcome(e, o, appended)
        PROVE  Kept
    <2>1. appended \in Nat
      BY ClientsAssumption
    <2>2. Steps(ledger, Stage(ledger, e, o, appended), Requests, Outcomes)
      BY <1>0, <1>4, <2>1, StageSteps DEF StageOutcome
    <2> QED BY <1>4, <2>2, ApplySteps DEF StageOutcome, Kept
  <1>5. ASSUME NEW e \in HeldEpochs, NEW o \in Outcomes, NEW accepted \in 0..MaxAppended,
               CommitOutcome(e, o, accepted)
        PROVE  Kept
    <2> DEFINE l == Commit(ledger, e, o, accepted)
    <2>1. accepted \in Nat
      BY ClientsAssumption
    <2>2. CanCommit(ledger, e, o, accepted) /\ IsActive(ledger, e) /\ Apply(l, {e})
      BY <1>5 DEF CommitOutcome, CanCommit
    <2>3. Steps(ledger, l, Requests, Outcomes) /\ ~ IsActive(l, e)
      BY <1>0, <2>1, <2>2, CommitSteps
    <2> HIDE DEF l
    <2> QED BY <2>2, <2>3, OpenAtFloor, ApplySteps DEF Kept
  <1>6. ASSUME NEW e \in HeldEpochs, AbortTransaction(e)
        PROVE  Kept
    <2> DEFINE l == Abort(ledger, e)
    <2>1. IsActive(ledger, e) /\ Apply(l, {e})
      BY <1>6 DEF AbortTransaction, CanAbort
    <2>2. Steps(ledger, l, Requests, Outcomes) /\ ~ IsActive(l, e)
      BY <1>0, <2>1, AbortSteps
    <2> HIDE DEF l
    <2> QED BY <2>1, <2>2, OpenAtFloor, ApplySteps DEF Kept
  <1>7. ASSUME NEW e \in HeldEpochs, RetryTransaction(e)
        PROVE  Kept
    <2> DEFINE l == Retry(ledger, e)
    <2>1. IsActive(ledger, e) /\ Apply(l, {e})
      BY <1>7 DEF RetryTransaction, CanRetry
    <2>2. Steps(ledger, l, Requests, Outcomes) /\ ~ IsActive(l, e)
      BY <1>0, <2>1, RetrySteps
    <2> HIDE DEF l
    <2> QED BY <2>1, <2>2, OpenAtFloor, ApplySteps DEF Kept
  <1>8. PrefixKept(ledger, ledger)
    BY <1>0, SamePrefixKept
  <1>9. CASE TakeSnapshot
    BY <1>8, <1>9 DEF TakeSnapshot, LInv, Kept
  <1>10. CASE RestoreSnapshot
    <2> DEFINE pool == ledger.alloc.pool + 1
               l == RestoreLedger(saved.ledger, pool)
    <2>1. Sane(saved.ledger.alloc) /\ Sane(ledger.alloc)
      BY <1>0, SaneLedger
    <2>2. pool \in Nat /\ pool # ledger.alloc.pool
      BY <2>1 DEF Sane
    <2>3. /\ Audited(l, Requests, Outcomes)
          /\ l.alloc = Rebase(saved.ledger.alloc, pool)
          /\ l.floor = saved.ledger.floor
          /\ \A e : IsActive(l, e) => IsActive(saved.ledger, e)
      BY <1>0, <2>2, RestoreAudited
    <2>4. /\ \A h : Past(ledger.alloc, h) => Past(l.alloc, h)
          /\ \A h \in LiveHandles(ledger.alloc) : Past(l.alloc, h)
      BY <2>1, <2>3, RebaseOutlives
    <2>5. /\ ledger' = l /\ saved' = saved
          /\ closed' = HeldEpochs /\ undone' = HeldEpochs \ saved.closed
          /\ retired' = retired \cup LiveHandles(ledger.alloc)
      BY <1>10 DEF RestoreSnapshot
    <2>6. l.alloc.pool = pool
      BY <2>1, <2>3 DEF Rebase, Sane
    <2> HIDE DEF l, pool
    <2>7. \A h \in retired' : Past(l.alloc, h)
      BY <2>4, <2>5 DEF LInv
    <2>8. ClosedFor(l, saved.closed) /\ ClosedFor(saved.ledger, saved.closed)
      BY <2>3 DEF LInv, ClosedFor
    <2>9. ClosedFor(l, closed' \ undone')
      BY <2>5, <2>8 DEF ClosedFor
    <2> QED BY <1>0, <2>2, <2>3, <2>5, <2>6, <2>7, <2>8, <2>9 DEF LInv, Kept
  <1>11. CASE UNCHANGED vars
    BY <1>8, <1>11 DEF vars, LInv, Kept
  <1> QED BY <1>1, <1>2, <1>3, <1>4, <1>5, <1>6, <1>7, <1>9, <1>10, <1>11 DEF Next

LEMMA LInvHolds == Spec => []LInv
  <1>1. LInv /\ [Next]_vars => LInv'
    BY LInvStep DEF Kept
  <1> QED BY LInvInit, <1>1, PTL DEF Spec

-----------------------------------------------------------------------------
\* The audit that closes every method of ledger.py never raises: each page is
\* free or held once, by its owner, spans cover their extents without a gap,
\* epochs agree with their requests; and every checkpoint can be restored.
THEOREM AuditNeverRaises == Spec => []LedgerAudit
  <1>1. LInv => LedgerAudit
    BY AuditedPasses DEF LInv, LedgerAudit
  <1> QED BY <1>1, LInvHolds, PTL

\* Speculation is isolated: in one namespace a request never loses committed
\* blocks, and a full committed page stays where it is.
THEOREM PrefixStable == Spec => CommittedPrefixStable
  <1> DEFINE Stable == ledger'.alloc.pool = ledger.alloc.pool => PrefixKept(ledger, ledger')
  <1>1. LInv /\ [Next]_vars => [Stable]_vars
    BY LInvStep DEF Kept
  <1>2. Spec => [][Stable]_vars
    <2> HIDE DEF Stable
    <2> QED BY <1>1, LInvHolds, PTL DEF Spec
  <1> QED BY <1>2 DEF CommittedPrefixStable, PrefixKept

\* An epoch that was committed, aborted, retried or dropped with its request
\* is not open again, whatever is dropped and registered anew, in this ledger
\* or in one restored from a checkpoint taken after its end.  Only a restoration
\* that goes back to before the end of an epoch (undone) can bring it back.
THEOREM ClosedEpochs == Spec => []ClosedEpochsStayClosed
  <1>1. LInv => ClosedEpochsStayClosed
    BY DEF LInv, ClosedFor, ClosedEpochsStayClosed
  <1> QED BY <1>1, LInvHolds, PTL

\* A handle whose lease ended, by a release or because the process moved to a
\* restored ledger, never names a live lease again, however often its page is
\* leased anew and whichever checkpoint is restored.
THEOREM StaleHandles == Spec => []StaleHandlesInert
  <1>1. LInv => StaleHandlesInert
    BY PastIsDead, SaneLedger DEF LInv, StaleHandlesInert
  <1> QED BY <1>1, LInvHolds, PTL

=============================================================================
