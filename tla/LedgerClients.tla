---------------------------- MODULE LedgerClients ----------------------------
(***************************************************************************)
(* The speculative ledger in use: clients call its methods in any order    *)
(* with the epochs they were ever given, a checkpoint is taken at any time *)
(* and the ledger is replaced by it.  The ledger lock makes every method   *)
(* one step; a call that raises changes nothing and is no step.            *)
(***************************************************************************)
EXTENDS SpeculativeLedger

CONSTANTS
    Requests, Outcomes,
    MaxBlocks,      \* bound on the committed blocks of a request
    MaxAppended,    \* bound on the blocks of a branch
    MaxVersion,     \* bound on epoch versions
    MaxRound,       \* bound on round numbers
    MaxGeneration,  \* bound on the leases of one page
    MaxPools        \* bound on restorations

ASSUME ClientsAssumption ==
    /\ MaxBlocks \in Nat /\ MaxAppended \in Nat
    /\ MaxVersion \in Nat /\ MaxRound \in Nat
    /\ MaxGeneration \in Nat /\ MaxPools \in Nat

\* None is no transaction.
ASSUME NoTxnAssumption == NoTxn \notin Transaction(Requests, Outcomes)

VARIABLES
    ledger,     \* the live ledger
    closed,     \* history: epochs that ended, in whatever ledger
    undone,     \* history: those of closed that the live ledger may not know of
    saved,      \* the checkpoint: [ledger, closed], the ends that it knows
    retired     \* history: handles whose lease ended, in every pool

vars == <<ledger, closed, undone, saved, retired>>

Init ==
    /\ ledger = NewLedger(0)
    /\ closed = {} /\ undone = {}
    /\ saved = [ledger |-> ledger, closed |-> {}]
    /\ retired = {}

-----------------------------------------------------------------------------
OpenEpochs(l) ==
    {l.req[r].active.epoch : r \in {x \in DOMAIN l.req : l.req[x].active # NoTxn}}

\* The epochs a client may hold: every epoch that was ever returned.
HeldEpochs == closed \cup OpenEpochs(ledger)

\* The live ledger becomes l, which ends the epochs of done.
Apply(l, done) ==
    /\ \A p \in Pages : l.alloc.gen[p] <= MaxGeneration
    /\ ledger' = l
    /\ closed' = closed \cup done
    /\ undone' = undone \ done
    /\ retired' = retired \cup (LiveHandles(ledger.alloc) \ LiveHandles(l.alloc))
    /\ UNCHANGED saved

RegisterRequest(r, blocks) ==
    /\ CanRegister(ledger, r, blocks)
    /\ Apply(Register(ledger, r, blocks), {})

BeginTransaction(r, round) ==
    /\ CanBegin(ledger, r, round)
    /\ ledger.req[r].version < MaxVersion
    /\ Apply(Begin(ledger, r, round), {})

StageOutcome(e, o, appended) ==
    /\ CanStage(ledger, e, o, appended)
    /\ Apply(Stage(ledger, e, o, appended), {})

CommitOutcome(e, o, accepted) ==
    /\ CanCommit(ledger, e, o, accepted)
    /\ ledger.req[e.req].blocks + accepted <= MaxBlocks
    /\ Apply(Commit(ledger, e, o, accepted), {e})

AbortTransaction(e) ==
    /\ CanAbort(ledger, e)
    /\ Apply(Abort(ledger, e), {e})

RetryTransaction(e) ==
    /\ CanRetry(ledger, e)
    /\ e.version < MaxVersion
    /\ Apply(Retry(ledger, e), {e})

DropRequest(r) ==
    /\ CanDrop(ledger, r)
    /\ Apply(Drop(ledger, r),
             IF ledger.req[r].active = NoTxn THEN {} ELSE {ledger.req[r].active.epoch})

\* snapshot(), kept by the caller.
TakeSnapshot ==
    /\ ledger.alloc.pool < MaxPools
    /\ saved' = [ledger |-> ledger, closed |-> closed \ undone]
    /\ UNCHANGED <<ledger, closed, undone, retired>>

\* restore(): the ledger goes back to the checkpoint, in a fresh namespace.
\* What was open ends with the ledger that is discarded; clients keep their
\* epochs, and the checkpoint knows nothing of what ended after it.
RestoreSnapshot ==
    LET l == RestoreLedger(saved.ledger, ledger.alloc.pool + 1)
    IN  /\ ledger.alloc.pool < MaxPools
        /\ ledger' = l
        /\ closed' = HeldEpochs
        /\ undone' = HeldEpochs \ saved.closed
        /\ retired' = retired \cup LiveHandles(ledger.alloc)
        /\ UNCHANGED saved

Next ==
    \/ \E r \in Requests :
          \/ \E blocks \in 0..MaxBlocks : RegisterRequest(r, blocks)
          \/ \E round \in 0..MaxRound : BeginTransaction(r, round)
          \/ DropRequest(r)
    \/ \E e \in HeldEpochs :
          \/ \E o \in Outcomes :
                \/ \E appended \in 0..MaxAppended : StageOutcome(e, o, appended)
                \/ \E accepted \in 0..MaxAppended : CommitOutcome(e, o, accepted)
          \/ AbortTransaction(e) \/ RetryTransaction(e)
    \/ TakeSnapshot \/ RestoreSnapshot

Spec == Init /\ [][Next]_vars

-----------------------------------------------------------------------------
(* The audit the code runs after every method never raises: each page is   *)
(* free or held by exactly one span of one trunk or branch, spans cover    *)
(* their blocks without a gap, and epochs agree with their requests.  The  *)
(* checkpoint passes it too, so that it can always be restored.            *)
LedgerAudit ==
    LedgerAuditOf(ledger) /\ LedgerAuditOf(saved.ledger)

(* An epoch that was committed, aborted, retried or dropped is not open    *)
(* again, also when its request was dropped and registered anew, so that a *)
(* delayed stage, commit or abort that carries it is rejected: for good if *)
(* a checkpoint was taken since, in every ledger restored from it, and     *)
(* otherwise until a restoration goes back to before its end.  Such a      *)
(* restoration may bring it back: restored open, or issued a second time.  *)
ClosedEpochsStayClosed ==
    \A e \in closed : IsActive(ledger, e) => e \in undone

(* A handle whose lease ended, by a release or because the process moved   *)
(* to a restored ledger, never names a live lease again.                   *)
StaleHandlesInert ==
    \A h \in retired : ~IsLive(ledger.alloc, h)

(* Speculation is isolated from the committed prefix: while the ledger is  *)
(* in one namespace a request never loses committed blocks, and a full     *)
(* committed page stays where it is until its request is dropped.          *)
CommittedPrefixStable ==
    [][ledger'.alloc.pool = ledger.alloc.pool =>
          \A r \in DOMAIN ledger.req \cap DOMAIN ledger'.req :
              LET old == ledger.req[r]
                  new == ledger'.req[r]
              IN  /\ new.blocks >= old.blocks
                  /\ \A i \in 1 .. Len(old.trunk) :
                        old.trunk[i].used = PageSize =>
                            i <= Len(new.trunk) /\ new.trunk[i] = old.trunk[i]]_vars

=============================================================================
