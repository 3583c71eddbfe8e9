----------------------------- MODULE Coordinator -----------------------------
(***************************************************************************)
(* InMemoryCoordinator: protocol objects, the page ledger and the recovery *)
(* outbox composed under one lock, so that every public method is one      *)
(* step.  A method that raises changes nothing and is no step; so is a     *)
(* stale callback.  next_batch and the views only read.                    *)
(*                                                                         *)
(* sent holds every dispatch and recovery command that ever left, as in    *)
(* ProtocolSession, with the page coordinates of a dispatch's block table. *)
(* A fault hook that raises leaves a half-mutated object which the caller  *)
(* must discard: whatever the point, what remains is the last durable      *)
(* snapshot, so all fault points are the one action Crash.                 *)
(*                                                                         *)
(* PublishBeforeEmit says when snapshot_bytes is published: TRUE means a   *)
(* command leaves only once the state that names it is durable, FALSE      *)
(* means snapshots are taken at any time (the Publish action alone).       *)
(*                                                                         *)
(* An operator named Wrong... is a plausible mistake in the operator that  *)
(* follows it, for the property named beside it to catch.                  *)
(***************************************************************************)
EXTENDS FissionProtocol, SpeculativeLedger, FiniteSetsExt

CONSTANTS
    NoEpoch,            \* active_epoch = None, block_table = None
    NoSnapshot,         \* nothing was published yet
    PublishBeforeEmit,  \* BOOLEAN, see above
    Totals,             \* the target extents requests are registered with
    MaxBlocks,          \* bound on the blocks of a request
    MaxVersion,         \* bound on the versions reserve may hand out
    MaxLife,            \* bound on the number of crashes
    MaxReload           \* bound on the page namespaces a reload may enter

ASSUME CoordinatorAssumption ==
    /\ PublishBeforeEmit \in BOOLEAN
    /\ Totals \subseteq 0..MaxBlocks
    /\ MaxBlocks \in Nat /\ MaxVersion \in Nat
    /\ MaxLife \in Nat /\ MaxReload \in Nat

\* The outcome of every dispatch.
Outcome == "target-prefix"

ASSUME NothingAssumption ==
    /\ NoTxn \notin Transaction(Requests, {Outcome})
    /\ NoEpoch \notin [req : Requests, round : Nat, version : Nat]

VARIABLES
    records,    \* records[r] of every request ever registered
    ledger,     \* the SpeculativeLedger
    outbox,     \* outbox[r]: the recovery command [tag, accepted] of r
    effects,    \* history of this lineage: who granted how many blocks
    durable,    \* the last snapshot, [records, ledger, effects], if any
    sent,       \* every command emitted: [kind, tag, life, pages]
    verdicts,   \* history: tags whose verify reply took effect, in every life
    life        \* number of the current address space

vars == <<records, ledger, outbox, effects, durable, sent, verdicts, life>>

Init ==
    /\ records = [r \in {} |-> 0]
    /\ ledger = NewLedger(0)
    /\ outbox = [r \in {} |-> 0]
    /\ effects = {}
    /\ durable = NoSnapshot
    /\ sent = {}
    /\ verdicts = {}
    /\ life = 0

-----------------------------------------------------------------------------
IsReady(record) == ~record.cancelled /\ record.proto.state \in ReadyStates

Complete(record) == record.committed = record.total

\* The lane is derived from the record, so it cannot disagree with it.
Lane(record) == IF record.cancelled THEN "cancelled" ELSE record.proto.state

\* The page coordinates (page, generation) a block table shows a backend.
Coordinates(pages) == {[page |-> h.page, gen |-> h.gen] : h \in SpanHandles(pages)}

\* The record of r with protocol p and no transaction.
Settled(record, p) ==
    [record EXCEPT !.proto = p, !.epoch = NoEpoch, !.table = NoEpoch,
                   !.highWater = IF p.version > @ THEN p.version ELSE @]

\* New commands leave the process, after their state is durable or not.
Emit(new) ==
    /\ sent' = sent \cup new
    /\ durable' = IF PublishBeforeEmit /\ new # {}
                  THEN [records |-> records', ledger |-> ledger', effects |-> effects']
                  ELSE durable

-----------------------------------------------------------------------------
(* The public methods. *)

RegisterRequest(r, total, committed) ==
    LET p == IF committed = total THEN FinishProtocol(NewProtocol) ELSE NewProtocol
    IN  /\ r \notin DOMAIN records
        /\ committed <= total
        /\ CanRegister(ledger, r, committed)
        /\ ledger' = Register(ledger, r, committed)
        /\ records' = With(records, r,
               [proto |-> p, total |-> total, committed |-> committed,
                epoch |-> NoEpoch, table |-> NoEpoch, cancelled |-> FALSE,
                highWater |-> p.version])
        /\ effects' = effects \cup {[tag |-> TagAt(r, -1, 0), blocks |-> committed]}
        /\ UNCHANGED <<outbox, durable, sent, verdicts, life>>

\* A partly filled last page is not counted (PreflightSuffices).
WrongReservedPages(record, width) ==
    (width + (record.committed % PageSize)) \div PageSize

ReservedPages(record, width) ==
    PagesFor(width + (record.committed % PageSize))

\* What reserve checks before it touches the ledger or the protocol.
Preflight(r, width) ==
    /\ r \in DOMAIN records
    /\ IsReady(records[r])
    /\ width <= records[r].total - records[r].committed
    /\ ReservedPages(records[r], width) <= Cardinality(ledger.alloc.free)

Reserve(r, width) ==
    LET record == records[r]
        round  == record.proto.round + 1
        p      == StartVerification(record.proto, r, round)
        e      == Epoch(r, round, ledger.req[r].version + 1)
        staged == Stage(Begin(ledger, r, round), e, Outcome, width)
        pages  == Coordinates(Branches(staged, e)[Outcome].pages)
    IN  /\ Preflight(r, width)
        /\ CanBegin(ledger, r, round)
        /\ record.proto.version < MaxVersion
        /\ ledger' = staged
        /\ records' = [records EXCEPT ![r] =
               [Settled(record, p) EXCEPT
                    !.epoch = e,
                    !.table = [epoch |-> e, base |-> record.committed,
                               reserved |-> width, pages |-> pages]]]
        /\ UNCHANGED <<outbox, effects, verdicts, life>>
        /\ Emit({[kind |-> "verify", tag |-> p.active, life |-> life, pages |-> pages]})

\* on_verify_complete and on_recovery_complete ignore every other reply.
Expects(r, kind, tag) ==
    /\ r \in DOMAIN records
    /\ ~records[r].cancelled
    /\ \/ kind = "verify" /\ MatchesVerify(records[r].proto, tag)
       \/ kind = "recovery" /\ MatchesRecovery(records[r].proto, tag)

\* A miss that completes the prefix is finished too (CoordinatorAudit).
WrongAfterVerify(record, hit, accepted) ==
    LET p == HandleVerifyReply(record.proto, hit, accepted)
    IN  IF record.committed + accepted = record.total THEN FinishProtocol(p) ELSE p

\* A hit that completes the target prefix finishes the request.
AfterVerify(record, hit, accepted) ==
    LET p == HandleVerifyReply(record.proto, hit, accepted)
    IN  IF hit /\ record.committed + accepted = record.total
        THEN FinishProtocol(p) ELSE p

VerifyComplete(tag, hit, accepted) ==
    LET r      == tag.req
        record == records[r]
        p      == AfterVerify(record, hit, accepted)
        after  == Commit(ledger, record.epoch, Outcome, accepted)
    IN  /\ Expects(r, "verify", tag)
        /\ accepted <= record.table.reserved
        /\ ledger' = after
        /\ records' = [records EXCEPT ![r] =
               [Settled(record, p) EXCEPT !.committed = after.req[r].blocks]]
        /\ outbox' = IF hit THEN Without(outbox, r)
                     ELSE With(outbox, r, [tag |-> p.active, accepted |-> accepted])
        /\ effects' = effects \cup {[tag |-> tag, blocks |-> accepted]}
        /\ verdicts' = verdicts \cup {tag}
        /\ UNCHANGED life
        /\ Emit(IF hit THEN {}
                ELSE {[kind |-> "recovery", tag |-> p.active, life |-> life, pages |-> {}]})

RecoveryComplete(tag, finished) ==
    LET r == tag.req
    IN  /\ Expects(r, "recovery", tag)
        /\ finished = Complete(records[r])
        /\ records' = [records EXCEPT ![r] =
               Settled(@, HandleRecoveryReply(@.proto, finished))]
        /\ outbox' = Without(outbox, r)
        /\ UNCHANGED <<ledger, effects, durable, sent, verdicts, life>>

\* How cancel closes the protocol object of a request.
Closed(p) ==
    CASE p.state = "verifying"   -> FinishProtocol(HandleVerifyReply(p, TRUE, 0))
      [] p.state = "recovering"  -> HandleRecoveryReply(p, TRUE)
      [] p.state \in ReadyStates -> FinishProtocol(p)
      [] p.state = "finished"    -> p

Cancel(r) ==
    LET record  == records[r]
        aborted == IF record.epoch = NoEpoch THEN ledger ELSE Abort(ledger, record.epoch)
    IN  /\ r \in DOMAIN records
        /\ ~record.cancelled
        /\ ledger' = Drop(aborted, r)
        /\ records' = [records EXCEPT ![r] =
               [Settled(@, Closed(@.proto)) EXCEPT !.cancelled = TRUE]]
        /\ outbox' = Without(outbox, r)
        /\ UNCHANGED <<effects, durable, sent, verdicts, life>>

-----------------------------------------------------------------------------
(* Durability. *)

Publish ==
    /\ life < MaxLife
    /\ durable' = [records |-> records, ledger |-> ledger, effects |-> effects]
    /\ UNCHANGED <<records, ledger, outbox, effects, sent, verdicts, life>>

\* _rebuild_recovery_outbox of a snapshot.
RebuiltOutbox(recs) ==
    [r \in {x \in DOMAIN recs : ~recs[x].cancelled /\ recs[x].proto.state = "recovering"} |->
        [tag |-> recs[r].proto.active, accepted |-> recs[r].proto.accepted]]

\* An exact copy: from_snapshot_bytes, with resume_after_crash=False, of a
\* snapshot taken just before.  Nothing is lost, so nothing is fenced.
Reload ==
    /\ ledger.alloc.pool < MaxReload
    /\ ledger' = RestoreLedger(ledger, ledger.alloc.pool + 1)
    /\ outbox' = RebuiltOutbox(records)
    /\ durable' = [records |-> records, ledger |-> ledger, effects |-> effects]
    /\ UNCHANGED <<records, effects, sent, verdicts, life>>

Interrupted(record) == ~record.cancelled /\ record.proto.state \in InFlightStates

\* The aborts of from_snapshot_bytes, whose order does not matter.
AbortAll(l, epochs) ==
    [l EXCEPT
        !.alloc = Release(@, UNION {BranchHandles(Branches(l, e)) : e \in epochs}),
        !.req = [r \in DOMAIN @ |->
                    IF \E e \in epochs : e.req = r THEN [@[r] EXCEPT !.active = NoTxn]
                    ELSE @[r]],
        !.aborted = @ \cup epochs]

\* Process death, then from_snapshot_bytes of the last durable snapshot: the
\* ledger moves to a fresh pool, and every interrupted request is fenced.  A
\* process that dies before its first snapshot leaves nothing to restore.
Crash ==
    LET old     == durable.records
        fenced  == {r \in DOMAIN old : Interrupted(old[r])}
        epochs  == {old[r].epoch : r \in fenced} \ {NoEpoch}
        resumed == [r \in DOMAIN old |->
                       IF r \in fenced
                       THEN Settled(old[r], ResumeAfterCrash(old[r].proto, r))
                       ELSE old[r]]
    IN  /\ durable # NoSnapshot
        /\ life < MaxLife
        /\ life' = life + 1
        /\ ledger' = AbortAll(RestoreLedger(durable.ledger, ledger.alloc.pool + 1), epochs)
        /\ records' = resumed
        /\ outbox' = [r \in fenced |-> [tag |-> resumed[r].proto.active,
                                        accepted |-> resumed[r].proto.accepted]]
        /\ effects' = durable.effects
        /\ UNCHANGED verdicts
        /\ Emit({[kind |-> "recovery", tag |-> resumed[r].proto.active,
                  life |-> life + 1, pages |-> {}] : r \in fenced})

-----------------------------------------------------------------------------
Next ==
    \/ \E r \in Requests :
          \/ \E total \in Totals, committed \in 0..MaxBlocks : RegisterRequest(r, total, committed)
          \/ \E width \in 1..MaxBlocks : Reserve(r, width)
          \/ Cancel(r)
    \/ \E c \in sent :
          \/ /\ c.kind = "verify"
             /\ \E hit \in BOOLEAN, accepted \in 0..MaxBlocks :
                   VerifyComplete(c.tag, hit, accepted)
          \/ /\ c.kind = "recovery"
             /\ \E finished \in BOOLEAN : RecoveryComplete(c.tag, finished)
    \/ Publish \/ Reload \/ Crash

Spec == Init /\ [][Next]_vars

\* Some reply to the current command of r is delivered.  The transport is
\* at-least-once: a command is answered, and answered again, until an answer
\* counts.  Nothing obliges the scheduler to reserve or the caller to cancel.
Answered(r) ==
    \E c \in sent :
        /\ c.tag.req = r
        /\ \/ /\ c.kind = "verify"
              /\ \E hit \in BOOLEAN, accepted \in 0..MaxBlocks :
                    VerifyComplete(c.tag, hit, accepted)
           \/ /\ c.kind = "recovery"
              /\ \E finished \in BOOLEAN : RecoveryComplete(c.tag, finished)

Fairness == \A r \in Requests : WF_vars(Answered(r))

FairSpec == Spec /\ Fairness

-----------------------------------------------------------------------------
(* The audit that closes every method, for a state [records, ledger] and   *)
(* the outbox that belongs to it.                                          *)

\* A verifying request and its transaction describe the same branch.
Bound(l, r, record) ==
    LET request == l.req[r]
        branch  == request.active.branches[Outcome]
    IN  /\ record.epoch # NoEpoch /\ request.active # NoTxn
        /\ request.active.epoch = record.epoch
        /\ record.table.epoch = record.epoch
        /\ record.table.base = record.committed
        /\ record.proto.active.round = record.epoch.round
        /\ DOMAIN request.active.branches = {Outcome}
        /\ record.table.reserved = branch.appended
        /\ record.table.pages = Coordinates(branch.pages)

AuditRecord(l, box, r, record) ==
    /\ record.proto.version = record.highWater
    /\ record.committed \in 0 .. record.total
    /\ ValidSnapshot(record.proto, r)
    /\ IF record.cancelled
       THEN /\ record.proto.state = "finished"
            /\ r \notin DOMAIN l.req /\ r \notin DOMAIN box
            /\ record.epoch = NoEpoch /\ record.table = NoEpoch
       ELSE /\ r \in DOMAIN l.req
            /\ l.req[r].blocks = record.committed
            /\ IF record.proto.state = "verifying" THEN Bound(l, r, record)
               ELSE /\ record.epoch = NoEpoch /\ record.table = NoEpoch
                    /\ l.req[r].active = NoTxn
            /\ IF record.proto.state = "recovering"
               THEN /\ r \in DOMAIN box
                    /\ box[r] = [tag |-> record.proto.active,
                                 accepted |-> record.proto.accepted]
               ELSE r \notin DOMAIN box
            /\ record.proto.state = "finished" => Complete(record)
            /\ Complete(record) => record.proto.state \in {"finished", "recovering"}

Audit(recs, l, box) ==
    /\ LedgerAuditOf(l)
    /\ \A r \in DOMAIN recs : AuditRecord(l, box, r, recs[r])
    /\ DOMAIN l.req \subseteq DOMAIN recs
    /\ DOMAIN box \subseteq DOMAIN recs

-----------------------------------------------------------------------------
(* Protocol, ledger, block tables and outbox agree after every method and  *)
(* after every restoration, and what is durable can always be restored:    *)
(* the audit of the coordinator never raises (_audit_unlocked).            *)
CoordinatorAudit ==
    /\ Audit(records, ledger, outbox)
    /\ durable # NoSnapshot =>
          Audit(durable.records, durable.ledger, RebuiltOutbox(durable.records))

(* A reservation that passes the preflight cannot fail half way, with one  *)
(* version space advanced and the other not: the ledger accepts the round  *)
(* of the protocol and has the pages the branch needs.                     *)
PreflightSuffices ==
    \A r \in DOMAIN records, width \in 1..MaxBlocks :
        Preflight(r, width) =>
            LET round == records[r].proto.round + 1
                e     == Epoch(r, round, ledger.req[r].version + 1)
            IN  /\ CanBegin(ledger, r, round)
                /\ CanStage(Begin(ledger, r, round), e, Outcome, width)
                /\ CanStartVerification(records[r].proto, round)

(* A reply to a command of a dead address space changes nothing after the  *)
(* restoration, whatever it says (docs/coordinator.md: "a reply from the   *)
(* lost address space cannot mutate restored state").                      *)
LostRepliesInert ==
    \A c \in sent : c.life < life => ~Expects(c.tag.req, c.kind, c.tag)

(* At-least-once transport, exactly-once effect: the committed blocks of a *)
(* request, crashes included, are those it was registered with and those   *)
(* that replies with distinct tags accepted, each counted once.            *)
BlocksCommittedOnce ==
    /\ \A r \in DOMAIN records :
          records[r].committed =
              MapThenSumSet(LAMBDA x : x.blocks, {x \in effects : x.tag.req = r})
    /\ \A x, y \in effects : x.tag = y.tag => x = y

(* Page coordinates are ABA-safe over the whole life of the system: the    *)
(* block tables of two dispatches never name the same page with the same   *)
(* generation, so a late write through an old table is recognisable.       *)
CoordinatesNeverReused ==
    \A c, d \in sent : c.kind = "verify" /\ d.kind = "verify" /\ c # d
        => c.pages \cap d.pages = {}

(* The composition keeps the promise of its protocol objects: attempts     *)
(* have fresh growing versions, and only the newest is judged, once.       *)
Verdicts ==
    INSTANCE FencedVerdicts WITH
        issued <- {c.tag : c \in {d \in sent : d.kind = "verify"}},
        judged <- verdicts

ImplementsFencedVerdicts == Verdicts!Spec

InFlight(r) ==
    /\ r \in DOMAIN records
    /\ Interrupted(records[r])

(* No request is stranded in a verifier or recovery lane: whatever misses  *)
(* and crashes come between, some command of its current identity is out,  *)
(* an answer to it is acceptable, and the request leaves the lane.         *)
EveryAttemptSettles ==
    \A r \in Requests : InFlight(r) ~> ~InFlight(r)

=============================================================================
