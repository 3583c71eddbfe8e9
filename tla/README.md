# A verification development for FissionSpec

FissionSpec schedules *speculative decoding*: a target model verifies blocks
drafted ahead of time, and a request whose draft misses leaves the batch and
waits for a remote drafter while the others go on ("fission").  The repository
holds an executable CPU reference of the mechanism (`src/src/fissionspec/`), a
Rust core (`src/crates/fissionspec-core/`), a patch series for a serving engine
(`src/integrations/sglang/`), and simulators, baselines and experiments.

This directory models the mechanism in TLA+, checks the models with TLC and
proves what matters most with TLAPS.  Paths below are relative to the root of
the project tree; `protocol.py` stands for `src/src/fissionspec/protocol.py`,
and so on.

## The system: components, state, operations

| component | state | operations | what is hard |
|---|---|---|---|
| Request protocol `protocol.py` | per request: lane, round, version, active tag, accepted prefix | start, retry, verify reply, recovery reply, invalidate (timeout), finish, snapshot, restore, resume after crash | duplicated, late and contradictory replies; retry against late answer; crash between snapshot and reply |
| Page allocator `ledger.py` | generations, live leases with owners, free heap, pool identity | allocate, clone, release, reassign, snapshot, restore | ABA of page handles, stale handles after a restoration |
| Speculative ledger `ledger.py` | per request: committed spans, version, round, open transaction with branches; aborted epochs; version floors | register, begin, stage, commit, abort, retry, drop, snapshot, restore | copy-on-write of a partial tail, several branches at commit, identifiers that are reused, everything at a page boundary |
| Coordinator `coordinator.py` | records (protocol, extent, epoch, block table), ledger, recovery outbox, durable snapshot | register, reserve, on_verify_complete, on_recovery_complete, cancel, next_batch, snapshot_bytes, from_snapshot_bytes | two version spaces moved by one call; a crash at nine fault points; recovery commands lost with the process |
| Engine adapter `engine_adapter.py` | row bindings, callback queue | submit, verify, recovery, cancel; enqueue, duplicate, drop, reorder, deliver | callbacks around cancellation and re-reservation; graph buckets that do not fit |
| Simulator `simulator.py`, `model.py` | event heap, request phases, one target, draft engines | arrival, draft ready, precompute ready, target complete, wake, dispatch of a settled instant | stale draft results, barrier and padding, a policy that waits with nothing to wake it |
| Policies `policies.py` | an admission that was committed to (adaptive horizon) | `dispatch_at` of each policy | deadlines of rows that are still to join, a wait that is renewed |
| Baselines `baselines.py` | the same for comparator schedulers, priority draft queue | schedule and complete target or draft | starvation under priority burst, realignment |
| Remote draft service `fidelity.py` | source, blocked and waiting attempts, formations, workers | arrive, admit, form, start, fail, retry | bounded queue, backpressure, retries, reaching a fixed point with work left |
| Fidelity trace `fidelity.py` | prefill and target schedules, the events of one round | prefill, target batch, draft arrives, lookup, recovery | a draft that comes after the lookup, requests that overtake, an idle target |
| Outcome tree cache `fidelity.py` | LRU entries and page count | insert, lookup, discard | eviction at the byte budget |
| Campaign spend gate `spend_gate.py` | sealed budgets, gate records, audit document | seal, record, read back | order of stages and gates, repeated calls, an old document |
| Rust pages `allocator.rs`, `transaction.rs` | slots with generations, free list, transaction phase | allocate, release, begin, prepare, commit, abort | a generation counter at its end, copies of released handles |
| Rust admission controller `controller.rs` | none of its own | `evaluate` on a lane, a queue and a forecast | a hold that comes to nothing, boundaries of time and of the latency profile |
| Schedule oracle `general_oracle.py`, `run_oracle_campaign.py` | memo table; campaign cases | search, certificate, replay; scenarios evaluated under the policies | optimality, a heuristic that leaves the action space |
| Exact semantics `semantics.py` | session with its prefix and prepared continuations | propose, accept or reject, prepare, resume | residual sampling after several rejections, a continuation for another prefix |
| Stopping rule `experiment_design.py` | blocks collected, verdicts | look at an endpoint, at the family | endpoints that disagree, the last look |
| Evidence bundles `experiments/` | files, manifest, temporary files | write a file, write the manifest, verify | a run killed half way, another mode in the same directory |
| Freeze tools `tools/freeze_gpu_campaign.py`, `tools/freeze_public_replay.py` | seven documents of a handoff; trace and manifest of a replay; temporary files | freeze, verify | inputs edited between two reads, a raw file opened twice, a kill between two replacements, a merge of two bundles |
| SGLang patches | engine-side state table | park, resume, fall back | lives in another repository |
| statistics, calibration, workloads, tables, CLI | none that lasts | pure functions and I/O | numeric only |

The coordinator owns one protocol object per request and one ledger; each of its
methods holds one lock and calls both.  The adapter binds engine rows to the
coordinator's dispatches and hands replies back to it.  The simulators,
baselines and the draft service are separate discrete-event programs that share
only data types.  The Rust core repeats the allocator and the transaction
metadata, with a counter that can run out.  The spend gate, the stopping rule, the
evidence writers, the oracles and the semantics are used by the experiments and
touch no state of the serving path.

What makes each component correct:

* protocol: only the newest command of a request can be answered, once, in every
  life; whatever happened, the object can be checkpointed;
* allocator and ledger: every page is free or held in exactly one place, ended
  leases never come back, closed epochs only if a restoration goes back to before
  their end, committed blocks of one namespace never move or vanish;
* draft service and cache: every job gets one final answer, nothing idles beside
  work or is overtaken, the cache holds what its counters say, and the target of
  the fidelity trace serves everybody once, in the order of arrival;
* coordinator: protocol, ledger, block table and outbox agree; a reservation
  cannot fail half way; a block is committed once whatever the transport and
  the crashes do; no request stays in a lane for ever;
* simulator and baselines: only current rows are launched, a row that is held
  back is woken in time, no side of a queue starves, every trace completes;
* spend gate: time is authorised and spent in stage order only, in any copy of
  the ledger; Rust pages: nothing leaks and no released handle revives;
* controller: what it plans comes true, also when a forecast does not;
* oracles and semantics: the certificate is optimal, and speculation samples
  exactly what the target alone would; stopping rule and bundles: no wrong stop,
  and a directory that verifies is the output of one run;
* freeze tools: what verifies is bound to the commit or the registered trace it
  names, and an undisturbed freeze repairs what a killed one left.

## Modules

| module | models | shape |
|---|---|---|
| `FissionProtocol` | `protocol.py`, one object | operators on a record: `Can...`/`Matches...` is the guard of a method, the operator named after the method its assignments |
| `ProtocolSession` | the objects of all requests, an at-least-once transport, process death | state machine over `FissionProtocol` |
| `FencedVerdicts` | what verification promises: fresh growing attempts, only the newest judged, once | abstract specification |
| `FixedPageAllocator` | allocator of `ledger.py` | operators on a record |
| `SpeculativeLedger` | ledger of `ledger.py` and its `audit()` | operators on a record that holds an allocator |
| `LedgerClients` | a ledger called in any order, with a checkpoint and restorations | state machine over `SpeculativeLedger` |
| `Coordinator` | `coordinator.py`: composes `FissionProtocol` and `SpeculativeLedger` | state machine, refines `FencedVerdicts` |
| `EngineAdapter` | `engine_adapter.py` over `Coordinator`: rows, launches, callbacks, a new adapter after a crash | state machine that conjoins each coordinator action with the adapter's own |
| `RemoteDraftService` | one `run()` of the draft service in `fidelity.py`, with its loops as steps of one thread | state machine |
| `OutcomeTreeCache` | the cache of `fidelity.py` | operators on a record |
| `FidelityTrace` | `simulate_fidelity_trace` over the cache: classes, prefill, target batches, events, recovery | state machine |
| `EventQueue`, `HardwareProfile` | the event heap shared by the simulators; the latency curves of `model.py` | operators |
| `SchedulingPolicies` | `policies.py` | operators on a dispatch context |
| `Simulator` | `simulator.py`: one run of its event loop under a policy, composes the three above | state machine |
| `BaselineSchedulers` | scheduler decisions of `baselines.py` | operators |
| `Baselines` | the step loop of `baselines.py` with target, draft engine and draft queue | state machine |
| `GeneralOracle` | `general_oracle.py`: problems, transitions, search, brute force, replay | operators (recursive) |
| `OracleCampaign` | `run_oracle_campaign.py`: scenarios compiled to problems, every policy evaluated on each | state machine over `GeneralOracle` and `SchedulingPolicies` |
| `TokenSemantics` | `semantics.py`: exact distributions, decoders, session | operators (recursive) and a state machine |
| `SpendGate` | `spend_gate.py` | state machine |
| `PageSlots` | `allocator.rs` and `transaction.rs` | state machine |
| `AdmissionController` | `controller.rs` under a loop that does what it is told | state machine |
| `SequentialGate` | the sequential gate of `experiment_design.py` | state machine |
| `EvidenceBundle` | the writers and verifiers of the three studies, with kills and edits of the sources | state machine |
| `CampaignFreeze` | `freeze_gpu_campaign.py`: freezing and verifying a handoff as scripts of steps, with edits, commits, merges and kills between the steps | state machine |
| `ReplayFreeze` | `freeze_public_replay.py`: inspecting and freezing a raw trace, verifying the frozen one | state machine |
| `IndependentParts` | the seven state machines from `SpendGate` to `ReplayFreeze`, which share no state, side by side | state machine: a behaviour is a behaviour of one part |
| `ReferenceOracles` | the sessions of `TokenSemantics` and the cases of `OracleCampaign` beside those parts | state machine; apart from `IndependentParts` because its operators are recursive |
| `FissionProtocol_proofs`, `SpeculativeLedger_proofs` | - | lemmas about the operators of these modules and, in the second, of `FixedPageAllocator` |
| `ProtocolSession_proofs`, `LedgerClients_proofs`, `Coordinator_proofs`, `EngineAdapter_proofs`, `RemoteDraftService_proofs`, `IndependentParts_proofs` | - | theorems about the modules they name |
| `MCProtocolSession`, `MCLedgerClients`, `MCCoordinator`, `MCEngineAdapter`, `MCRemoteDraftService`, `MCFidelityTrace`, `MCSimulator`, `MCBaselines`, `MCIndependentParts` | - | symmetry and inputs for TLC |

Correspondence.  A method under the object lock is one action, from its first
check to its last assignment; a method that raises changes nothing (the code
checks before it assigns, and `PreflightSuffices` is about the one place where
two components move in turn) and is no step; a stale reply is ignored by the code
and is a stuttering step.  `None` is a model value (`NoTag`, `NoTxn`, `NoEpoch`,
`NoSnapshot`).  Dictionaries are functions whose domain is the set of keys.

Abstractions.  Page contents are not modelled: the code has none.  The free heap
yields its minimum, so it is a set and `NthFree` names the pages in order.  A pool
identity is a number that is never reused.  The JSON envelope, its checksum and
the argument checks of the codecs are left out: a durable snapshot is the triple
of its contents.  `clone` allocates like `allocate`.  Aborts of one restoration
are applied together, since each touches only its own request.  Locks order whole
methods, so threads add no interleaving beyond the order of actions.  Lane
indices and views are derived from records and are not state.  The harness around
the adapter queues replies that a caller makes up at will, so its queue, with
duplicate, drop and reorder, is the same set of commands sent that `Coordinator`
answers from.  A batch is a set of tags and its shape, and the
backend's list of batches is a bag, since nothing depends on its order.

In `RemoteDraftService` a batch is a set, since only membership matters; times
are numbers of some unit; what the cost surface and the counter-based generator
decide is chosen freely, the response time, backoff and request time of a retry
together.  Work inside a pass has no rival, so steps are loop turns only to keep
choices apart.  In `FidelityTrace` requests are numbers, since ties are broken by
identifier, and costs are linear; a class is its outcomes in the order of
popularity; a draw is chosen freely where it is first used, which is the same since
draws are addressed and nothing reads them before.  The response to a draft comes at
any time after the prefill of its request, which is when it was submitted.

`Simulator` and `Baselines` are single-threaded programs: `run()` settles every
event of an instant before it dispatches, and ties on the heap are broken by
insertion, which `EventQueue` keeps.  What varies is the workload, the policy or
scheduler, the cost profile and the outcome of every verification.  Times are
integers, curves are linear or piecewise linear over a few points, and the
metric records are left out.  A failed assertion of the code sets `error` and
ends the run, so that a property can say none fires.  The oracle policy of the
simulator is a policy that may take either branch of each of its decisions.

`IndependentParts` composes nothing: it puts parts that never meet into one state
space to check them in one run.  The variable `part` says which one runs, the
others stay idle, and each property speaks of its own part.  `ReferenceOracles`
adds the two parts whose operators are recursive, which no proof may reach, and
its `AllSpec` is what TLC runs; `Spec` of `IndependentParts`, the same without
them, is what the theorems are about.  The assumptions about constants are operators of the parts' modules and one ASSUME states them
all, because an instance does not evaluate those of the module it instantiates.
Probabilities in `TokenSemantics` are pairs of integers, never floats; in
`SequentialGate` the confidence sequence is any interval that covers the effect
(that it covers is what its level means); in `EvidenceBundle` the contents of a
file are who wrote it, in which mode and from which sources; in `SpendGate` the
hash of a document is the document.  In `CampaignFreeze` and `ReplayFreeze` an input
is a version, a hash is the content it is of, and the checks of JSON schemas and of
the payload hashes inside evidence files are left out; a timestamp keeps whether its
text has a fraction, because the tool compares texts.  The controller's arithmetic is checked
(`checked_add`) in the code and plain in the model: all its times lie between
values it was given.  The Rust generation counter has a last value
(`MaxGeneration`), and the slot that reaches it is retired, as at `u32::MAX`.

`ProtocolSession` and `Coordinator` keep every command ever sent in a set that
never shrinks.  A reply is any answer to any command of the set at any time:
losing it is never taking the step, duplicating it is taking it twice, reordering
and contradiction come for free.  `life` numbers address spaces; it is history and
no guard reads it.  The variables `verdicts`, `effects`, `closed`, `undone`, `retired`
and `refused` are history as well: `effects` belongs to the lineage of the durable
state and is rolled back with it, the others are not.

A restoration of the ledger (`RestoreSnapshot`) rolls back everything the ledger knows,
and nothing that its clients know.  `closed` therefore keeps every epoch that ever
ended, what was open in the discarded ledger included, and `undone` records those
whose end the checkpoint did not know.  Such an epoch can be open again: because it
was open in the checkpoint, or because `begin` hands out its coordinates a second
time; `_require_active_unlocked` (`ledger.py:1306`) then accepts it from whoever kept
it.  `ClosedEpochsStayClosed` says that no other epoch comes back: none that ended
since the last restoration, and none that had ended in the checkpoint, also when its
identifier had been dropped by then.  The ledger promises no more; what protects a
composition is the fence of the protocol (`LostRepliesInert`).

The adapter tells the backend of a miss after it has applied the verdict and dropped
the row (`engine_adapter.py:440`).  A backend may raise then (`HandOver`): the caller
sees the exception, the command stays in the outbox, and `refused` records it.  A
backend that raises is taken to have taken nothing, so a batch it raises at is no step.

`PublishBeforeEmit` is the contract between the coordinator and its caller that
the code does not enforce: with TRUE a command leaves only once a snapshot that
names it is durable.  With FALSE snapshots are taken at any time.  The fencing
properties need TRUE; the finding below shows what happens otherwise.

## Runs

| run | instance | shows |
|---|---|---|
| `protocol_session` | 2 requests, rounds 0..1, 2 version bumps, 2 crashes, accepted prefix 0..1 | the type invariant, checkpoints are never rejected, versions are never handed out twice, replies of dead lives match nothing, a verdict is spent, only the newest command matches, refinement of `FencedVerdicts` |
| `ledger_clients` | 1 request identifier, 2 outcomes, 3 pages of 2 blocks, extents to 3, 2 versions per request, 2 leases per page, 1 restoration | the whole audit of the ledger in the live ledger and the checkpoint; which closed epochs a restoration may bring back, ended leases; committed prefix |
| `coordinator` | 2 requests of 2 blocks, 2 pages of 2 blocks, 2 versions, 1 crash | the whole audit of the coordinator, the preflight, fencing, exactly-once commits, page coordinates, refinement |
| `coordinator_live` | 1 request of 3 blocks, 3 pages of 2 blocks, 3 versions, 2 crashes, reloads | every attempt in flight is settled, also with a copy-on-write tail and exact reloads |
| `engine_adapter` | 2 requests of 2 blocks, 2 pages, shapes 1x1 and 2x3, 2 versions | `AdapterAudit`: bindings, shapes, each row launched once; `BackendAgrees`: verdicts only after launches, recovery commands handed over, also with a backend that raises |
| `engine_adapter_restart` | 1 request of 3 blocks, 3 pages, 3 versions, 2 crashes | bindings and launches across restarts; every reserved row settles, also when the backend raises |
| `remote_draft` | 3 jobs, 2 workers free at once or later, batches of 2, queue of 1, 1 retry, window 1, durations 0 and 2 | `ServiceAudit`: no job lost, doubled or overtaken, workers serial, retries only after failures, no assertion of the code fails; time passes only when nothing can be done; every run ends |
| `fidelity_trace` | 3 traces of 3 requests, 3 cost models, 3 classes, batches of 2, 2 outcomes planned, 4 pages, branches of 1, 2 and 6 pages | `RoundAudit`: the accounting of the cache, finished requests leave nothing, the target is never idle beside work and nobody is overtaken, every request ends or has an answer; the popular branches stay |
| `simulator` | 3 workloads of 3 requests, batches of 2, 2 cost profiles, 6 policies, any verification outcome | `RowsCurrent`: no stale or held block is launched and no assertion fires; `HoldsKept`: a row that is held back is woken and meets its deadline; every run ends |
| `baselines` | 2 traces of 3 requests with 2 or 3 background jobs, 5 schedulers | every wait has one job, neither kind of draft job starves, an idle target wakes, every trace completes |
| `independent_parts` | see below | one property per part: `SpendAuthorized`, `PagesSound`, `DecisionsKept`, `VerdictsTrue`, `BundlesWhole`, `HandoffBound`, and `OraclesExact` for both oracles |
| `coordinator_lost_reply` | 1 request, no publication before emission | the finding: TLC must violate `LostRepliesInert` |

Why the bounds are enough.  Fencing compares two commands of one request, from
one or two lives: two versions give the older and the newer, two crashes give a
second restoration of the same snapshot.  Rounds 0..1 include a skipped round.
Pages of two blocks give empty, partial and full tails, three pages allow two
branches beside a trunk and still an exhausted pool; an extent of three is a full
page and a partial one.  The ledger has one identifier because its methods touch
one request each and share only pages, which the two branches compete for, and
because the identifier is dropped and registered again; two requests that compete
for pages are in `coordinator`, where two pages are fewer than both need.  Two
leases per page suffice for a stale handle to meet the next lease.  Symmetry is
over requests and, in `ledger_clients`, outcomes; no property names one, and no
liveness run uses it.  `ledger_clients` and `engine_adapter` compare states under a
view.  The first leaves out the checkpoint after the last restoration, which nothing
reads any more and which was audited when it was taken; the second leaves out recovery
commands that left the outbox, which can only come back by being handed over again.
Three jobs, a batch of two and a queue of one make a job that is being batched, one
that waits and one that is blocked, and a retry meets them all; one job at most
differs in arrival, kind or priority, so that each can be the odd one.  Durations
of zero are legal and make several passes at one time.  Four pages hold two trees
of small branches or one of larger ones, and no branch of six pages; the traces come
together, out of their order and apart, with prefill free, slower and faster than
the target.  Deadlock checking is off because bounds end every run, and
because the real system may rest when all requests are finished.  `simulator`,
`baselines` and `fidelity_trace` keep it on: a loop that stops early is the hazard
there, so a finished run stutters by an action of its own (`Terminated`, `Returned`).

Three requests in the simulator make a full batch of two beside a row that waits;
two arrive together or one after the other and one comes while the target is
busy; deadlines are loose, tight and impossible; one workload has a row the target
always accepts, which lets the others fall behind the barrier.  The baselines have
bursts of one and two against two background jobs released together, so that the
limit is met and exceeded if it can be.

`independent_parts`: four stages with budgets of one or two, so that two gates
follow one that can fail; three slots whose counter ends after two uses, with handles
of another pool; two lanes of the controller with a batch that arrives on time,
late, or is cancelled, deadlines on both sides of every boundary of the profile,
and a batch too large; three endpoints, three looks and effects on both sides of the
threshold; three studies, two modes, two edits of the sources and a kill at every
step; a target of three tokens and drafts that agree now and then or never, so that
a block is rejected at every position, in up to three rounds; a handoff with two
versions of every input, two commits and two edits or merges; raw traces with
windows of two and three rows, rows on and just after the start second, one trace
out of order and one with a malformed row; the campaign's own scenarios, and three more
in which packing and a window cut short by the guard decide.

Fairness.  `coordinator_live` uses weak fairness of `Answered(r)`: some
acceptable answer to a command of r is delivered.  This is the at-least-once
transport of `docs/coordinator.md`.  Once enabled it stays enabled until the
request leaves the lane, is cancelled or is fenced, since commands are never
forgotten.  The scheduler is not obliged to reserve, nor the caller to
cancel or publish.  If a verify reply may be lost for good the property fails: the
coordinator has no timeout, and only `cancel` or a restart helps.

`engine_adapter_restart` adds weak fairness of launching a reserved row, which is
what `drive_to_terminal` does with each row it reserves.  It is enabled because
`reserve` refuses what no shape fits alone; without that check the row is stranded.
A command at which the backend raised is answered too: the driver reads it from the
outbox (`latest_recovery`).
`remote_draft` assumes that its one thread goes on.

`simulator` and `baselines` assume that `run()` goes on while it can.  Fairness is
weak fairness of `Next` with its ENABLED written out:
`[]<>~Running \/ []<><<Next>>_vars`, since evaluating ENABLED of a step that does a
whole settlement is slow.  That `Next` can be taken while `Running` is what the
deadlock check of the same runs shows, since `Terminated` needs `~Running`.

The shapes are chosen so that a row of one slot fits both, a row of two slots
only the larger one (with a masked slot for the padded row), and two rows of two
slots none; these are reached in `engine_adapter`, while the liveness run has one
request.

## A disagreement with the documentation

`docs/coordinator.md:34-38` says that work in flight *at the snapshot* is fenced
and "Thus a reply from the lost address space cannot mutate restored state".  The
conclusion does not follow when the request was ready in the snapshot and was
dispatched after it: `from_snapshot_bytes` (`coordinator.py:655`) restores it
unchanged, the next `reserve` hands out the same round and version again, and
`on_verify_complete` takes the reply to the lost dispatch for an answer to the new
one.  `coordinator_lost_reply` is that run: register, publish, reserve, crash,
reserve.  The tests restore only snapshots taken after the dispatch.  With
publication before emission the claim holds for any number of crashes:
`LostRepliesFenced` is a theorem.  The page coordinates in block tables share the
cause: the restored allocator leases the same page under the same generation,
and `PhysicalPageRef` names no pool, so under FALSE `CoordinatesNeverReused` does
not hold either.

## Smaller observations

None of these contradicts a line of the documentation strongly enough to be a
finding; they are what a reader of the code should know.

* `FixedCoalescePolicy` (`policies.py:228`) reckons its slack with the rows that are
  ready and none that may still join; the adaptive policy reckons with both.
* `seal_next_budget` refuses any stage but the next, but the constructor of the spend
  gate, and so `from_document`, accepts budgets sealed for later stages.  A ledger
  read back from an old document can record a gate a second time: the document is
  sealed against edits, not against age.
* `docs/sequential_inference.md` speaks of a decision at the looks; the family also
  stops as inconclusive once every endpoint is terminal, before the last look.
* The two studies that write in place hash the sources after they ran, so an edit
  during the run is recorded as the source of its results; `BundlesWhole` excepts
  exactly that case.
* A freeze or verification reports on the moment at which it ends; the model forgets
  the report once an edit, a commit or a merge follows (`Disturb`, `Commit`).
* `verify_bundle` of the campaign handoff checks the commit after it has read the
  files, so an edit made before the reads and reverted before that check is accepted;
  `BoundToCommit` excepts changes during the verification.
* A freeze killed the first time it writes, or between a temporary file and its
  rename, leaves a directory that later freezes and verifications refuse until it is
  emptied.
* With a prefill that takes time no two requests are prefilled at once, so priority
  never decides in `_schedule_target` (`fidelity.py:1136`); it does only under the
  reference profile, whose prefill is free.
* `select_rows` compares timestamps as texts, so a timestamp without a fraction that
  lies exactly on the target is passed over; and `verify_frozen_replay` does not derive
  the offset from the recorded hash again, so a window selected from a file that was
  replaced after its inspection verifies.
* A request that finished keeps its trunk pages until it is cancelled
  (`coordinator.py:389`), and a verify reply lost for good leaves it verifying
  (`coordinator.py:425`); both are duties of the caller.
* An epoch of the ledger names no life: after `restore` an epoch that ended since the
  checkpoint may be open again, or be handed out again, and calls that carry it from
  before are accepted.  Pages are safe from this, since handles name their pool.  The
  tests restore snapshots taken after the epochs they replay (`test_ledger.py:515`).
* When a backend raises at a recovery command, `verify` raises although the verdict was
  applied; the same reply delivered again is a duplicate, and only the outbox still
  has the command.

## Proofs

Every theorem holds for every value of the constants that satisfies the named
assumptions of the modules: any sets of requests, any pool and page size, any
bounds, any number of crashes.  Those marked *durable first* also assume
`PublishBeforeEmit`, the contract without which they are false (see the
disagreement above).  None is about liveness.

| module | theorem | states | |
|---|---|---|---|
| `ProtocolSession_proofs` | `TypeCorrect` | `[]TypeOK` | |
| | `CheckpointsAccepted` | `[]CheckpointNeverRejected` | |
| | `FencingInvariant` | `[]IInv` | durable first |
| | `UniqueCommands` | `[]CommandsNeverReissued` | durable first |
| | `LostReplies` | `[]LostRepliesFenced` | durable first |
| | `SpentVerdicts` | `[]VerdictOnce` | durable first |
| | `NewestCommand` | `[]OnlyNewestCommandMatches` | durable first |
| | `Refinement` | `Spec => ImplementsFencedVerdicts` | durable first |
| `LedgerClients_proofs` | `AuditNeverRaises` | `[]LedgerAudit` | |
| | `PrefixStable` | `CommittedPrefixStable` (an action property) | |
| | `ClosedEpochs` | `[]ClosedEpochsStayClosed` | |
| | `StaleHandles` | `[]StaleHandlesInert` | |
| `Coordinator_proofs` | `AuditNeverRaises` | `[]CoordinatorAudit` | |
| | `ReservationsNeverFail` | `[]PreflightSuffices` | |
| | `EffectsAddUp` | `[]BlocksCommittedOnce` | |
| | `LostRepliesChangeNothing` | `[]LostRepliesInert` | durable first |
| | `CoordinatesUnique` | `[]CoordinatesNeverReused` | durable first |
| | `CoordinatorRefines` | `Spec => ImplementsFencedVerdicts` | durable first |
| `EngineAdapter_proofs` | `AdapterImplementsCoordinator` | `AdapterSpec => Spec` | |
| | `RowsAndLaunches` | `[]AdapterAudit` | durable first |
| | `BackendNeverBehind` | `[]BackendAgrees` | durable first |
| `RemoteDraftService_proofs` | `ServiceInvariant` | `[]IInv` | |
| | `ServiceAudited` | `[]ServiceAudit` | |
| | `ServiceWorkConserving` | `WorkConserving` (an action property) | |
| `IndependentParts_proofs` | `LedgerAuthorized` | `[]SpendAuthorized` | |
| | `SlotsSound` | `[]PagesSound` | |
| | `StopsTrue` | `[]VerdictsTrue` | |
| | `EvidenceWhole` | `[]BundlesWhole` | |
| | `HandoffIsBound` | `[]HandoffBound` | |

The assumptions on constants say that sizes are positive, that bounds and initial
extents are naturals, and that the values standing for `None` (`NoTag`, `NoTxn`,
`NoEpoch`) are none of the values they stand in for.  The parts assume what their
code validates or gets from its types: the looks of a sequential gate fit its
minimum and maximum and its replays fit the cap (`GateDeclaration`), the files of a
bundle have different names (`BundleConstants`), rows of a raw trace have the types
that parsing gives them and a digest stands for one file (`ReplayConstants`), the
inputs have a first version (`FreezeConstants`).  TLC evaluates all of them in the
runs.

Protocol objects (`ProtocolSession_proofs`).  Types and snapshot validity are inductive together (`Local`): an
object in flight has the tag of its own round and version.  The fencing
properties are not inductive.  What carries them is that durable state covers
every command that left (`DurableCoversCommands`): a restoration therefore starts
at or above every version ever sent, and fencing goes one above.  With it, an object
in flight is strictly newer than commands of older lives (`OlderLivesAreOlder`), a
version that awaits a verdict has produced no recovery command
(`RecoveryFollowsVerdict`), and every verdict answers a command and leaves its object
out of the verifying lane at that version (`VerdictsSpent`).  `IInv` is the
conjunction; each action has a lemma, and the properties follow from `IInv`
by comparing versions.

The audit of the ledger (`SpeculativeLedger_proofs`, `LedgerClients_proofs`).  What
must be kept is *custody*: every page is free or in exactly one holding, a pair of an
owner and a sequence of handles, and its lease names that owner.  `Custody` relates
an allocator to a set of holdings, so that each method is one step on both: pages are
leased to a new holding (`CustodyAllocate`), holdings are released
(`CustodyRelease`), a branch takes the place of the tail of a trunk at commit
(`CustodySettle`), a restoration renames the pool (`CustodyRebase`).  `Audited` adds
that spans cover the blocks they stand for, which is arithmetic of pages and of the
partial tail (`SpansCover`, `AcceptedCovers`, `ConcatCovers`), and that epochs agree
with their requests.  Each method has a lemma that says it keeps `Audited` and more:
a committed full page stays where it is and epochs are fresh (`Steps`).  The audit
of the code follows from `Audited` (`AuditedPasses`), and the prefix property from
`Steps`.  A method that passed its capacity test finds as many free pages: the i-th
free page exists, by counting the free pages below each page (`KthExists`).

Closed epochs and stale handles.  `LInv` adds the histories: every closed epoch whose
end no restoration took back is at or below the version floor of its identifier, which outlives the request, and
an epoch opens one above it; a handle whose lease ended is at or below the generation
of its page, and below it while the page is leased (`Past`), since leasing goes one
above, and a restoration opens a namespace no handle was ever made in.  The checkpoint
satisfies the same of the epochs whose end it knows, which are those that a
restoration does not take back.

The coordinator (`Coordinator_proofs`).  Records and ledger are one whole (`Whole`):
the ledger is `Audited`, every protocol object is sound, and each record and its
request in the ledger describe the same state (`Linked`): committed extent, round,
open epoch, and a block table that covers the spans of the only branch.  A method
changes one record and one request and leaves the rest (`MethodOn`, `WholeChanged`),
so that there is one lemma per method and `Whole` is kept however requests compete
for pages.  `CInv` says that the live state and the published one are each whole and
that the outbox is what a restoration would rebuild.  Restoring and fencing a whole
snapshot gives a whole state again (`RebornWhole`), which is why no assumption on
publication is needed.  `CoordinatorAudit` follows, and `PreflightSuffices`: the pages
the preflight counts are those that staging takes.

Effects.  `BlocksCommittedOnce` is a sum over a set, a fold in the community module;
that such a fold exists on a finite set and takes one element at a time is shown by
induction on its size (`FoldExists`, `BlocksAdded`).  The sum is exact because an
effect is dated by the version of its tag, versions never fall, and a request that
verifies is at a version without an effect (`EffectsOf`).

Fencing of the composition (`FInv`).  Durable records and generations cover every
command that left (`Remembers`).  Then a request in flight is newer than commands
of older lives (`LivesApart`), versions name attempts (`AttemptsApart`), a version
that was judged is judged no more (`VerdictsSpent`), and a page leased after a crash
has a generation that no block table showed.  The refinement maps the versions and
the attempts of `FencedVerdicts` to records, commands and verdicts; every method but
`reserve` and an applied verdict stutters.

The adapter (`EngineAdapter_proofs`).  Each of its steps is a step of the coordinator
or leaves it alone (`AdapterSteps`), so `CInv` and `FInv` hold of it.  Its rows change
with the one record a method changes (`Covered`).  A row is reserved under a tag that
no command carried, which is why it was not launched in this life or an older one
(`BatchesAre`); a fence opens a version above every verdict, which is why no command it
rebuilds answers to a verdict; any other was handed to the backend, which took it or
raised (`Told`).

The draft service (`RemoteDraftService_proofs`).  `ServiceAudit` is not inductive.
That a record follows the failure it repeats needs the same of every attempt on its
way (`Chained`); that admission is in the order of arrival needs that what is still
in the network came last (`Ordered`); and that the scheduler reaches no fixed point
with work left needs to know, while a pass has started no batch, that no attempt left
the queue and which formations were looked at (`Quiet`).  Steps are proved through
what they do to attempts: arrive, be admitted, be taken into a batch, be served, and
each move keeps `Flow`: one place for every job, every attempt due, admission in
order.  Selections sort by several keys, so the orders of the queues are shown to be
total and to have a least element on every finite set first.  `ServiceWorkConserving`
is about the step that moves the clock: it follows from the fixed point that `Quiet`
describes.

The parts (`IndependentParts_proofs`).  Only the variables of one part change, so an
invariant of a part is one of the composition (`PartStays`, `StepOfPart`).

* Spending.  A sealed budget follows records that all passed, because only an open
  ledger seals (`OpenMeansPassed`), and the document holds what the ledger held once,
  so that reading it back brings nothing new.
* Pages.  The free list is a *line*: some sequence holds every free slot once, the
  head is its first and each slot links to the next.  An allocation takes the first
  off and a release puts one in front.  Following the links finds the line, by
  induction on the position, and nothing after it, because a sequence without
  repetitions is no longer than there are slots.  A handle is dead once its slot moved
  on or was retired, and stays so because a retired slot is not on the line.
* Stopping.  The maximum is a registered look and the look there is always terminal,
  so a campaign that goes on is below it; a status puts the interval, and with it the
  effect, on one side of what is worthwhile.
* Bundles.  A run has written every file it no longer has to write (`RunAhead`, part of
  `BundleInv`), so its manifest records one content for all of them, and a directory
  verifies when it still holds that.
* Replay.  A derivative is what some selection took, and its row numbers tell whether
  the rows follow each other in the file.  In an inspected file they do: the texts are
  in order, so every row after the first that reaches the target reaches it
  (`HitsAreLast`), and the n-th of an interval is found by counting (`NthOfInterval`).
* Handoff.  A freeze is one script of 55 steps whose last 26 are the verification, so
  one position says where either is; `FreezeScriptIs` writes the script out and
  `CommandIs` gives each action its positions.  While nothing changes behind its back
  (`Quiet`), the task knows more with each position (`Knows`): which inputs and
  documents are as it read them, which documents are what the inputs give, which
  inputs are the commit's, and, for an undisturbed freeze, what it has written and
  staged.  The documents determine each other, so at the last position the directory
  is the bundle of the commit (`BundleIs`); and each refusal of an undisturbed freeze
  contradicts what it knows or is one that `FreezeRepairs` excuses.

Only model-checked.  The cache and the trace (`RoundAudit`, `PopularBranchesLast`), the
simulators (`RowsCurrent`, `HoldsKept`, `DraftsMatchWaits`, `NothingStarves`) and the
controller (`DecisionsKept`): they select and sort sequences and sum along them with
operators that are parameters of the library's folds, and what those compute for
every sequence is an induction over data, which is out of the prover's reach; the
controller also interpolates, which is not linear arithmetic.  The oracles and the
semantics (`OraclesExact`) are recursive.  Liveness (`EveryAttemptSettles`,
`EveryRowSettles`, `Termination`, `EveryRequestCompletes`, `TraceCompletes`) rests on
fairness and ENABLED, about which TLAPS does not reason.

## Not modelled

See `components` in `PROJECT.json` for the reasons.

* Sampling, calibration, metrics and confidence sequences: numeric functions over
  reals, without state and without order.
* The tables and renderings of the studies, the runs of transformers on real
  weights, audits of recorded output and the command line: I/O and
  formatting over numbers.
* The SGLang integration: a patch series against another repository.
* `analysis.rs`, which counts cells of a phase diagram.
* Fork guards of pool identities, argument validation and codecs of the modelled
  components.

## Plan

1. done: protocol, ledger, coordinator, and the proofs about the protocol.
2. done: `EngineAdapter` over `Coordinator`.
3. done: `RemoteDraftService`, `OutcomeTreeCache` and `FidelityTrace`.
4. done: `Simulator` with its policies, `Baselines` with the priority burst.
5. done: `SpendGate`, `PageSlots`, `AdmissionController`, `SequentialGate`,
   `EvidenceBundle`, `CampaignFreeze`, `ReplayFreeze`, and the oracles
   `OracleCampaign` and `TokenSemantics`.
6. done: proofs of every safety property of `ProtocolSession`, `LedgerClients`,
   `Coordinator` and `EngineAdapter`, and the refinements.
7. done: proofs of the audit and the work conservation of `RemoteDraftService`, and of
   `SpendAuthorized`, `PagesSound`, `VerdictsTrue`, `BundlesWhole` and `HandoffBound`.
8. open: proofs about the accounting of the cache and the rows of `Simulator`, for
   which sorting and selection would have to be stated without operator parameters;
   the state table of the SGLang patches.
