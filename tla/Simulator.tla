------------------------------ MODULE Simulator ------------------------------
(***************************************************************************)
(* The discrete-event simulator of fissionspec/simulator.py.  `sim` is the *)
(* Simulator object: the clock, the requests, the event heap as a sequence *)
(* in (time, insertion) order, the wake times, the target flag, the time   *)
(* the draft engine is free and the padding table.  The handlers are       *)
(* operators on it, as they call each other.                               *)
(*                                                                         *)
(* The verifier's draws depend only on the request and its round, and each *)
(* is used once, so they are chosen when the launch completes.             *)
(* `log` is history: for each request the version its next block was       *)
(* drafted for, the padded steps since its last launch and the batch it    *)
(* was verified in; and the wait the policy chose last.                    *)
(***************************************************************************)
EXTENDS SchedulingPolicies, EventQueue

CONSTANTS
    Requests,     \* request ids, numbers in the order of the ids
    MaxBatch,     \* max_batch_size
    Workloads,    \* functions from Requests to [arrival, output, width, slo, deadline, certain]
    Profiles,
    Policies

VARIABLES setup, sim, log

vars == <<setup, sim, log>>

ASSUME SimulatorAssumption ==
    /\ Requests \subseteq Nat \ {0} /\ MaxBatch \in Nat \ {0}
    /\ \A w \in Workloads, r \in Requests : w[r].output > 0 /\ w[r].width > 0 /\ w[r].slo > 0
    /\ \A p \in Profiles : ValidCurve(p.target) /\ ValidCurve(p.draft) /\ ValidCurve(p.recovery)

Config(r) == setup.workload[r]
Profile == setup.profile
Policy == [setup.policy EXCEPT !.committed = sim.committed]

NewRequest == [phase |-> "not_arrived", generated |-> 0, round |-> 0, epoch |-> 0,
               since |-> NoTime, last |-> NoTime, eligible |-> FALSE, precompute |-> NoTime]

Remaining(s, r) == Config(r).output - s.req[r].generated
Width(s, r) == Min({Config(r).width, Remaining(s, r)})

\* A token advances the version by one, so the version is the number of tokens.
Version(s, r) == s.req[r].generated

NextDeadline(s, r) ==
    IF s.req[r].last = NoTime THEN Config(r).deadline
    ELSE Min({Config(r).deadline, s.req[r].last + Config(r).slo})

Emit(s, r, count) ==
    LET emitted == Min({count, Remaining(s, r)})
    IN  [s EXCEPT !.req[r].generated = @ + emitted, !.req[r].last = s.now,
                  !.req[r].phase = IF emitted = Remaining(s, r) THEN "complete" ELSE @]

Raise(s, what) == [s EXCEPT !.error = what]

Push(s, at, kind, load) ==
    IF at < s.now THEN Raise(s, "event in the past")
    ELSE [s EXCEPT !.events = Schedule(@, at, kind, load)]

Complete(s, r) == s.req[r].phase = "complete"
Live(s, rs) == SelectSeq(rs, LAMBDA r : ~Complete(s, r))

Pair(r, x) == [id |-> r, tag |-> x]

----------------------------------------------------------------------------
(* The draft engine: one first-in first-out timeline.                      *)

DraftStart(s) == Max({s.now, s.draftFree})

\* Without `barrier` only live requests are work; held requests wait for the
\* same completion.
ScheduleDraft(s, rs, recovery, barrier, eligible, held) ==
    LET work == IF barrier THEN rs ELSE Live(s, rs)
        rows == Live(s, rs) \o Live(s, held)
        end  == DraftStart(s) + DraftLatency(Profile, Len(work), recovery)
        pads == recovery /\ PadsRecoveringMisses(setup.policy) /\ ~barrier
        load == [rows |-> [i \in DOMAIN rows |->
                             [id |-> rows[i], epoch |-> s.req[rows[i]].epoch + 1,
                              version |-> Version(s, rows[i])]],
                 recovery |-> recovery]
        Waiting(r) == [s.req[r] EXCEPT !.phase = "wait_draft", !.since = NoTime,
                                       !.precompute = NoTime, !.epoch = @ + 1,
                                       !.eligible = IF pads THEN eligible ELSE @]
    IN  IF work = <<>> THEN s
        ELSE Push([s EXCEPT !.req = [r \in Requests |-> IF r \in ToSet(rows) THEN Waiting(r) ELSE @[r]],
                            !.padding = IF pads
                                        THEN [r \in Requests |->
                                                IF r \in ToSet(rows)
                                                THEN [until |-> end, epoch |-> s.req[r].epoch + 1]
                                                ELSE @[r]]
                                        ELSE @,
                            !.draftFree = end],
                  end, "draft_ready", load)

NoPadding == [until |-> NoTime, epoch |-> 0]

\* The outcome cache of a batch is built while the target verifies it.
SchedulePrecompute(s, pairs) ==
    LET end == DraftStart(s) + DraftLatency(Profile, Len(pairs), FALSE)
    IN  IF pairs = <<>> THEN [s |-> s, end |-> NoTime]
        ELSE [s |-> Push([s EXCEPT !.draftFree = end], end, "precompute_ready", pairs), end |-> end]

BecomeReady(s, r) ==
    [s EXCEPT !.req[r].phase = "wait_target", !.req[r].since = s.now]

\* A hit whose branch is built is ready, another waits for the precompute.
ReleaseHit(s, pair, end) ==
    LET r == pair.id
    IN  IF Complete(s, r) THEN s
        ELSE IF end = NoTime THEN Raise(s, "hit without precompute")
        ELSE IF end <= s.now THEN [BecomeReady(s, r) EXCEPT !.req[r].precompute = NoTime]
        ELSE [s EXCEPT !.req[r].phase = "wait_draft", !.req[r].since = NoTime,
                       !.req[r].precompute = pair.tag]

\* A draft of an older version is taken for current (RowsCurrent).
WrongDraftReadyRow(s, row, recovery) ==
    IF s.req[row.id].phase # "wait_draft" THEN s
    ELSE [BecomeReady(s, row.id) EXCEPT !.req[row.id].eligible = FALSE]

\* One row of _handle_draft_ready: stale epochs are dropped, a block of an old
\* version is drafted again without padding.
DraftReadyRow(s, row, recovery) ==
    LET r       == row.id
        cleared == IF s.padding[r].epoch = row.epoch THEN [s EXCEPT !.padding[r] = NoPadding] ELSE s
    IN  IF row.epoch # s.req[r].epoch THEN s
        ELSE IF Complete(s, r) THEN cleared
        ELSE IF s.req[r].phase # "wait_draft" THEN Raise(cleared, "draft completion out of phase")
        ELSE IF Version(s, r) # row.version
             THEN ScheduleDraft(cleared, <<r>>, recovery, FALSE, FALSE, <<>>)
        ELSE [BecomeReady(cleared, r) EXCEPT !.req[r].eligible = FALSE]

PrecomputeReadyRow(s, pair) ==
    LET r == pair.id
    IN  IF s.req[r].phase = "wait_draft" /\ s.req[r].precompute = pair.tag
        THEN [BecomeReady(s, r) EXCEPT !.req[r].precompute = NoTime]
        ELSE s

----------------------------------------------------------------------------
(* The target engine.                                                      *)

\* What the verifier draws for a row: the drafts it accepts and whether the
\* next continuation was in the cache.
Draws(payload) ==
    {d \in [ToSet(payload.rows) -> [accepted : 0..(Max({0} \cup {p.tag : p \in ToSet(payload.widths)}) - 1),
                                    hit : BOOLEAN]] :
        \A i \in DOMAIN payload.rows :
            LET r == payload.rows[i]
                w == payload.widths[i].tag
            IN  /\ d[r].accepted < w
                /\ Config(r).certain => d[r].accepted = w - 1}

PadStep(s, r) == IF Complete(s, r) THEN s ELSE Emit(s, r, 1)

\* A real row: its tokens, its round, and what is left of it.
VerifyRow(s, r, payload, draw) ==
    LET round == CHOOSE p \in ToSet(payload.rounds) : p.id = r
        after == Emit(s, r, draw.accepted + 1)
    IN  IF s.req[r].phase # "in_target" THEN Raise(s, "target completion out of phase")
        ELSE IF round.tag # s.req[r].round THEN Raise(s, "target round changed")
        ELSE [after EXCEPT !.req[r].round = @ + 1]

\* After the rows: the barrier holds every survivor of a batch with a miss;
\* elsewhere hits are released, padded rows whose recovery is spent are drafted
\* again and misses recover.
SettleBatch(s, payload, redraft, hits, misses) ==
    LET released  == FoldLeft(LAMBDA t, r : ReleaseHit(t, Pair(r, t.req[r].round - 1), payload.end), s, hits)
        redrafted == ScheduleDraft(released, redraft, FALSE, FALSE, TRUE, <<>>)
    IN  IF BarrierOnMiss(setup.policy) /\ misses # <<>>
        THEN ScheduleDraft(s, misses, TRUE, TRUE, TRUE, hits)
        ELSE ScheduleDraft(redrafted, misses, TRUE, FALSE, TRUE, <<>>)

CompleteTarget(s, payload, draws) ==
    LET spent    == SelectSeq(payload.padded, LAMBDA r : s.req[r].phase = "wait_target")
        padded   == FoldLeft(PadStep, [s EXCEPT !.busy = FALSE], payload.padded)
        verified == FoldLeft(LAMBDA t, r : VerifyRow(t, r, payload, draws[r]), padded, payload.rows)
        forgot   == [verified EXCEPT !.padding =
                        [r \in Requests |-> IF r \in ToSet(payload.padded) /\ Complete(verified, r)
                                            THEN NoPadding ELSE @[r]]]
        redraft  == Live(verified, spent)
        rows     == Live(verified, payload.rows)
    IN  IF ~s.busy THEN Raise(s, "completion without a launch")
        ELSE SettleBatch(forgot, payload, redraft,
                         SelectSeq(rows, LAMBDA r : draws[r].hit),
                         SelectSeq(rows, LAMBDA r : ~draws[r].hit))

\* Rolling EDF: earliest next deadline, then longest ready, arrival and id.
ReadyStates(s) ==
    LET key(r) == <<NextDeadline(s, r), s.req[r].since, Config(r).arrival, r>>
    IN  SetToSortSeq({r \in Requests : s.req[r].phase = "wait_target" /\ s.req[r].since <= s.now},
                     LAMBDA a, b : KeyBefore(key(a), key(b)))

PaddingIds(s) ==
    Take(SetToSortSeq({r \in Requests : /\ PadsRecoveringMisses(setup.policy)
                                        /\ s.req[r].phase = "wait_draft"
                                        /\ s.padding[r].until > s.now
                                        /\ s.req[r].epoch = s.padding[r].epoch
                                        /\ s.req[r].eligible}, <), MaxBatch)

\* What an event will make ready, as far as the policy may know.
Readies(s, e) ==
    CASE e.kind = "arrival" ->
           {r \in {e.load} : RevealsArrivals(setup.policy) /\ s.req[r].phase = "not_arrived"}
      [] e.kind = "draft_ready" ->
           {row.id : row \in {x \in ToSet(e.load.rows) :
                                 /\ s.req[x.id].phase = "wait_draft"
                                 /\ s.req[x.id].epoch = x.epoch
                                 /\ Version(s, x.id) = x.version}}
      [] e.kind = "precompute_ready" ->
           {p.id : p \in {x \in ToSet(e.load) : /\ s.req[x.id].phase = "wait_draft"
                                                /\ s.req[x.id].precompute = x.tag}}
      [] OTHER -> {}

NextReadiness(s) ==
    LET coming == {i \in DOMAIN s.events : Readies(s, s.events[i]) # {}}
        at     == Min({s.events[i].at : i \in coming} \cup {Never})
        ids    == UNION {Readies(s, s.events[i]) : i \in {j \in coming : s.events[j].at = at}}
        key(r) == <<NextDeadline(s, r), Config(r).arrival, r>>
    IN  [at |-> at, rows |-> SetToSortSeq(ids, LAMBDA a, b : KeyBefore(key(a), key(b)))]

\* (A wake that is recorded and not pushed: EveryRequestCompletes.)
WrongScheduleWake(s, at) == [s EXCEPT !.wakes = @ \cup {at}]

ScheduleWake(s, at) ==
    IF at \in s.wakes THEN s
    ELSE Push([s EXCEPT !.wakes = @ \cup {at}], at, "wake", 0)

\* Rows whose request may still need a continuation.
MayContinue(s, r) ==
    ~(Remaining(s, r) = 1 \/ (Remaining(s, r) <= Config(r).width /\ Config(r).certain))

LaunchTarget(s, rows, padded) ==
    LET rounds == [i \in DOMAIN rows |-> Pair(rows[i], s.req[rows[i]].round)]
        all    == rows \o padded
        slots  == MapThenSumSet(LAMBDA i : Width(s, all[i]), DOMAIN all)
        cache  == SchedulePrecompute(s, SelectSeq(rounds, LAMBDA p : MayContinue(s, p.id)))
        Launched(r) == IF r \in ToSet(rows)
                       THEN [s.req[r] EXCEPT !.phase = "in_target", !.since = NoTime]
                       ELSE [s.req[r] EXCEPT !.eligible = @ /\ r \notin ToSet(padded)]
    IN  IF all = <<>> \/ Len(all) > MaxBatch THEN Raise(s, "launch size")
        ELSE Push([cache.s EXCEPT !.req = [r \in Requests |-> Launched(r)], !.busy = TRUE],
                  s.now + TargetLatency(Profile, Len(all), slots), "target_complete",
                  [rows |-> rows, padded |-> padded, end |-> cache.end, rounds |-> rounds,
                   widths |-> [i \in DOMAIN rows |-> Pair(rows[i], Width(s, rows[i]))]])

RowsOf(s, rs) == [i \in DOMAIN rs |-> [slots |-> Width(s, rs[i]), deadline |-> NextDeadline(s, rs[i])]]

\* The context _try_dispatch builds.
DispatchContext(s, ready, selected, padded) ==
    LET next == NextReadiness(s)
    IN  [now |-> s.now, count |-> Len(ready), capacity |-> MaxBatch - Len(padded),
         oldest |-> Min({s.req[r].since : r \in ToSet(selected)}),
         rows |-> RowsOf(s, selected), next |-> next.at, future |-> RowsOf(s, next.rows)]

----------------------------------------------------------------------------
(* The run loop: every event due now, then one dispatch decision, then the *)
(* clock moves to the next event.                                          *)

NoHold == [at |-> NoTime, ready |-> {}, foreseen |-> {}, safe |-> {}]

NewLog == [block |-> [r \in Requests |-> NoTime], branch |-> [r \in Requests |-> Pair(NoTime, NoTime)],
           pads |-> [r \in Requests |-> 0], cohort |-> [r \in Requests |-> {}],
           hold |-> NoHold, spoiled |-> {}]

NewSimulator(workload) ==
    LET rs    == SetToSortSeq(Requests, <)
        order == SortSeq(rs, LAMBDA a, b : \/ workload[a].arrival < workload[b].arrival
                                           \/ workload[a].arrival = workload[b].arrival /\ a < b)
    IN  [now |-> 0, busy |-> FALSE, draftFree |-> 0, wakes |-> {}, error |-> "none",
         settled |-> TRUE, committed |-> NoTime,
         req |-> [r \in Requests |-> NewRequest],
         padding |-> [r \in Requests |-> NoPadding],
         events |-> [i \in DOMAIN order |->
                       [at |-> workload[order[i]].arrival, kind |-> "arrival", load |-> order[i]]]]

Init ==
    /\ setup \in [workload : Workloads, profile : Profiles, policy : Policies]
    /\ sim = NewSimulator(setup.workload)
    /\ log = NewLog

AllComplete == \A r \in Requests : Complete(sim, r)
Running == sim.error = "none" /\ ~AllComplete
NextDue == NextDueIn(sim.events)
Due(kind) == /\ Running /\ ~sim.settled
             /\ NextDue <= sim.now /\ Head(sim.events).kind = kind
Popped == [sim EXCEPT !.events = Tail(@)]
Deciding == Running /\ ~sim.settled /\ NextDue > sim.now

\* The requests an event has just made ready.
Readied(after) ==
    {r \in Requests : after.req[r].phase = "wait_target" /\ sim.req[r].phase # "wait_target"}

Arrive ==
    LET r == Head(sim.events).load
    IN  /\ Due("arrival")
        /\ sim' = IF sim.req[r].phase # "not_arrived" THEN Raise(Popped, "duplicate arrival")
                  ELSE BecomeReady(Popped, r)
        /\ log' = [log EXCEPT !.block[r] = 0]
        /\ UNCHANGED setup

DraftReady ==
    LET load == Head(sim.events).load
    IN  /\ Due("draft_ready")
        /\ sim' = FoldLeft(LAMBDA t, row : DraftReadyRow(t, row, load.recovery), Popped, load.rows)
        /\ log' = [log EXCEPT !.block = [r \in Requests |->
                      IF r \in Readied(sim') THEN (CHOOSE x \in ToSet(load.rows) : x.id = r).version
                      ELSE @[r]]]
        /\ UNCHANGED setup

PrecomputeReady ==
    LET pairs == Head(sim.events).load
    IN  /\ Due("precompute_ready")
        /\ sim' = FoldLeft(PrecomputeReadyRow, Popped, pairs)
        /\ log' = [log EXCEPT !.block = [r \in Requests |->
                      IF r \notin Readied(sim') THEN @[r]
                      ELSE IF Pair(r, log.branch[r].id) \in ToSet(pairs) THEN log.branch[r].tag
                      ELSE NoTime]]
        /\ UNCHANGED setup

\* branch is [round, version] of the continuation a hit selected.
TargetComplete ==
    LET payload == Head(sim.events).load
    IN  /\ Due("target_complete")
        /\ \E draws \in Draws(payload) :
              LET survivors == {r \in ToSet(payload.rows) : ~Complete(sim', r)}
                  missed    == \E r \in survivors : ~draws[r].hit
              IN  /\ sim' = CompleteTarget(Popped, payload, draws)
                  /\ log' = [log EXCEPT
                        !.branch = [r \in Requests |->
                            IF r \notin survivors THEN @[r]
                            ELSE IF draws[r].hit THEN Pair(sim.req[r].round, Version(sim', r))
                            ELSE Pair(NoTime, NoTime)],
                        !.block = [r \in Requests |->
                            IF r \notin Readied(sim') THEN @[r]
                            ELSE IF draws[r].hit THEN Version(sim', r) ELSE NoTime],
                        !.cohort = [r \in Requests |->
                            IF r \notin survivors THEN @[r] ELSE IF missed THEN survivors ELSE {}]]
        /\ UNCHANGED setup

Wake ==
    /\ Due("wake")
    /\ sim' = [Popped EXCEPT !.wakes = @ \ {Head(sim.events).at}]
    /\ UNCHANGED <<setup, log>>

Settle(s) == [s EXCEPT !.settled = TRUE]
NoteLaunch(rows, padded, hold, spoiled) ==
    [log EXCEPT !.pads = [r \in Requests |-> IF r \in ToSet(rows) THEN 0
                                             ELSE IF r \in ToSet(padded) THEN @[r] + 1 ELSE @[r]],
                !.hold = hold, !.spoiled = @ \cup spoiled]

\* The target is busy, or there is nothing to launch.
DispatchNothing ==
    /\ Deciding
    /\ sim.busy \/ (ReadyStates(sim) = <<>> /\ PaddingIds(sim) = <<>>)
    /\ sim' = Settle(sim)
    /\ UNCHANGED <<setup, log>>

DispatchPaddingOnly ==
    LET padded == PaddingIds(sim)
    IN  /\ Deciding /\ ~sim.busy
        /\ ReadyStates(sim) = <<>> /\ padded # <<>>
        /\ sim' = Settle(LaunchTarget(sim, <<>>, padded))
        /\ log' = NoteLaunch(<<>>, padded, NoHold, {})
        /\ UNCHANGED setup

\* Ready rows come first, padding fills what is left, the policy says when.
DispatchReady ==
    LET ready    == ReadyStates(sim)
        selected == Take(ready, MaxBatch)
        padded   == Take(PaddingIds(sim), MaxBatch - Len(selected))
        context  == DispatchContext(sim, ready, selected, padded)
        end      == sim.now + TargetLatency(Profile, Len(selected), Slots(context.rows))
        \* Only the horizon policy reckons with the rows that come next.
        Forecast == IF setup.policy.kind = "horizon" THEN ToSet(NextReadiness(sim).rows) ELSE {}
        Meets(r) == end <= NextDeadline(sim, r)
        spoiled  == {r \in log.hold.safe \cap ToSet(selected) :
                        ToSet(ready) \subseteq log.hold.foreseen /\ ~Meets(r)}
    IN  /\ Deciding /\ ~sim.busy /\ ready # <<>>
        /\ IF ~ContextValid(context) THEN sim' = Raise(sim, "invalid context") /\ UNCHANGED log
           ELSE \E at \in DispatchTimes(Profile, Policy, context) :
             IF at <= sim.now
             THEN /\ sim' = Settle(LaunchTarget([sim EXCEPT !.committed = NoTime], selected, padded))
                  /\ log' = NoteLaunch(selected, padded, NoHold, spoiled)
             ELSE /\ sim' = Settle(ScheduleWake([sim EXCEPT !.committed = at], at))
                  /\ log' = [log EXCEPT !.hold = [at |-> context.next, ready |-> ToSet(ready),
                                foreseen |-> ToSet(ready) \cup Forecast,
                                safe |-> {r \in ToSet(selected) : Meets(r)}]]
        /\ UNCHANGED setup

\* The run fails if the heap is empty before all requests are complete.
Advance ==
    /\ Running /\ sim.settled
    /\ sim' = IF sim.events = <<>> THEN Raise(sim, "event queue exhausted")
              ELSE [sim EXCEPT !.now = Head(sim.events).at, !.settled = FALSE]
    /\ UNCHANGED <<setup, log>>

Next == \/ Arrive \/ DraftReady \/ PrecomputeReady \/ TargetComplete \/ Wake
        \/ DispatchNothing \/ DispatchPaddingOnly \/ DispatchReady
        \/ Advance

Terminated == ~Running /\ UNCHANGED vars

\* The loop of run() goes on while it can: weak fairness of Next.  ENABLED Next
\* is written out as Running, which the deadlock check of the runs confirms,
\* because TLC is slow to evaluate it.
Fairness == []<>~Running \/ []<><<Next>>_vars

Spec == Init /\ [][Next \/ Terminated]_vars /\ Fairness

----------------------------------------------------------------------------
(* Properties.                                                             *)

\* No assertion of the simulator fires: no request arrives twice, no draft or
\* verification completes out of phase or for another round, every hit has a
\* precompute, no launch is empty or too large, every context is valid and the
\* event queue never runs dry before the last request is complete.
NoSimulationError == sim.error = "none"

\* A row that is ready or being verified carries a block drafted for its
\* current version, by the initial draft, a recovery that saw this version or
\* the branch its own last hit selected: stale drafts and precomputes of other
\* rounds never make a row ready.
BlocksCurrent ==
    \A r \in Requests :
        sim.req[r].phase \in {"wait_target", "in_target"} /\ (sim.busy => sim.req[r].phase = "in_target")
            => log.block[r] = Version(sim, r)

\* A recovering request takes at most one padded step before it is verified
\* again: the repair of the version the step made is not padded.
PaddedOncePerChain == \A r \in Requests : log.pads[r] <= 1

\* Under the barrier the survivors of a batch in which one missed become ready
\* together: none is ready while another still waits for the draft engine.
BatchReadyTogether ==
    BarrierOnMiss(setup.policy) =>
        \A r, q \in Requests :
            /\ Deciding /\ sim.req[r].phase = "wait_target"
            /\ q \in log.cohort[r] /\ log.cohort[q] = log.cohort[r]
            => sim.req[q].phase # "wait_draft"

\* What is drafted and launched is current, and every launch is in order.
RowsCurrent == NoSimulationError /\ BlocksCurrent /\ PaddedOncePerChain /\ BatchReadyTogether

\* A row the policy keeps from an idle target has an event to wake it before
\* the policy's longest wait is over; the policies that never wait keep none.
HeldRowsWake ==
    \A r \in Requests :
        Running /\ sim.settled /\ ~sim.busy /\ sim.req[r].phase = "wait_target" =>
            NextDue <= sim.req[r].since + LongestHold(setup.policy)

\* Waiting keeps its promise: the readiness a policy waits for comes at the
\* time it was told, and a row that would have met its deadline had it been
\* launched at once meets it still, unless a row joins that the policy did not
\* reckon with (FixedCoalescePolicy reckons with none).
HoldsComeTrue ==
    /\ setup.policy.kind = "horizon" /\ Deciding /\ log.hold.at = sim.now =>
           \A r \in log.hold.foreseen : sim.req[r].phase = "wait_target"
    /\ setup.policy.kind # "oracle" => log.spoiled = {}

\* Holding a row back neither strands it nor makes it late.
HoldsKept == HeldRowsWake /\ HoldsComeTrue

\* Every run ends with every request complete, whatever the verifier draws.
EveryRequestCompletes == <>AllComplete

=============================================================================
