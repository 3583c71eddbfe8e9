------------------------------ MODULE Baselines ------------------------------
(***************************************************************************)
(* DeterministicBaselineSimulator of fissionspec/baselines.py: a target    *)
(* engine and a draft engine that serve a pre-realized trace in the order  *)
(* a scheduler chooses.  The outcomes of a trace are fixed before the run  *)
(* and no scheduler reads the outcome of a step before it is verified, so  *)
(* each is chosen here at the verification that reveals it.  `base` is the *)
(* simulator object; `starts` is history about the order of draft starts.  *)
(***************************************************************************)
EXTENDS BaselineSchedulers

CONSTANTS
    Requests,      \* ids, numbers in the order of the ids
    MaxBatch,      \* max_batch_size
    Traces,        \* [requests : id -> [arrival, deadline, prompt, widths], background : Seq([release, dur])]
    Schedulers,
    Costs          \* [hardware, context, token, alignBase, alignUnit]

VARIABLES input, base, starts

vars == <<input, base, starts>>

ASSUME BaselineAssumption ==
    /\ Requests \subseteq Nat \ {0} /\ MaxBatch \in Nat \ {0}
    /\ \A t \in Traces, r \in Requests :
          t.requests[r].widths # <<>> /\ t.requests[r].deadline >= t.requests[r].arrival
    /\ \A s \in Schedulers : s.compress \in 1..100 /\ (s.kind = "spectre" => s.burst > 0)

Ids == SetToSortSeq(Requests, <)
Trace(r) == input.trace.requests[r]
Scheduler == input.scheduler

Fail(s, what) == [s EXCEPT !.error = what]
Enqueue(s, at, kind, load) ==
    IF at < s.now THEN Fail(s, "event in the past")
    ELSE [s EXCEPT !.events = Schedule(@, at, kind, load)]

View(s, r, padding, since) ==
    [id |-> r, step |-> s.req[r].step, padding |-> padding, since |-> since,
     deadline |-> Trace(r).deadline, seq |-> s.req[r].seq, width |-> Trace(r).widths[s.req[r].step]]

Candidates(s) ==
    LET ready == SelectSeq(Ids, LAMBDA r : s.req[r].phase = "ready")
    IN  [i \in DOMAIN ready |-> View(s, ready[i], FALSE, s.req[ready[i]].since)] \o s.padding

\* A row selected twice, or a padded row that is no longer the current one.
SelectionError(s, rows) ==
    \/ Len(rows) > MaxBatch \/ Cardinality(ToSet(rows)) # Len(rows)
    \/ \E v \in ToSet(rows) : v \notin ToSet(Candidates(s))

LaunchRows(s, batch) ==
    LET rows  == batch.rows
        real  == RealRows(rows)
        slots == MapThenSumSet(LAMBDA i : rows[i].width, DOMAIN rows)
        cost  == TargetLatency(Costs.hardware, Len(rows), slots)
                 + (IF batch.realign THEN RealignmentLatency(Costs, real) ELSE 0)
        ids   == {v.id : v \in ToSet(real)}
    IN  Enqueue([s EXCEPT !.busy = TRUE,
                          !.req = [r \in Requests |-> IF r \in ids
                                                      THEN [@[r] EXCEPT !.phase = "in_target", !.since = NoTime]
                                                      ELSE @[r]],
                          !.padding = SelectSeq(@, LAMBDA v : v \notin ToSet(rows))],
                s.now + cost, "target_complete", rows)

ScheduleTarget(s) ==
    LET rows  == Candidates(s)
        batch == ChooseBatch(Scheduler, rows, s.now, MaxBatch)
    IN  IF s.busy \/ rows = <<>> THEN s
        ELSE IF batch.rows = <<>> THEN Fail(s, "empty batch with ready work")
        ELSE IF batch.at > s.now
             THEN IF batch.at \in s.wakes THEN s
                  ELSE Enqueue([s EXCEPT !.wakes = @ \cup {batch.at}], batch.at, "wake", 0)
        ELSE IF SelectionError(s, batch.rows) THEN Fail(s, "invalid selection")
        ELSE LaunchRows(s, batch)

First(jobs, key(_)) == SortedBy(jobs, key)[1]
OfKind(jobs, kind) == SelectSeq(jobs, LAMBDA j : j.kind = kind)

\* Without a burst limit the oldest job; with one, speculative jobs by deadline
\* until `burst` of them have started in a row.
ChooseDraftJob(s) ==
    LET spec == OfKind(s.jobs, "speculative")
        back == OfKind(s.jobs, "background")
        byRelease(j) == <<j.release, j.seq>>
        byDeadline(j) == <<Trace(j.id).deadline, j.release, j.seq>>
    IN  IF Scheduler.burst = 0 THEN First(s.jobs, byRelease)
        ELSE IF back # <<>> /\ (spec = <<>> \/ s.streak >= Scheduler.burst) THEN First(back, byRelease)
        ELSE First(spec, byDeadline)

ScheduleDraft(s) ==
    LET job == ChooseDraftJob(s)
    IN  IF s.drafting \/ s.jobs = <<>> THEN s
        ELSE Enqueue([s EXCEPT !.jobs = SelectSeq(@, LAMBDA j : j # job),
                               !.streak = IF job.kind = "speculative" THEN @ + 1 ELSE 0,
                               !.drafting = TRUE],
                     s.now + job.dur, "draft_complete", job)

----------------------------------------------------------------------------
(* Events.                                                                 *)

HandleArrival(s, r) ==
    IF s.req[r].phase # "not_arrived" THEN Fail(s, "duplicate arrival")
    ELSE [s EXCEPT !.req[r].phase = "ready", !.req[r].since = s.now]

LastStep(s, r) == s.req[r].step = Len(Trace(r).widths)

\* The outcomes of the rows' steps; the last step asks for no draft.
Outcomes(s, rows) ==
    {o \in [{v.id : v \in ToSet(rows)} ->
              [emitted : 1..Max({1} \cup {v.width : v \in ToSet(rows)}), remote : BOOLEAN, rollback : BOOLEAN]] :
        \A v \in ToSet(rows) : o[v.id].emitted <= v.width /\ (o[v.id].remote => ~LastStep(s, v.id))}

CompleteRow(s, v, o) ==
    LET r    == v.id
        next == IF LastStep(s, r) THEN "complete" ELSE IF o.remote THEN "wait_draft" ELSE "ready"
    IN  IF s.req[r].phase # "in_target" \/ s.req[r].step # v.step THEN Fail(s, "stale request state")
        ELSE [s EXCEPT !.req[r].seq = @ + o.emitted, !.req[r].step = @ + 1, !.req[r].phase = next,
                       !.req[r].since = IF next = "ready" THEN s.now ELSE NoTime]

\* In parallel mode the padded row stands in for the job (TraceCompletes).
WrongAddDraft(s, r, mode) ==
    IF mode = "parallel" THEN [s EXCEPT !.padding = Append(@, View(s, r, TRUE, s.now))]
    ELSE [s EXCEPT !.jobSeq = @ + 1,
                   !.jobs = Append(@, [seq |-> s.jobSeq + 1, kind |-> "speculative",
                                       release |-> s.now, id |-> r, dur |-> 1])]

\* A recovery job, and in parallel mode a padded row until it completes.
AddDraft(s, r, mode) ==
    LET job == [seq |-> s.jobSeq + 1, kind |-> "speculative", release |-> s.now, id |-> r,
                dur |-> RecoveryLatency(Costs, Scheduler, s.req[r].seq, Trace(r).widths[s.req[r].step])]
    IN  [s EXCEPT !.jobSeq = @ + 1, !.jobs = Append(@, job),
                  !.padding = IF mode = "parallel" THEN Append(@, View(s, r, TRUE, s.now)) ELSE @]

CompleteTarget(s, rows, outcomes) ==
    LET real      == RealRows(rows)
        done      == FoldLeft(LAMBDA t, v : CompleteRow(t, v, outcomes[v.id]), [s EXCEPT !.busy = FALSE], real)
        going     == SelectSeq(real, LAMBDA v : done.req[v.id].phase # "complete")
        rollbacks == Len(SelectSeq(going, LAMBDA v : outcomes[v.id].rollback))
        remote    == SelectSeq(going, LAMBDA v : outcomes[v.id].remote)
        mode      == RecoveryMode(Scheduler, rollbacks, Len(real))
    IN  IF ~s.busy THEN Fail(s, "completion while idle")
        ELSE FoldLeft(LAMBDA t, v : AddDraft(t, v.id, mode), done, remote)

\* The padded row outlives the draft it stood in for (DraftsMatchWaits).
WrongCompleteDraft(s, job) ==
    IF job.kind = "background" THEN [s EXCEPT !.drafting = FALSE]
    ELSE [s EXCEPT !.drafting = FALSE, !.req[job.id].phase = "ready", !.req[job.id].since = s.now]

CompleteDraft(s, job) ==
    LET idle == [s EXCEPT !.drafting = FALSE]
    IN  IF ~s.drafting THEN Fail(s, "draft completion while idle")
        ELSE IF job.kind = "background" THEN idle
        ELSE IF s.req[job.id].phase # "wait_draft" THEN Fail(s, "draft for a request that does not wait")
        ELSE [idle EXCEPT !.req[job.id].phase = "ready", !.req[job.id].since = s.now,
                          !.padding = SelectSeq(@, LAMBDA v : v.id # job.id)]

----------------------------------------------------------------------------
(* The run loop: decide, pop an event, drain what falls at the same time.  *)

NewBaseline(trace) ==
    LET jobs   == [i \in DOMAIN trace.background |->
                     [seq |-> i, kind |-> "background", release |-> trace.background[i].release,
                      id |-> 0, dur |-> trace.background[i].dur]]
        arrive == FoldLeft(LAMBDA q, r : Schedule(q, trace.requests[r].arrival, "arrival", r), <<>>, Ids)
    IN  [now |-> 0, busy |-> FALSE, drafting |-> FALSE, settled |-> TRUE, error |-> "none",
         streak |-> 0, jobSeq |-> Len(jobs), jobs |-> <<>>, padding |-> <<>>, wakes |-> {},
         req |-> [r \in Requests |-> [phase |-> "not_arrived", step |-> 1, since |-> NoTime,
                                      seq |-> trace.requests[r].prompt]],
         events |-> FoldLeft(LAMBDA q, j : Schedule(q, j.release, "release", j), arrive, jobs)]

Init ==
    /\ input \in [trace : Traces, scheduler : Schedulers]
    /\ base = NewBaseline(input.trace)
    /\ starts = [passed |-> 0, repeated |-> 0]

Finished ==
    /\ \A r \in Requests : base.req[r].phase = "complete"
    /\ ~base.busy /\ ~base.drafting /\ base.jobs = <<>>
    /\ \A i \in DOMAIN base.events : base.events[i].kind = "wake"

Running == base.error = "none" /\ ~(base.settled /\ Finished)
NextDue == NextDueIn(base.events)
Popped == [base EXCEPT !.events = Tail(@), !.now = Head(base.events).at, !.settled = FALSE]
Takes(kind) == /\ Running /\ base.events # <<>> /\ Head(base.events).kind = kind
               /\ base.settled \/ NextDue = base.now
Load == Head(base.events).load

\* passed: speculative starts since a background job began to wait;
\* repeated: background starts in a row while a speculative job waits.
NoteStart(after) ==
    LET back == OfKind(base.jobs, "background") # <<>>
        spec == OfKind(base.jobs, "speculative") # <<>>
        Started(kind) == Len(OfKind(after.jobs, kind)) < Len(OfKind(base.jobs, kind))
    IN  [passed |-> IF Started("speculative") /\ back THEN starts.passed + 1
                    ELSE IF Started("background") \/ ~back THEN 0 ELSE starts.passed,
         repeated |-> IF Started("background") /\ spec THEN starts.repeated + 1
                      ELSE IF Started("speculative") \/ ~spec THEN 0 ELSE starts.repeated]

\* Before every pop the draft engine and then the target are given work.
Decide ==
    /\ Running /\ ~base.settled /\ NextDue # base.now
    /\ LET after == [ScheduleTarget(ScheduleDraft(base)) EXCEPT !.settled = TRUE]
       IN  base' = IF after.events = <<>> /\ ~Finished THEN Fail(after, "event queue drained") ELSE after
    /\ starts' = NoteStart(ScheduleDraft(base))
    /\ UNCHANGED input

Arrive == Takes("arrival") /\ base' = HandleArrival(Popped, Load) /\ UNCHANGED <<input, starts>>

Release == /\ Takes("release")
           /\ base' = [Popped EXCEPT !.jobs = Append(@, Load)]
           /\ UNCHANGED <<input, starts>>

TargetComplete ==
    /\ Takes("target_complete")
    /\ \E o \in Outcomes(base, RealRows(Load)) : base' = CompleteTarget(Popped, Load, o)
    /\ UNCHANGED <<input, starts>>

DraftComplete == Takes("draft_complete") /\ base' = CompleteDraft(Popped, Load) /\ UNCHANGED <<input, starts>>

Wake == /\ Takes("wake")
        /\ base' = [Popped EXCEPT !.wakes = @ \ {Head(base.events).at}]
        /\ UNCHANGED <<input, starts>>

Next == Decide \/ Arrive \/ Release \/ TargetComplete \/ DraftComplete \/ Wake

Terminated == ~Running /\ UNCHANGED vars

\* The loop of run() goes on while it can: weak fairness of Next, with ENABLED
\* Next written out as Running, which the deadlock check confirms.
Fairness == []<>~Running \/ []<><<Next>>_vars

Spec == Init /\ [][Next \/ Terminated]_vars /\ Fairness

----------------------------------------------------------------------------
(* Properties.                                                             *)

\* The running jobs: the ones on the heap.
RunningJobs == {base.events[i].load : i \in {j \in DOMAIN base.events : base.events[j].kind = "draft_complete"}}

\* No assertion fires: no scheduler selects a row that is stale, not ready or
\* chosen twice, no completion finds its request in another phase or step, and
\* the event queue never drains before the trace is complete.
NoBaselineError == base.error = "none"

\* A request waits for a draft exactly while one speculative job for it is
\* queued or running, and a padded row stands in only for a request that waits,
\* at the step it waits for: it never outlives the draft.
WaitsMatchDrafts ==
    LET jobs == ToSet(base.jobs) \cup RunningJobs
    IN  /\ \A r \in Requests :
              Cardinality({j \in jobs : j.id = r}) = IF base.req[r].phase = "wait_draft" THEN 1 ELSE 0
        /\ \A v \in ToSet(base.padding) :
              base.req[v.id].phase = "wait_draft" /\ base.req[v.id].step = v.step

\* Every wait has its job and every launch its rows.
DraftsMatchWaits == NoBaselineError /\ WaitsMatchDrafts

\* Neither side of the draft queue starves: under a burst limit at most `burst`
\* speculative jobs start while a background job waits, and no two background
\* jobs in a row while a speculative job waits.
DraftQueueFair ==
    Scheduler.burst > 0 => starts.passed <= Scheduler.burst /\ starts.repeated <= 1

\* A row that is ready at an idle target is launched, or an event is due before
\* the scheduler's window on it closes.
IdleTargetWakes ==
    \A r \in Requests :
        Running /\ base.settled /\ ~base.busy /\ base.req[r].phase = "ready" =>
            NextDue <= base.req[r].since + IdleWindow(Scheduler)

\* No job and no row is left waiting beside an engine that could take it.
NothingStarves == DraftQueueFair /\ IdleTargetWakes

\* Every scheduler completes every trace, background jobs included.
TraceCompletes == <>(base.settled /\ Finished)

=============================================================================
