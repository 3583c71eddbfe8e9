-------------------------- MODULE AdmissionController --------------------------
(***************************************************************************)
(* The two-step admission controller of the Rust crate fissionspec-core    *)
(* and the serving loop its actions are meant for: the current batch is    *)
(* launched, held for a forecast batch, or loses an item.  The loop is not *)
(* in the crate.  It obeys the actions, service takes the predicted time,  *)
(* and a forecast is right unless its batch is cancelled.                  *)
(***************************************************************************)
EXTENDS Integers, Sequences, FiniteSets, SequencesExt, FiniteSetsExt

CONSTANTS
    Profile,          \* <<[units, latency], ...>>, the calibration points
    MaxDelay, Guard,
    MaxUnits,
    MaxTime,          \* u64::MAX, and the last deadline
    Arrivals          \* sequences of [at, known, items], by increasing at

\* Assumed of the constants.
ControllerConstants ==
    /\ Profile # <<>> /\ MaxUnits \in Nat \ {0}
    /\ \A i \in DOMAIN Profile :
          /\ Profile[i].units # 0
          /\ i > 1 => /\ Profile[i].units > Profile[i - 1].units
                      /\ Profile[i].latency >= Profile[i - 1].latency
    /\ \A a \in Arrivals : \A n \in DOMAIN a : \A i \in DOMAIN a[n].items :
          LET it == a[n].items[i]
          IN  it.units > 0 /\ it.arrival <= it.ready /\ it.arrival <= it.deadline /\ it.deadline <= MaxTime

VARIABLES
    clock,
    lane,             \* the current batch: items [id, class, arrival, ready, deadline, units, priority]
    queue,            \* the batches to come; the loop forecasts a known first one
    status,           \* "decide", or what the loop waits for until its alarm
    alarm,
    left,             \* how and when each item left the lane
    promised          \* items that a plan of the controller was found feasible for

vars == <<clock, lane, queue, status, alarm, left, promised>>

----------------------------------------------------------------------------
(* The latency profile; interpolation rounds up.                           *)

CeilDiv(a, b) == (a + b - 1) \div b

Interpolate(p, q, units) ==
    p.latency + CeilDiv((units - p.units) * (q.latency - p.latency), q.units - p.units)

Predict(units) ==
    LET n == Len(Profile)
        below == Cardinality({i \in 1..n : Profile[i].units < units})
    IN  IF units = 0 THEN 0
        ELSE IF below = 0 \/ n = 1 THEN Profile[1].latency
        ELSE IF below < n THEN Interpolate(Profile[below], Profile[below + 1], units)
        ELSE Interpolate(Profile[n - 1], Profile[n], units)

----------------------------------------------------------------------------
(* A batch: the ready items in order, then the recovery items.  No time    *)
(* past MaxTime meets a deadline, so a sum that u64 cannot hold is late.   *)

Batch(items) ==
    SelectSeq(items, LAMBDA it : it.class = "ready") \o SelectSeq(items, LAMBDA it : it.class = "recovery")

Ids(items) == {items[i].id : i \in DOMAIN items}
Units(items) == MapThenSumSet(LAMBDA i : items[i].units, DOMAIN items)
LatestReady(items) == Max({0} \cup {items[i].ready : i \in DOMAIN items})

FlowCost(items, completion) ==
    MapThenSumSet(LAMBDA i : IF completion > items[i].arrival
                             THEN (completion - items[i].arrival) * (items[i].priority + 1) ELSE 0,
                  DOMAIN items)

\* Earlier deadline, then higher priority, then first in the batch.
MostUrgent(items, S) ==
    CHOOSE i \in S : \A j \in S :
        \/ items[i].deadline < items[j].deadline
        \/ /\ items[i].deadline = items[j].deadline
           /\ items[i].priority > items[j].priority \/ (items[i].priority = items[j].priority /\ i <= j)

NotReady(items, now) == {i \in DOMAIN items : items[i].ready > now}
Violations(items, completion) == {i \in DOMAIN items : items[i].deadline < completion + Guard}

CoalescingBound(items) == Min({items[i].ready + MaxDelay : i \in DOMAIN items})

\* The latest start of a fused batch that a trace reports.
LatestSafeFuse(items, next) ==
    LET all == items \o next
    IN  Min({CoalescingBound(items)}
            \cup {all[i].deadline - Predict(Units(all)) - Guard : i \in DOMAIN all})

----------------------------------------------------------------------------
(* The horizon of two batches.  A forecast is a set of at most one batch.  *)

Effective(f) == Max({f.at, LatestReady(f.items)})
Available(now, f) == Max({now, Effective(f)})

\* The next batch starts when it arrives, also under the first launch (DecisionsKept).
WrongNextStart(now, items, f) == Available(now, f)

NextStart(now, items, f) == Max({Available(now, f), now + Predict(Units(items))})

LaunchFeasible(now, items, f) ==
    /\ Units(f.items) <= MaxUnits
    /\ Violations(f.items, NextStart(now, items, f) + Predict(Units(f.items))) = {}

LaunchCost(now, items, f) ==
    FlowCost(items, now + Predict(Units(items)))
        + FlowCost(f.items, NextStart(now, items, f) + Predict(Units(f.items)))

FusedCompletion(now, items, f) == Available(now, f) + Predict(Units(items \o f.items))

WaitFeasible(now, items, f) ==
    /\ Units(f.items) <= MaxUnits /\ Units(items \o f.items) <= MaxUnits
    /\ Available(now, f) <= CoalescingBound(items)
    /\ Violations(items \o f.items, FusedCompletion(now, items, f)) = {}

WaitCost(now, items, f) == FlowCost(items \o f.items, FusedCompletion(now, items, f))

Dispatch == [kind |-> "dispatch"]
WaitUntil(at) == [kind |-> "wait", at |-> at]
Bypass(item, reason) == [kind |-> "bypass", item |-> item, reason |-> reason]

\* With nothing to launch: until the forecast is there, or the next poll.
AwaitFirst(now, forecast) ==
    WaitUntil(Min({Available(now, f) : f \in forecast} \cup
                  IF forecast = {} THEN {now + MaxDelay, MaxTime} ELSE {}))

FusionWins(now, items, f) ==
    /\ WaitFeasible(now, items, f)
    /\ LaunchFeasible(now, items, f) => WaitCost(now, items, f) < LaunchCost(now, items, f)

\* A forecast that is doomed loses an item only when it is there already.
Horizon(now, items, f) ==
    LET doomed == Violations(f.items, NextStart(now, items, f) + Predict(Units(f.items)))
    IN  CASE FusionWins(now, items, f) -> WaitUntil(Available(now, f))
          [] /\ ~FusionWins(now, items, f)
             /\ Units(f.items) > MaxUnits \/ LaunchFeasible(now, items, f) \/ Available(now, f) > now -> Dispatch
          [] OTHER -> Bypass(f.items[MostUrgent(f.items, doomed)], "deadline")

Decide(now, items, forecast) ==
    LET Urgent(S) == items[MostUrgent(items, S)]
        late == Violations(items, now + Predict(Units(items)))
    IN  IF items = <<>> THEN AwaitFirst(now, forecast)
        ELSE IF NotReady(items, now) # {} THEN Bypass(Urgent(NotReady(items, now)), "not_ready")
        ELSE IF Units(items) > MaxUnits THEN Bypass(Urgent(DOMAIN items), "capacity")
        ELSE IF late # {} THEN Bypass(Urgent(late), "deadline")
        ELSE IF forecast = {} THEN Dispatch
        ELSE Horizon(now, items, CHOOSE f \in forecast : TRUE)

----------------------------------------------------------------------------
(* The serving loop.                                                       *)

Init ==
    /\ clock = 0 /\ lane = <<>> /\ status = "decide" /\ alarm = 0
    /\ queue \in Arrivals
    /\ left = <<>> /\ promised = {}

Running == lane # <<>> \/ queue # <<>>

Forecast == IF queue # <<>> /\ queue[1].known THEN {queue[1]} ELSE {}
Choice == Decide(clock, lane, Forecast)

Leaves(items, how, at) ==
    left' = [id \in DOMAIN left \cup Ids(items) |->
                IF id \in Ids(items)
                THEN [how |-> how, start |-> clock, end |-> at,
                      item |-> CHOOSE it \in ToSet(items) : it.id = id]
                ELSE left[id]]

Launch ==
    /\ Running /\ status = "decide" /\ Choice.kind = "dispatch"
    /\ status' = "busy" /\ alarm' = clock + Predict(Units(lane))
    /\ Leaves(lane, "dispatched", clock + Predict(Units(lane)))
    /\ promised' = promised \cup UNION {IF LaunchFeasible(clock, lane, f) THEN Ids(f.items) ELSE {} : f \in Forecast}
    /\ lane' = <<>>
    /\ UNCHANGED <<clock, queue>>

\* With an empty lane the loop sleeps; otherwise it holds the lane to fuse it.
Hold ==
    /\ Running /\ status = "decide" /\ Choice.kind = "wait"
    /\ status' = IF lane = <<>> THEN "asleep" ELSE "fusing"
    /\ alarm' = Choice.at
    /\ promised' = IF lane = <<>> THEN promised
                   ELSE promised \cup Ids(lane) \cup UNION {Ids(f.items) : f \in Forecast}
    /\ UNCHANGED <<clock, lane, queue, left>>

\* An item that was taken too early comes back when it is ready, and what was
\* planned with it is off; any other item leaves for good.
BypassItem ==
    /\ Running /\ status = "decide" /\ Choice.kind = "bypass"
    /\ LET it == Choice.item
           Others(items) == SelectSeq(items, LAMBDA x : x.id # it.id)
           batches == IF it.id \in Ids(lane) THEN queue
                      ELSE SelectSeq([queue EXCEPT ![1].items = Others(@)], LAMBDA b : b.items # <<>>)
           back == [at |-> it.ready, known |-> FALSE, items |-> <<it>>]
       IN  /\ lane' = Others(lane)
           /\ IF Choice.reason = "not_ready"
              THEN /\ queue' = SelectSeq(batches, LAMBDA b : b.at <= back.at) \o <<back>>
                               \o SelectSeq(batches, LAMBDA b : b.at > back.at)
                   /\ promised' = {} /\ UNCHANGED left
              ELSE /\ queue' = batches
                   /\ Leaves(<<it>>, Choice.reason, clock) /\ UNCHANGED promised
    /\ UNCHANGED <<clock, status, alarm>>

Due(b, now) == (IF b.known THEN Effective(b) ELSE b.at) <= now

\* The alarm goes off.  A batch that is due is fused, or fills an empty lane.
Wake ==
    /\ Running /\ status # "decide"
    /\ clock' = Max({clock, alarm}) /\ status' = "decide"
    /\ LET takes == queue # <<>> /\ Due(queue[1], Max({clock, alarm})) /\ (lane = <<>> \/ status = "fusing")
       IN  /\ lane' = IF takes THEN Batch(lane \o queue[1].items) ELSE lane
           /\ queue' = IF takes THEN Tail(queue) ELSE queue
    /\ UNCHANGED <<alarm, left, promised>>

\* The requests of the next batch are cancelled; a hold for it is in vain.
Cancel ==
    /\ status # "decide" /\ queue # <<>>
    /\ status' = IF status = "fusing" THEN "in_vain" ELSE status
    /\ promised' = promised \ Ids(queue[1].items)
    /\ queue' = Tail(queue)
    /\ UNCHANGED <<clock, lane, alarm, left>>

Next == Launch \/ Hold \/ BypassItem \/ Wake \/ Cancel

Spec == Init /\ [][Next]_vars

----------------------------------------------------------------------------
(* Properties.                                                             *)

\* What was planned comes true: a batch the controller launched or held, and
\* the forecast batch it did so for, is not found late or too large when its
\* turn comes, even when the batch it was held for is cancelled.
PlansComeTrue ==
    \A id \in promised \cap DOMAIN left : left[id].how = "dispatched"

\* A hold ends within the coalescing delay of every held item and not after
\* the latest safe start that the trace reports for it.
HoldsBounded ==
    status = "fusing" =>
        alarm <= LatestSafeFuse(lane, queue[1].items)

\* All that is launched was ready and ends a guard before its deadline.
DecisionsKept ==
    /\ PlansComeTrue /\ HoldsBounded
    /\ \A id \in DOMAIN left : LET x == left[id] IN x.how = "dispatched" =>
          x.start >= x.item.ready /\ x.end + Guard <= x.item.deadline

=============================================================================
