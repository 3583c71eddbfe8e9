------------------------- MODULE SchedulingPolicies -------------------------
(***************************************************************************)
(* The dispatch policies of fissionspec/policies.py, and the replaying     *)
(* policy of fissionspec/oracle.py, as operators on the context an idle    *)
(* target hands them:                                                      *)
(*   [now, count, capacity, oldest, rows, next, future]                    *)
(* where rows and future are sequences of [slots, deadline] in admission   *)
(* order and next is the time the future rows become ready.                *)
(* A policy is [kind, window, committed]: its batching window or longest   *)
(* wait, and the time the replaying policy has committed to wait for.      *)
(***************************************************************************)
EXTENDS HardwareProfile, EventQueue, FiniteSetsExt

BarrierOnMiss(policy) == policy.kind = "saguaro"
PadsRecoveringMisses(policy) == policy.kind = "spectre"
RevealsArrivals(policy) == policy.kind = "oracle"

Slots(rows) == MapThenSumSet(LAMBDA i : rows[i].slots, DOMAIN rows)

InAdmissionOrder(rows) ==
    \A i \in 1..(Len(rows) - 1) : rows[i].deadline <= rows[i + 1].deadline

\* What DispatchContext checks when it is built.
ContextValid(c) ==
    /\ c.count > 0 /\ c.capacity > 0 /\ c.oldest <= c.now
    /\ c.future # <<>> => c.next >= c.now
    /\ Len(c.rows) = Min({c.count, c.capacity})
    /\ \A row \in {c.rows[i] : i \in DOMAIN c.rows} \cup {c.future[i] : i \in DOMAIN c.future} :
          row.slots > 0
    /\ InAdmissionOrder(c.rows) /\ InAdmissionOrder(c.future)

\* FixedCoalescePolicy: a window after the oldest ready row, cut short where
\* it would cost the earliest deadline.
WindowEnd(profile, window, c) ==
    IF c.count >= c.capacity THEN c.now
    ELSE Max({c.now,
              Min({Max({c.now, c.oldest + window}),
                   c.rows[1].deadline - TargetLatency(profile, Len(c.rows), Slots(c.rows))})})

\* When row i is served if `rows` go out from `start` in chunks of `capacity`.
ServedAt(profile, rows, start, capacity, i) ==
    start + MapThenSumSet(
        LAMBDA k : LET chunk == SubSeq(rows, k * capacity + 1, Min({(k + 1) * capacity, Len(rows)}))
                   IN  TargetLatency(profile, Len(chunk), Slots(chunk)),
        0..((i - 1) \div capacity))

FlowCost(profile, rows, start, capacity) ==
    MapThenSumSet(LAMBDA i : ServedAt(profile, rows, start, capacity, i) - rows[i].ready,
                  DOMAIN rows)

Feasible(profile, rows, start, capacity) ==
    \A i \in DOMAIN rows : ServedAt(profile, rows, start, capacity, i) <= rows[i].deadline

ReadyAt(rows, at) ==
    [i \in DOMAIN rows |-> [slots |-> rows[i].slots, deadline |-> rows[i].deadline, ready |-> at]]

\* The order rolling EDF admits both cohorts in at the wake: by deadline, ties
\* to the current rows and then by position.
EdfMerge(current, future) ==
    LET all   == current \o future
        order == SortSeq([i \in DOMAIN all |-> i],
                         LAMBDA i, j : \/ all[i].deadline < all[j].deadline
                                       \/ all[i].deadline = all[j].deadline /\ i < j)
    IN  [i \in DOMAIN all |-> all[order[i]]]

\* It waits whenever waiting is cheaper, feasible or not (HoldsKept).
WrongHorizonTwo(profile, window, c) ==
    IF \/ c.count >= c.capacity \/ c.future = <<>>
       \/ c.next <= c.now \/ c.next > c.oldest + window
    THEN c.now ELSE c.next

\* FissionSpecPolicy: launch now, or wait for the next readiness, whichever is
\* feasible and cheaper over the two cohorts.
HorizonTwo(profile, window, c) ==
    LET current  == ReadyAt(c.rows, c.now)
        future   == ReadyAt(c.future, c.next)
        merged   == EdfMerge(current, future)
        free     == Max({c.next, c.now + TargetLatency(profile, Len(current), Slots(current))})
        launchOk == Feasible(profile, current, c.now, c.capacity)
                    /\ Feasible(profile, future, free, c.capacity)
        launch   == FlowCost(profile, current, c.now, c.capacity)
                    + FlowCost(profile, future, free, c.capacity)
        wait     == FlowCost(profile, merged, c.next, c.capacity)
        limit    == c.oldest + window
    IN  IF \/ c.count >= c.capacity \/ c.future = <<>>
           \/ c.next <= c.now \/ c.now >= limit \/ c.next > limit
           \/ ~Feasible(profile, merged, c.next, c.capacity)
           \/ launchOk /\ wait >= launch
        THEN c.now
        ELSE c.next

\* The replaying policy keeps a wait it has begun; elsewhere either branch of a
\* decision may be the one its prefix takes.
OracleTimes(policy, c) ==
    IF c.now < policy.committed THEN {policy.committed}
    ELSE IF c.future # <<>> /\ c.next > c.now THEN {c.now, c.next} ELSE {c.now}

DispatchTimes(profile, policy, c) ==
    CASE policy.kind = "fixed" -> {WindowEnd(profile, policy.window, c)}
      [] policy.kind = "horizon" -> {HorizonTwo(profile, policy.window, c)}
      [] policy.kind = "oracle" -> OracleTimes(policy, c)
      [] OTHER -> {c.now}

\* How long after it became ready a row may be kept from an idle target.
LongestHold(policy) ==
    CASE policy.kind \in {"fixed", "horizon"} -> policy.window
      [] policy.kind = "oracle" -> Never
      [] OTHER -> 0

=============================================================================
