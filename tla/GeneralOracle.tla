---------------------------- MODULE GeneralOracle ----------------------------
(***************************************************************************)
(* The exact scheduling oracle of fissionspec/general_oracle.py: jobs with *)
(* releases, widths, deadlines and weights, one target without preemption, *)
(* and the cheapest schedule of dispatches and waits.                      *)
(*                                                                         *)
(* A problem is                                                            *)
(*   [jobs, rows, slots, latency, points]                                  *)
(* where jobs maps ids to [release, width, deadline, weight], rows and     *)
(* slots are the capacity, latency maps <<rows, slots>> to a duration and  *)
(* points maps the decision times to their wait kinds.  Fractions are      *)
(* whole multiples of 1/Unit, and every run starts at time 0.              *)
(***************************************************************************)
EXTENDS Integers, Sequences, FiniteSets, FiniteSetsExt, SequencesExt, TLC

CONSTANT Unit

\* Assumed of the constant.
UnitConstant == Unit \in Nat \ {0}

Ids(p) == DOMAIN p.jobs
SlotsOf(jobs, S) == MapThenSumSet(LAMBDA i : jobs[i].width, S)

\* The batches that fit the target.
Admissible(jobs, rows, slots, S) ==
    {B \in SUBSET S : B # {} /\ Cardinality(B) <= rows /\ SlotsOf(jobs, B) <= slots}

Shape(jobs, B) == <<Cardinality(B), SlotsOf(jobs, B)>>

\* What the constructors of the problem accept.
ValidProblem(p) ==
    /\ Ids(p) # {} /\ p.rows > 0 /\ p.slots > 0
    /\ \A i \in Ids(p) :
          LET j == p.jobs[i]
          IN  /\ j.release >= 0 /\ j.deadline >= j.release
              /\ j.width \in 1..p.slots /\ j.weight > 0
    /\ \A B \in Admissible(p.jobs, p.rows, p.slots, Ids(p)) :
          Shape(p.jobs, B) \in DOMAIN p.latency /\ p.latency[Shape(p.jobs, B)] > 0

\* Releases, the last times from which a batch meets a deadline, and the grid;
\* a time of several kinds keeps the first of them.
DecisionPoints(jobs, rows, slots, latency, grid) ==
    LET releases == {jobs[i].release : i \in DOMAIN jobs}
        safe     == {t \in UNION {{jobs[i].deadline - latency[Shape(jobs, B)] : i \in B} :
                                     B \in Admissible(jobs, rows, slots, DOMAIN jobs)} : t >= 0}
    IN  [t \in releases \cup safe \cup grid |->
            IF t \in releases THEN "release" ELSE IF t \in safe THEN "deadline-safe" ELSE "grid"]

----------------------------------------------------------------------------
(* Objectives: deadline violations first, then weighted flow.              *)

Zero == <<0, 0>>
Plus(a, b) == <<a[1] + b[1], a[2] + b[2]>>
Cheaper(a, b) == a[1] < b[1] \/ (a[1] = b[1] /\ a[2] < b[2])

Incremental(p, B, end) ==
    <<Cardinality({i \in B : end > p.jobs[i].deadline}),
      MapThenSumSet(LAMBDA i : p.jobs[i].weight * (end - p.jobs[i].release), B)>>

\* A complete schedule, scored by its completion times.
Score(p, done) ==
    <<Cardinality({i \in Ids(p) : done[i] > p.jobs[i].deadline}),
      MapThenSumSet(LAMBDA i : p.jobs[i].weight * (done[i] - p.jobs[i].release), Ids(p))>>

----------------------------------------------------------------------------
(* Events and the canonical order of traces, which breaks ties.            *)

Ready(p, t, S) == {i \in S : p.jobs[i].release <= t}
NextRelease(p, t, S) == Min({p.jobs[i].release : i \in {j \in S : p.jobs[j].release > t}})

Dispatch(p, t, order) ==
    LET B == {order[i] : i \in DOMAIN order}
    IN  [start |-> t, end |-> t + p.latency[Shape(p.jobs, B)], kind |-> "dispatch", order |-> order,
         slots |-> SlotsOf(p.jobs, B)]
Wait(t, end, kind) == [start |-> t, end |-> end, kind |-> kind, order |-> <<>>, slots |-> 0]

Batch(e) == {e.order[i] : i \in DOMAIN e.order}

RECURSIVE Gcd(_, _)
Gcd(a, b) == IF b = 0 THEN a ELSE Gcd(b, a % b)

\* A fraction is encoded in lowest terms, numerator first.
Encoded(t) == <<t \div Gcd(Unit, t), Unit \div Gcd(Unit, t)>>

\* A dispatch comes before a wait from the same time.
Key(e) ==
    <<IF e.kind = "dispatch" THEN 0 ELSE 1>> \o Encoded(e.start) \o Encoded(e.end)
        \o <<Len(e.order), e.slots>> \o e.order

LexBefore(a, b) ==
    \E i \in 1..(Len(a) + 1) :
        /\ i <= Len(b) /\ \A j \in 1..(i - 1) : a[j] = b[j]
        /\ i <= Len(a) => a[i] < b[i]

TraceBefore(a, b) ==
    \E i \in 1..(Len(a) + 1) :
        /\ i <= Len(b) /\ \A j \in 1..(i - 1) : a[j] = b[j]
        /\ i <= Len(a) => LexBefore(Key(a[i]), Key(b[i]))

\* A solution is [cost, events].
Better(a, b) ==
    Cheaper(a.cost, b.cost) \/ (a.cost = b.cost /\ TraceBefore(a.events, b.events))

Best(S) == CHOOSE s \in S : \A r \in S : ~Better(r, s)

----------------------------------------------------------------------------
(* The search over (time, unfinished jobs).                                *)

Orders(B) == {o \in [1..Cardinality(B) -> B] : \A i, j \in DOMAIN o : i # j => o[i] # o[j]}

AllDispatches(p, t, S) ==
    {Dispatch(p, t, o) :
        o \in UNION {Orders(B) : B \in Admissible(p.jobs, p.rows, p.slots, Ready(p, t, S))}}

\* Transitions of equal length are taken for the same (OraclesExact).
WrongTransitions(p, t, S) ==
    LET all == AllDispatches(p, t, S)
    IN  {e \in all : \A f \in all : f.end = e.end => ~LexBefore(Key(f), Key(e))}

\* Of the dispatches that lead to the same unfinished jobs at the same time and
\* cost only the first in the canonical order is followed.
Transitions(p, t, S) ==
    LET all       == AllDispatches(p, t, S)
        outcome   == [e \in all |-> <<S \ Batch(e), e.end, Incremental(p, Batch(e), e.end)>>]
    IN  {e \in all : \A f \in all : outcome[f] = outcome[e] => ~LexBefore(Key(f), Key(e))}

OptionalWaits(p, t) == {Wait(t, u, p.points[u]) : u \in {v \in DOMAIN p.points : v > t}}
ForcedWait(p, t, S) == Wait(t, NextRelease(p, t, S), "forced-release")

\* The search follows the transitions, the brute force every dispatch.
Moves(p, t, S, pruned) ==
    IF S = {} THEN {}
    ELSE IF Ready(p, t, S) = {} THEN {ForcedWait(p, t, S)}
    ELSE (IF pruned THEN Transitions(p, t, S) ELSE AllDispatches(p, t, S)) \cup OptionalWaits(p, t)

After(s, e) == <<e.end, s[2] \ Batch(e)>>

RECURSIVE Reachable(_, _, _, _)
Reachable(p, pruned, frontier, seen) ==
    LET next == UNION {{After(s, e) : e \in Moves(p, s[1], s[2], pruned)} : s \in frontier} \ seen
    IN  IF next = {} THEN seen ELSE Reachable(p, pruned, next, seen \cup next)

Solved(p, pruned, memo, s) ==
    LET moves == Moves(p, s[1], s[2], pruned)
        Via(e) == [cost   |-> Plus(Incremental(p, Batch(e), e.end), memo[After(s, e)].cost),
                   events |-> <<e>> \o memo[After(s, e)].events]
    IN  IF moves = {} THEN [cost |-> Zero, events |-> <<>>] ELSE Best({Via(e) : e \in moves})

\* Every move ends later than it starts, so the table is filled from the end.
RECURSIVE Fill(_, _, _, _)
Fill(p, pruned, todo, memo) ==
    LET last  == Max({s[1] : s \in todo})
        layer == {s \in todo : s[1] = last}
    IN  IF todo = {} THEN memo
        ELSE Fill(p, pruned, todo \ layer, memo @@ [s \in layer |-> Solved(p, pruned, memo, s)])

Root(p) == <<0, Ids(p)>>
Memo(p) == LET all == Reachable(p, TRUE, {Root(p)}, {Root(p)})
           IN  Fill(p, TRUE, all, <<>>)
BruteForce(p) == LET all == Reachable(p, FALSE, {Root(p)}, {Root(p)})
                 IN  Fill(p, FALSE, all, <<>>)[Root(p)]

\* The number of events every trace keeps below.
TraceBound(p) == 2 * Cardinality(Ids(p)) + Cardinality(DOMAIN p.points)

----------------------------------------------------------------------------
(* The replay of a trace, and the heuristic without waits.                 *)

\* What the replay requires of the next event.
Replays(p, t, S, e) ==
    /\ S # {} /\ e.start = t
    /\ IF e.kind # "dispatch"
       THEN IF Ready(p, t, S) = {} THEN e = ForcedWait(p, t, S)
            ELSE e.end \in DOMAIN p.points /\ e.kind = p.points[e.end]
       ELSE /\ Batch(e) \subseteq Ready(p, t, S) /\ Cardinality(Batch(e)) = Len(e.order)
            /\ Len(e.order) <= p.rows /\ e.slots = SlotsOf(p.jobs, Batch(e)) /\ e.slots <= p.slots
            /\ e.end = t + p.latency[Shape(p.jobs, Batch(e))]

\* The whole replay; what completes when decides the objective.
Replayed(p, events) ==
    LET Step(r, e) == [ok   |-> r.ok /\ Replays(p, r.at, r.left, e),
                       at   |-> e.end, left |-> r.left \ Batch(e),
                       done |-> [i \in Batch(e) |-> e.end] @@ r.done]
        end == FoldLeft(Step, [ok |-> TRUE, at |-> 0, left |-> Ids(p), done |-> <<>>], events)
    IN  [ok |-> end.ok /\ end.left = {}, cost |-> Score(p, end.done)]

\* Earliest deadline first, each row that still fits.
Urgent(p, S, i, j) ==
    p.jobs[i].deadline < p.jobs[j].deadline \/ (p.jobs[i].deadline = p.jobs[j].deadline /\ i < j)

RECURSIVE Admit(_, _, _)
Admit(p, S, chosen) ==
    LET first == CHOOSE i \in S : \A j \in S \ {i} : Urgent(p, S, i, j)
        fits  == /\ Len(chosen) < p.rows
                 /\ SlotsOf(p.jobs, {chosen[k] : k \in DOMAIN chosen} \cup {first}) <= p.slots
    IN  IF S = {} THEN chosen
        ELSE Admit(p, S \ {first}, IF fits THEN Append(chosen, first) ELSE chosen)

SelectedReady(p, t, S) == Admit(p, Ready(p, t, S), <<>>)

RECURSIVE WorkConservingEdf(_, _, _)
WorkConservingEdf(p, t, S) ==
    LET e == IF Ready(p, t, S) = {} THEN ForcedWait(p, t, S) ELSE Dispatch(p, t, SelectedReady(p, t, S))
    IN  IF S = {} THEN <<>> ELSE <<e>> \o WorkConservingEdf(p, e.end, S \ Batch(e))

=============================================================================
