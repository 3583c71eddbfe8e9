---------------------------- MODULE OracleCampaign ----------------------------
(***************************************************************************)
(* The campaign of experiments/run_oracle_campaign.py: serving scenarios   *)
(* compiled to exact problems, solved and verified, and every dispatch     *)
(* policy evaluated on them, event by event.  The candidate "verifier"     *)
(* takes every event a replay accepts: the schedules a policy could give.  *)
(* Times are in units of 1/40, which all constants of the campaign divide. *)
(***************************************************************************)
EXTENDS GeneralOracle, SchedulingPolicies

CONSTANTS
    Scenarios,     \* [arrival, outcome, eta, jitter, physical, capacity]
    MaxWaits, Guards

VARIABLE case

Synchronized == <<0, 0, 0>>
Staggered == <<0, 20, 40>>
RecoveryWave == <<0, 10, 60>>
Removals == {"canceled-tail", "terminal-failure-middle"}

Factors(outcomes, etas, jitters) ==
    [arrival : {Synchronized, Staggered, RecoveryWave}, outcome : outcomes, eta : etas,
     jitter : jitters, physical : {"packed", "graph"}, capacity : {"tight", "wide"}]

FullScenarioSpecs ==
    Factors({"head-miss", "tail-miss", "double-miss", "retry-once"}, {10, 40}, {0, 10})
        \cup Factors(Removals, {0}, {0})

\* The small mode: the first scenario of every outcome by name, and two more.
First(o) ==
    [arrival |-> RecoveryWave, outcome |-> o, eta |-> IF o \in Removals THEN 0 ELSE 40, jitter |-> 0,
     physical |-> "graph", capacity |-> "tight"]
CampaignSpecs ==
    {First(x.outcome) : x \in FullScenarioSpecs}
        \cup {[First("double-miss") EXCEPT !.capacity = "wide"],
              [First("retry-once") EXCEPT !.arrival = Staggered, !.jitter = 10]}

\* Assumed of the constants.
CampaignConstants ==
    /\ Unit = 40 /\ Scenarios \subseteq FullScenarioSpecs
    /\ MaxWaits \subseteq Nat /\ Guards \subseteq Nat

LatencyDuration(mode, rows, slots) ==
    20 + 10 * rows + (IF mode = "packed" THEN 4 * slots ELSE 5 * PowerOfTwo(slots))

\* Which rows are late, and which are gone before the schedule starts.
Delay(x) ==
    CASE x.outcome = "head-miss" -> (1 :> x.eta + x.jitter)
      [] x.outcome = "tail-miss" -> (3 :> x.eta + x.jitter)
      [] x.outcome = "double-miss" -> (1 :> x.eta) @@ (3 :> x.eta + x.jitter)
      [] x.outcome = "retry-once" -> (2 :> 2 * x.eta + x.jitter)
      [] OTHER -> <<>>

Active(x) == {1, 2, 3} \ (CASE x.outcome = "canceled-tail" -> {3}
                            [] x.outcome = "terminal-failure-middle" -> {2}
                            [] OTHER -> {})

ActiveJobs(x) ==
    [i \in Active(x) |->
        [release  |-> x.arrival[i] + (IF i \in DOMAIN Delay(x) THEN Delay(x)[i] ELSE 0),
         width    |-> i,
         deadline |-> <<90, 150, 180>>[i],
         weight   |-> <<3, 1, 2>>[i]]]

RowLimit(x) == IF x.capacity = "tight" THEN 2 ELSE 3
SlotLimit(x) == IF x.capacity = "tight" THEN 4 ELSE 6

\* Every time a policy may wait for is a decision point of the problem.
Grid(jobs, subsets, latency) ==
    {jobs[i].release + w : i \in DOMAIN jobs, w \in MaxWaits}
    \cup {t \in UNION {{jobs[i].deadline - g - latency[Shape(jobs, B)] : i \in B, g \in Guards} :
                          B \in subsets} : t >= 0}

CompileProblem(x) ==
    LET jobs    == ActiveJobs(x)
        subsets == Admissible(jobs, RowLimit(x), SlotLimit(x), DOMAIN jobs)
        latency == [s \in {Shape(jobs, B) : B \in subsets} |-> LatencyDuration(x.physical, s[1], s[2])]
    IN  [jobs |-> jobs, rows |-> RowLimit(x), slots |-> SlotLimit(x), latency |-> latency,
         points |-> DecisionPoints(jobs, RowLimit(x), SlotLimit(x), latency, Grid(jobs, subsets, latency))]

\* run_campaign solves every problem once.
Problems == [x \in Scenarios |-> CompileProblem(x)]
Tables == [x \in Scenarios |-> Memo(Problems[x])]
Certificate(x) == Tables[x][Root(Problems[x])]

----------------------------------------------------------------------------
(* The evaluation of one candidate on one scenario.                        *)

Policies == {"saguaro", "spectre", "immediate", "fixed", "horizon"}

Problem == Problems[case.scenario]
CampaignProfile == [target |-> LinearCurve(20, 10), bucketed |-> case.scenario.physical # "packed",
                    slot |-> IF case.scenario.physical = "packed" THEN 4 ELSE 5]
CandidatePolicy == [kind |-> case.candidate, window |-> case.wait, committed |-> NoTime]

\* The next release and the rows of its cohort that would be admitted.
FutureAdmission(p, t, S) ==
    LET later == {i \in S : p.jobs[i].release > t}
        at    == NextRelease(p, t, S)
    IN  IF later = {} THEN [at |-> Never, rows |-> <<>>]
        ELSE [at |-> at, rows |-> SelectedReady(p, at, {i \in later : p.jobs[i].release = at})]

Guarded(p, rows) ==
    [k \in DOMAIN rows |-> [slots |-> p.jobs[rows[k]].width, deadline |-> p.jobs[rows[k]].deadline - case.guard]]

\* Only where both cohorts fit one launch may the policy count on fusing them.
PolicyContext(p, t, S) ==
    LET selected == SelectedReady(p, t, S)
        future   == FutureAdmission(p, t, S)
        fits     == /\ Len(selected) + Len(future.rows) <= p.rows
                    /\ SlotsOf(p.jobs, ToSet(selected) \cup ToSet(future.rows)) <= p.slots
    IN  [now |-> t, count |-> Len(selected), capacity |-> IF fits THEN p.rows ELSE Len(selected),
         oldest |-> Min({p.jobs[i].release : i \in ToSet(selected)}),
         rows |-> Guarded(p, selected), next |-> future.at, future |-> Guarded(p, future.rows)]

CaseInit ==
    \E x \in Scenarios, w \in MaxWaits, g \in Guards, c \in Policies \cup {"verifier"} :
        /\ c \notin Policies => w = 0 /\ g = 0
        /\ case = [scenario |-> x, wait |-> w, guard |-> g, candidate |-> c,
                   now |-> 0, left |-> Ids(Problems[x]), cost |-> Zero, count |-> 0,
                   events |-> <<>>, error |-> "none"]

Evaluating == case.left # {} /\ case.error = "none"

\* Only policies leave a trace: the verifier's schedules differ by their cost.
Perform(e) ==
    case' = [case EXCEPT !.now = e.end, !.left = @ \ Batch(e), !.count = @ + 1,
                         !.cost = Plus(@, Incremental(Problem, Batch(e), e.end)),
                         !.events = IF case.candidate = "verifier" THEN @ ELSE Append(@, e)]

AwaitRelease ==
    /\ Evaluating
    /\ Ready(Problem, case.now, case.left) = {}
    /\ Perform(ForcedWait(Problem, case.now, case.left))

\* The verifier enumerates every order and every wait.
Enumerate ==
    /\ Evaluating /\ case.candidate = "verifier"
    /\ Ready(Problem, case.now, case.left) # {}
    /\ \E e \in Moves(Problem, case.now, case.left, FALSE) : Perform(e)

\* A wait must be one of the oracle's, or the evaluation fails.
ApplyPolicy ==
    /\ Evaluating /\ case.candidate \in Policies
    /\ Ready(Problem, case.now, case.left) # {}
    /\ LET context == PolicyContext(Problem, case.now, case.left)
       IN  IF ~ContextValid(context) THEN case' = [case EXCEPT !.error = "invalid context"]
           ELSE \E at \in DispatchTimes(CampaignProfile, CandidatePolicy, context) :
                  IF at < case.now THEN case' = [case EXCEPT !.error = "past dispatch"]
                  ELSE IF at = case.now
                       THEN Perform(Dispatch(Problem, case.now, SelectedReady(Problem, case.now, case.left)))
                  ELSE IF at \notin DOMAIN Problem.points
                       THEN case' = [case EXCEPT !.error = "wait outside the action space"]
                  ELSE Perform(Wait(case.now, at, Problem.points[at]))

CaseNext == AwaitRelease \/ Enumerate \/ ApplyPolicy

----------------------------------------------------------------------------
(* Properties.                                                             *)

\* The scenarios compile to valid and distinct problems.
Compiled(p) == ValidProblem(p) /\ \A x \in Scenarios \ {case.scenario} : Problems[x] # p

\* More capacity never costs more.
Monotone(best) ==
    case.scenario.capacity = "wide" =>
        \A x \in Scenarios : x = [case.scenario EXCEPT !.capacity = "tight"] =>
            ~Cheaper(Certificate(x).cost, best.cost)

\* The certificate is the optimum: its trace replays to its objective, the
\* search without dominance finds the same trace, every state a schedule can
\* reach was searched and none can end below it, traces keep their bound, and
\* more capacity never costs more.
Certified(p, best) ==
    /\ case.candidate = "verifier" /\ case.now = 0 /\ case.left = Ids(p) =>
          BruteForce(p) = best /\ Replayed(p, best.events) = [ok |-> TRUE, cost |-> best.cost]
    /\ case.count <= TraceBound(p) /\ Monotone(best)

SearchedBelow(table, best) ==
    /\ <<case.now, case.left>> \in DOMAIN table
    /\ ~Cheaper(Plus(case.cost, table[<<case.now, case.left>>].cost), best.cost)

CertificatesExact ==
    /\ Certified(Problem, Certificate(case.scenario))
    /\ SearchedBelow(Tables[case.scenario], Certificate(case.scenario))

\* Every policy can be compared with the optimum: its context is valid, it
\* waits only for times the oracle considers, its trace replays to its cost,
\* and the three policies that never wait give the trace of the heuristic.
Comparable(p) ==
    /\ case.error = "none" /\ Compiled(p)
    /\ case.candidate # "verifier" /\ case.left = {} =>
          /\ Replayed(p, case.events) = [ok |-> TRUE, cost |-> case.cost]
          /\ case.candidate \in {"saguaro", "spectre", "immediate"} =>
                case.events = WorkConservingEdf(p, 0, Ids(p))

PoliciesInActionSpace == Comparable(Problem)

=============================================================================
