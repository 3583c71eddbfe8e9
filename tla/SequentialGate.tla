---------------------------- MODULE SequentialGate ----------------------------
(***************************************************************************)
(* The stopping rule of fissionspec/experiment_design.py: blocks are       *)
(* collected in step for a family of endpoints, and at every registered    *)
(* look each endpoint has an interval for its effect.  The estimator is    *)
(* abstract: any interval that contains the effect, which is the event     *)
(* whose probability the confidence level of the family bounds.            *)
(***************************************************************************)
EXTENDS Integers, FiniteSets, FiniteSetsExt

CONSTANTS
    Hypotheses,                                \* the endpoints of the family
    MinimumBlocks, MaximumBlocks, LookEvery,
    Bound,                                     \* improvements lie in -Bound..Bound
    Worthwhile,                                \* minimum worthwhile improvement
    TargetHalfWidth,
    Effects, Means, Radii,                     \* what the endpoints and the estimator may be
    RunsPerBlock, ReplayCap                    \* replays of one block; those of the campaign

\* Assumed of the constants: what the declaration of the gate validates.
GateDeclaration ==
    /\ {MinimumBlocks, MaximumBlocks, LookEvery, RunsPerBlock, Bound} \subseteq Nat \ {0}
    /\ Effects \subseteq Int /\ Means \subseteq Int /\ Radii \subseteq Int /\ ReplayCap \in Nat
    /\ Hypotheses # {} /\ MinimumBlocks <= MaximumBlocks
    /\ MinimumBlocks % LookEvery = 0 /\ MaximumBlocks % LookEvery = 0
    /\ Worthwhile \in 1..Bound /\ TargetHalfWidth \in 1..Bound
    /\ RunsPerBlock * MaximumBlocks <= ReplayCap

VARIABLES
    effect,          \* the unknown effect of every endpoint
    blocks,          \* completed blocks
    endpoints,       \* the last decision of every endpoint
    family           \* the last decision of the family

vars == <<effect, blocks, endpoints, family>>

ScheduledLooks == {n \in MinimumBlocks..MaximumBlocks : (n - MinimumBlocks) % LookEvery = 0}

----------------------------------------------------------------------------
(* One endpoint.                                                           *)

Interval(mean, radius) ==
    LET lower == Max({-Bound, mean - radius})
        upper == Min({Bound, mean + radius})
    IN  [lower |-> lower, upper |-> upper, half |-> Max({mean - lower, upper - mean})]

IntervalsOf(x) == {i \in {Interval(m, r) : m \in Means, r \in Radii} : i.lower <= x /\ x <= i.upper}

GateStatus(i, n) ==
    CASE i.lower > 0 /\ i.upper < Worthwhile                      -> "positive_below_mwi"
      [] ~(i.lower > 0) /\ i.upper < Worthwhile                   -> "futility"
      [] i.lower > Worthwhile                                     -> "efficacy"
      [] OTHER -> IF i.half <= TargetHalfWidth THEN "precise_inconclusive"
                  ELSE IF n = MaximumBlocks THEN "maximum_reached" ELSE "continue"

----------------------------------------------------------------------------
(* The family.                                                             *)

Terminal(status) == status \notin {"not_a_look", "continue"}
PracticallyFutile == {"futility", "positive_below_mwi"}

\* One endpoint that crosses efficacy stops the family (VerdictsTrue).
WrongFamilyStatus(s, n) ==
    IF \E h \in Hypotheses : s[h] = "efficacy" THEN "efficacy"
    ELSE IF \E h \in Hypotheses : s[h] \in PracticallyFutile THEN "futility"
    ELSE IF n = MaximumBlocks THEN "maximum_reached" ELSE "continue"

FamilyStatus(s, n) ==
    IF \E h \in Hypotheses : s[h] \in PracticallyFutile THEN "futility"
    ELSE IF \A h \in Hypotheses : s[h] = "efficacy" THEN "efficacy"
    ELSE IF n = MaximumBlocks THEN "maximum_reached"
    ELSE IF \A h \in Hypotheses : Terminal(s[h]) THEN "precise_inconclusive"
    ELSE "continue"

----------------------------------------------------------------------------
(* The campaign: one more block of every endpoint, then the gate.          *)

Init ==
    /\ effect \in [Hypotheses -> Effects]
    /\ blocks = 0
    /\ endpoints = [h \in Hypotheses |-> "not_a_look"] /\ family = "not_a_look"

CollectBlock ==
    /\ ~Terminal(family)
    /\ blocks + 1 \notin ScheduledLooks
    /\ blocks' = blocks + 1
    /\ endpoints' = [h \in Hypotheses |-> "not_a_look"] /\ family' = "not_a_look"
    /\ UNCHANGED effect

Look ==
    /\ ~Terminal(family)
    /\ blocks + 1 \in ScheduledLooks
    /\ blocks' = blocks + 1
    /\ LET possible == [h \in Hypotheses |-> {GateStatus(i, blocks + 1) : i \in IntervalsOf(effect[h])}]
       IN  \E statuses \in [Hypotheses -> UNION {possible[h] : h \in Hypotheses}] :
              /\ \A h \in Hypotheses : statuses[h] \in possible[h]
              /\ endpoints' = statuses
              /\ family' = FamilyStatus(statuses, blocks + 1)
    /\ UNCHANGED effect

Next == CollectBlock \/ Look

Spec == Init /\ [][Next]_vars

----------------------------------------------------------------------------
(* Properties.                                                             *)

\* While the intervals cover, no verdict of the family is wrong, however the
\* endpoints disagree and whatever the looks before said; and the campaign
\* stops at a registered look within its registered spend, never later.
VerdictsTrue ==
    /\ family = "efficacy" => \A h \in Hypotheses : effect[h] > Worthwhile
    /\ family = "futility" => \E h \in Hypotheses : effect[h] < Worthwhile
    /\ Terminal(family) => blocks \in ScheduledLooks
    /\ blocks = MaximumBlocks => Terminal(family)
    /\ blocks * RunsPerBlock <= ReplayCap

=============================================================================
