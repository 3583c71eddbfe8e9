----------------------------- MODULE MCSimulator -----------------------------
(* Simulator on three requests, under every policy, with a slow and a fast   *)
(* draft engine.                                                             *)
EXTENDS Simulator

Request(arrival, output, width, slo, deadline, certain) ==
    [arrival |-> arrival, output |-> output, width |-> width,
     slo |-> slo, deadline |-> deadline, certain |-> certain]

\* Two at once and one later; tight and loose deadlines; one row the target
\* always accepts.
SmallWorkloads ==
    {<<Request(0, 3, 2, 9, 40, FALSE), Request(0, 3, 2, 30, 40, FALSE), Request(4, 2, 2, 5, 16, FALSE)>>,
     <<Request(0, 3, 2, 9, 12, TRUE), Request(1, 3, 2, 7, 30, FALSE), Request(2, 2, 1, 9, 30, FALSE)>>,
     <<Request(0, 3, 2, 7, 40, FALSE), Request(0, 4, 2, 7, 22, FALSE), Request(9, 2, 2, 9, 40, FALSE)>>}

\* A slow draft engine, and a target on which batching pays.
SlowDraft == [target |-> LinearCurve(1, 1), draft |-> <<<<1, 3>>>>, recovery |-> LinearCurve(3, 1), slot |-> 1, bucketed |-> FALSE]
FlatTarget == [target |-> <<<<1, 5>>, <<2, 6>>, <<4, 10>>>>, draft |-> LinearCurve(0, 1),
               recovery |-> LinearCurve(0, 2), slot |-> 0, bucketed |-> FALSE]
SmallProfiles == {SlowDraft, FlatTarget}

AllPolicies ==
    {[kind |-> k, window |-> 3, committed |-> NoTime] :
        k \in {"saguaro", "spectre", "immediate", "fixed", "horizon", "oracle"}}

=============================================================================
