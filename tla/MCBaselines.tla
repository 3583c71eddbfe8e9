----------------------------- MODULE MCBaselines -----------------------------
(* Baselines on three requests of two or three steps, with two background   *)
(* draft jobs, under the four schedulers.                                   *)
EXTENDS Baselines

Row(arrival, deadline, prompt, widths) ==
    [arrival |-> arrival, deadline |-> deadline, prompt |-> prompt, widths |-> widths]

SmallTraces ==
    {[requests |-> <<Row(0, 30, 1, <<2, 1>>), Row(0, 20, 1, <<2, 1, 1>>), Row(3, 12, 2, <<1, 1>>)>>,
      background |-> <<[release |-> 2, dur |-> 3], [release |-> 2, dur |-> 2]>>],
     [requests |-> <<Row(1, 25, 1, <<2, 1, 2>>), Row(0, 40, 1, <<1, 2, 1>>), Row(1, 14, 1, <<2, 1>>)>>,
      background |-> <<[release |-> 0, dur |-> 4], [release |-> 5, dur |-> 1], [release |-> 6, dur |-> 1]>>]}

Kinds ==
    {[kind |-> "fifo", burst |-> 0], [kind |-> "exspec", burst |-> 0],
     [kind |-> "myopic", burst |-> 0], [kind |-> "spectre", burst |-> 1], [kind |-> "spectre", burst |-> 2]}

\* Parallel mode pays up to one rollback in two rows.
SmallSchedulers ==
    {[kind |-> k.kind, burst |-> k.burst, window |-> 3, group |-> 2, base |-> 1, slot |-> 1,
      aging |-> 1, starve |-> 4, coalesce |-> 2, ordinary |-> 6, parallel |-> 4, penalty |-> 4,
      compress |-> 100] : k \in Kinds}

SmallCosts ==
    [hardware |-> [target |-> LinearCurve(3, 1), draft |-> LinearCurve(0, 1),
                   recovery |-> LinearCurve(0, 1), slot |-> 0, bucketed |-> FALSE],
     context |-> 1, token |-> 0, alignBase |-> 1, alignUnit |-> 1]

=============================================================================
