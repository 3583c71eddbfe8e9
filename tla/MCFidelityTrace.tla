--------------------------- MODULE MCFidelityTrace ---------------------------
(* FidelityTrace on small traces of three requests.                        *)
EXTENDS FidelityTrace

LOCAL Row(arrival, prompt, priority, output, width, group) ==
    [arrival |-> arrival, prompt |-> prompt, priority |-> priority, output |-> output,
     width |-> width, group |-> group]

MCTraces ==
    {\* Together, with one of higher priority; the first two share a class.
     <<Row(0, 1, 0, 1, 2, "g"), Row(0, 1, 0, 2, 2, "g"), Row(0, 1, 1, 3, 2, "r3")>>,
     \* The last to be numbered arrives first, the others while it is verified.
     <<Row(1, 0, 0, 2, 2, "r1"), Row(1, 2, 1, 2, 1, "r2"), Row(0, 1, 0, 1, 1, "r3")>>,
     \* One after the other, with an idle target between.
     <<Row(0, 1, 0, 2, 2, "g"), Row(1, 0, 0, 2, 3, "r2"), Row(9, 0, 2, 1, 1, "g")>>}

\* Free prefill, as under the reference profile, and a prefill that is slower
\* or faster than the target.
MCCosts ==
    {[prefill |-> 0, prefillToken |-> 0, target |-> 2, row |-> 0, token |-> 0, slot |-> 1],
     [prefill |-> 2, prefillToken |-> 2, target |-> 1, row |-> 1, token |-> 0, slot |-> 0],
     [prefill |-> 0, prefillToken |-> 1, target |-> 1, row |-> 0, token |-> 1, slot |-> 1]}

MCClasses == {<<1, 2, 3>>, <<3>>, <<2, 1>>}

=============================================================================
