------------------------- MODULE MCIndependentParts -------------------------
EXTENDS ReferenceOracles

\* The admission controller: four requests, the first two there at the start.
MCProfile == <<[units |-> 1, latency |-> 2], [units |-> 3, latency |-> 3]>>

Item(id, class, arrival, ready, deadline, units, priority) ==
    [id |-> id, class |-> class, arrival |-> arrival, ready |-> ready,
     deadline |-> deadline, units |-> units, priority |-> priority]

MCArrivals ==
    {<<[at |-> 0, known |-> FALSE,
        items |-> <<Item(1, "recovery", 0, 0, d1, 1, 0), Item(2, "ready", 0, 0, 8, 1, p2)>>],
       [at |-> t, known |-> k, items |-> <<Item(3, "ready", t, t + r, d3, u3, p3)>>],
       [at |-> t2, known |-> TRUE, items |-> <<Item(4, "recovery", 2, t2, d4, 2, 1)>>]>> :
        d1 \in {3, 4, 6}, p2 \in {0, 2}, t \in {1, 2, 3}, t2 \in {4, 6}, k \in BOOLEAN, r \in {0, 1},
        d3 \in {5, 7, 10}, u3 \in {1, 2, 5}, p3 \in {0, 3}, d4 \in {7, 12}}

\* The evidence bundle: a sequence in the order the files are named.
MCFiles == <<"comparisons", "design", "environment">>

\* The public replay: the registered trace is one of the first two; the third
\* is out of order, the last has a row without a prompt.  Texts on a whole
\* second are short or long.
Raw(digest, times, prompts) ==
    [digest |-> digest,
     rows |-> [i \in DOMAIN times |->
                  [stamp |-> [at |-> times[i][1], short |-> times[i][2]], prompt |-> prompts[i], output |-> 1]]]

MCRawTraces ==
    {Raw(7, <<<<1, FALSE>>, <<3, FALSE>>, <<5, FALSE>>, <<5, FALSE>>, <<6, TRUE>>, <<8, FALSE>>>>, <<1, 2, 1, 2, 1, 1>>),
     Raw(4, <<<<0, TRUE>>, <<2, TRUE>>, <<2, FALSE>>, <<3, FALSE>>, <<6, TRUE>>>>, <<1, 2, 1, 2, 1>>),
     Raw(5, <<<<0, TRUE>>, <<5, FALSE>>, <<1, FALSE>>, <<6, FALSE>>, <<7, FALSE>>>>, <<1, 2, 1, 2, 2>>),
     Raw(6, <<<<0, TRUE>>, <<1, FALSE>>, <<9, FALSE>>>>, <<1, 2, 0>>)}

\* Token semantics: a sharp target, one draft that agrees now and then, one that never does.
Target1 ==
    (<<>> :> <<1, 3, 2>>) @@ (<<1>> :> <<2, 0, 1>>) @@ (<<2>> :> <<1, 1, 2>>) @@ (<<1, 2>> :> <<1, 0, 0>>)
Draft1 == (<<>> :> <<3, 1, 0>>) @@ (<<1>> :> <<1, 1, 0>>) @@ (<<2>> :> <<0, 1, 3>>)
Draft2 == (<<>> :> <<1, 1, 2>>) @@ (<<3>> :> <<0, 4, 0>>)
MCPrompts == {<<>>}
MCPairs == {[target |-> Target1, draft |-> d] : d \in {Draft1, Draft2}}

\* The campaign's own specifications, a slow head miss in packed rows, and two
\* rows whose deadline cuts a window short by the guard.
MCScenarios ==
    CampaignSpecs
        \cup {[First("head-miss") EXCEPT
                 !.arrival = Synchronized, !.eta = 10, !.physical = "packed", !.capacity = c] :
                     c \in {"tight", "wide"}}
        \cup {[First("canceled-tail") EXCEPT
                 !.arrival = Synchronized, !.physical = "packed", !.capacity = "wide"]}
=============================================================================
