------------------------------ MODULE EventQueue ------------------------------
(***************************************************************************)
(* The event heaps of fissionspec/simulator.py and fissionspec/baselines.py *)
(* as sequences.  A heap gives its events by (time, sequence number), so a *)
(* new event goes behind all that are due no later.                        *)
(***************************************************************************)
EXTENDS Integers, Sequences, FiniteSets, SequencesExt, TLC

NoTime == -1
Never == 1000000

Schedule(events, at, kind, load) ==
    InsertAt(events, Cardinality({i \in DOMAIN events : events[i].at <= at}) + 1,
             [at |-> at, kind |-> kind, load |-> load])

NextDueIn(events) == IF events = <<>> THEN Never ELSE Head(events).at

\* a before b by the first component in which their keys differ.
KeyBefore(a, b) == \E i \in DOMAIN a : a[i] < b[i] /\ \A j \in 1..(i - 1) : a[j] = b[j]

Take(s, n) == SubSeq(s, 1, IF n < Len(s) THEN n ELSE Len(s))

=============================================================================
