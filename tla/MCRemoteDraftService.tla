------------------------ MODULE MCRemoteDraftService ------------------------
(* RemoteDraftService on a small instance: at most one job arrives late,   *)
(* or has another kind, or another priority.  Batching does not look at    *)
(* priorities, and the priority policy does not look at kinds.             *)
EXTENDS RemoteDraftService

\* Every job has value a, but for at most one, which has b.
OneDiffers(a, b) == {[j \in Jobs |-> IF j = i THEN b ELSE a] : i \in Jobs \cup {-1}}

Together == [j \in Jobs |-> 0]

KindsOf == {[j \in Jobs |-> [kind |-> k[j], priority |-> 0]] : k \in OneDiffers("precompute", "recovery")}
PrioritiesOf == {[j \in Jobs |-> [kind |-> "recovery", priority |-> p[j]]] : p \in OneDiffers(0, 1)}

\* Workers start idle; or, if all jobs arrive together, left busy by an earlier run.
Idling == [w \in Workers |-> 0]
LeftBusy == [w \in Workers |-> 2]

SmallInputs ==
    [policy : {"continuous-batching"}, arrival : OneDiffers(0, 1), free : {Idling}, job : KindsOf]
    \cup [policy : {"continuous-batching"}, arrival : {Together}, free : {LeftBusy}, job : KindsOf]
    \cup [policy : {"priority"}, arrival : OneDiffers(0, 1), free : {Idling}, job : PrioritiesOf]

=============================================================================
