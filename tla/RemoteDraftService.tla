------------------------- MODULE RemoteDraftService -------------------------
(***************************************************************************)
(* One run of RemoteDraftService (fissionspec/fidelity.py): attempts of    *)
(* jobs cross the network (source), queue outside a bounded queue          *)
(* (blocked) and in it (waiting), gather in the batch a worker is forming  *)
(* (formations), and are served or fail and are sent again.                *)
(*                                                                         *)
(* The program is one thread that repeats receive_arrivals,                *)
(* fill_formations and dispatch_idle_workers until a pass changes nothing, *)
(* and then moves its clock to the next event.  pc says where it is; the   *)
(* two loops inside a pass take their worker list beforehand, so the rest  *)
(* of it is state.  What the random generator and the cost surface decide  *)
(* (service and network times, failures) is chosen freely.                 *)
(***************************************************************************)
EXTENDS Integers, Sequences, FiniteSets, FiniteSetsExt

CONSTANTS
    Jobs, Workers,  \* job and worker identifiers, in their order
    Inputs,         \* [policy, job, arrival, free]: the queue policy, the kind
                    \* and priority of each job, when first attempts arrive and
                    \* when workers become available
    Services,       \* durations of a batch
    RetryDelays,    \* response, backoff and request together
    MaxBatch, Window, Capacity, MaxRetries

ASSUME ServiceAssumption ==
    /\ Jobs \subseteq Nat /\ Jobs # {} /\ IsFiniteSet(Jobs)
    /\ Workers \subseteq Nat /\ Workers # {} /\ IsFiniteSet(Workers)
    /\ Services \subseteq Nat /\ RetryDelays \subseteq Nat
    /\ MaxBatch \in Nat \ {0} /\ Capacity \in Nat \ {0}
    /\ Window \in Nat /\ MaxRetries \in Nat

Kinds == {"precompute", "recovery"}

ASSUME InputsAssumption ==
    \A i \in Inputs :
        /\ i.policy \in {"continuous-batching", "priority"}
        /\ i.job \in [Jobs -> [kind : Kinds, priority : Int]]
        /\ i.arrival \in [Jobs -> Nat] /\ i.free \in [Workers -> Nat]

VARIABLES
    policy,         \* queue_policy
    job,            \* job[j]: its kind and priority
    source, blocked,    \* attempts [job, attempt, ready]
    waiting,        \* the bounded queue: [attempt, admitted]
    formations,     \* worker -> [kind, deadline, selected]
    free,           \* worker_available_ms
    records,        \* what was served, one record an attempt
    batch,          \* batch_id, the number of batches started
    clock,
    pc,             \* where the thread is
    fillTodo, idleTodo, \* the workers left in the two loops
    before          \* the progress measure when the pass began

inputs == <<policy, job>>
vars == <<policy, job, source, blocked, waiting, formations, free, records, batch,
          clock, pc, fillTodo, idleTodo, before>>

-----------------------------------------------------------------------------
(* Orders. *)

Before(k, l) ==
    \E i \in DOMAIN k : k[i] < l[i] /\ \A h \in 1 .. i - 1 : k[h] = l[h]

AttemptKey(a) == <<a.ready, a.job, a.attempt>>

WaitingKey(w) ==
    <<IF policy = "priority" THEN -job[w.attempt.job].priority ELSE 0>>
        \o AttemptKey(w.attempt)

First(items) ==
    CHOOSE w \in items : \A x \in items \ {w} : Before(WaitingKey(w), WaitingKey(x))

-----------------------------------------------------------------------------
(* The parts of a pass. *)

\* The n attempts of least key.
Earliest(n, attempts) ==
    {a \in attempts :
        Cardinality({b \in attempts : Before(AttemptKey(b), AttemptKey(a))}) < n}

\* The place just freed is not offered (Termination).
WrongRoom(items) == Capacity - Cardinality(items) - 1

Room(items) == Capacity - Cardinality(items)

\* admit_blocked with `outside` blocked and `items` waiting.
AdmitBlocked(outside, items) ==
    LET admitted == Earliest(Room(items), outside)
    IN  /\ blocked' = outside \ admitted
        /\ waiting' = items \cup {[attempt |-> a, admitted |-> clock] : a \in admitted}

IsTerminal(a) == a.attempt >= MaxRetries

\* Attempts that failed for good are sent again too (ServiceAudit).
WrongRetried(failed) == failed

Retried(failed) == {a \in failed : ~IsTerminal(a)}

BusyUntil(service) == clock + service

\* start_batch
StartBatch(w, selected) ==
    \E service \in Services, failed \in SUBSET {x.attempt : x \in selected} :
    \E delay \in [Retried(failed) -> RetryDelays] :
        LET end == clock + service
        IN  /\ batch' = batch + 1
            /\ free' = [free EXCEPT ![w] = BusyUntil(service)]
            /\ records' = records \cup
                  {[job |-> x.attempt.job, attempt |-> x.attempt.attempt,
                    ready |-> x.attempt.ready, admitted |-> x.admitted,
                    worker |-> w, batch |-> batch + 1, start |-> clock, end |-> end,
                    result |-> IF x.attempt \notin failed THEN "success"
                               ELSE IF IsTerminal(x.attempt) THEN "terminal" ELSE "retry"] :
                   x \in selected}
            /\ source' = source \cup
                  {[job |-> a.job, attempt |-> a.attempt + 1, ready |-> end + delay[a]] :
                   a \in Retried(failed)}

\* What the thread compares to see whether a pass changed anything.
Progress ==
    <<Cardinality(source), Cardinality(blocked), Cardinality(waiting),
      Cardinality(DOMAIN formations), Cardinality(records), batch, free>>

WorkLeft == source # {} \/ blocked # {} \/ waiting # {} \/ DOMAIN formations # {}

-----------------------------------------------------------------------------
Init ==
    /\ \E i \in Inputs :
          /\ policy = i.policy
          /\ job = i.job
          /\ free = i.free
          /\ source = {[job |-> j, attempt |-> 0, ready |-> i.arrival[j]] : j \in Jobs}
    /\ blocked = {} /\ waiting = {} /\ formations = [w \in {} |-> 0]
    /\ records = {} /\ batch = 0 /\ clock = 0
    /\ pc = "receive" /\ fillTodo = {} /\ idleTodo = {} /\ before = <<>>

\* receive_arrivals, and the call of fill_formations.
ReceiveArrivals ==
    LET arrived == {a \in source : a.ready <= clock}
    IN  /\ pc = "receive"
        /\ before' = Progress
        /\ source' = source \ arrived
        /\ AdmitBlocked(blocked \cup arrived, waiting)
        /\ pc' = "fill"
        /\ fillTodo' = DOMAIN formations
        /\ UNCHANGED <<inputs, formations, free, records, batch, clock, idleTodo>>

\* The loop of fill_formations is at worker w.
Filling(w) ==
    /\ pc \in {"fill", "refill"} /\ w \in fillTodo
    /\ \A v \in fillTodo \ {w} :
          Before(<<formations[w].deadline, w>>, <<formations[v].deadline, v>>)

Compatible(w) == {x \in waiting : job[x.attempt.job].kind = formations[w].kind}

IsFull(w) == Cardinality(formations[w].selected) >= MaxBatch

\* One turn of the inner loop of fill_formations.
TakeCompatible(w) ==
    LET x == First(Compatible(w))
    IN  /\ Filling(w)
        /\ ~IsFull(w) /\ Compatible(w) # {}
        /\ formations' = [formations EXCEPT ![w].selected = @ \cup {x}]
        /\ AdmitBlocked(blocked, waiting \ {x})
        /\ UNCHANGED <<inputs, source, free, records, batch, clock, pc,
                       fillTodo, idleTodo, before>>

MustStart(w) == IsFull(w) \/ formations[w].deadline <= clock

LeaveFormation(w) ==
    /\ Filling(w)
    /\ IsFull(w) \/ Compatible(w) = {}
    /\ fillTodo' = fillTodo \ {w}
    /\ \/ /\ MustStart(w)
          /\ StartBatch(w, formations[w].selected)
          /\ formations' = [v \in DOMAIN formations \ {w} |-> formations[v]]
       \/ /\ ~MustStart(w)
          /\ UNCHANGED <<source, free, records, batch, formations>>
    /\ UNCHANGED <<inputs, blocked, waiting, clock, pc, idleTodo, before>>

IdleWorkers == {w \in Workers \ DOMAIN formations : free[w] <= clock}

\* fill_formations returns, to the pass or to dispatch_idle_workers.
FillReturns ==
    /\ pc \in {"fill", "refill"} /\ fillTodo = {}
    /\ pc' = "dispatch"
    /\ idleTodo' = IF pc = "fill" THEN IdleWorkers ELSE idleTodo
    /\ UNCHANGED <<inputs, source, blocked, waiting, formations, free, records,
                   batch, clock, fillTodo, before>>

\* One turn of the loop of dispatch_idle_workers.
DispatchIdle(w) ==
    LET anchor == First(waiting)
    IN  /\ pc = "dispatch" /\ waiting # {}
        /\ w \in idleTodo /\ \A v \in idleTodo : w <= v
        /\ idleTodo' = idleTodo \ {w}
        /\ AdmitBlocked(blocked, waiting \ {anchor})
        /\ \/ /\ policy = "priority"
              /\ StartBatch(w, {anchor})
              /\ UNCHANGED <<formations, pc, fillTodo>>
           \/ /\ policy = "continuous-batching"
              /\ formations' = [v \in DOMAIN formations \cup {w} |->
                    IF v = w THEN [kind |-> job[anchor.attempt.job].kind,
                                   deadline |-> clock + Window, selected |-> {anchor}]
                    ELSE formations[v]]
              /\ pc' = "refill"
              /\ fillTodo' = DOMAIN formations'
              /\ UNCHANGED <<source, free, records, batch>>
        /\ UNCHANGED <<inputs, clock, before>>

PassEnds == pc = "dispatch" /\ (idleTodo = {} \/ waiting = {})

PassChanged == Progress # before

RepeatPass ==
    /\ PassEnds /\ PassChanged
    /\ pc' = "receive"
    /\ idleTodo' = {}
    /\ UNCHANGED <<inputs, source, blocked, waiting, formations, free, records,
                   batch, clock, fillTodo, before>>

\* The deadlines of formations are forgotten (WorkConserving).
WrongEvents ==
    {a.ready : a \in source} \cup {free[w] : w \in Workers \ DOMAIN formations}

Events ==
    {a.ready : a \in source} \cup
    {formations[w].deadline : w \in DOMAIN formations} \cup
    {free[w] : w \in Workers \ DOMAIN formations}

\* The clock moves on; "stuck" is the assertion that some event is left.
AdvanceClock ==
    LET future == {t \in Events : t > clock}
    IN  /\ PassEnds /\ ~PassChanged
        /\ clock' = IF future = {} THEN clock ELSE Min(future)
        /\ pc' = IF ~WorkLeft THEN "done" ELSE IF future = {} THEN "stuck" ELSE "receive"
        /\ idleTodo' = {}
        /\ UNCHANGED <<inputs, source, blocked, waiting, formations, free, records,
                       batch, fillTodo, before>>

Next ==
    \/ ReceiveArrivals
    \/ \E w \in Workers : TakeCompatible(w) \/ LeaveFormation(w) \/ DispatchIdle(w)
    \/ FillReturns
    \/ RepeatPass \/ AdvanceClock

Spec == Init /\ [][Next]_vars

\* The thread runs on.
FairSpec == Spec /\ WF_vars(Next)

-----------------------------------------------------------------------------
Selected(w) == formations[w].selected

(* No job is lost or doubled in transport, backpressure, batch formation   *)
(* and retry: at every step of a pass a job is in one place, or settled    *)
(* for good, but never both.                                               *)
OnePlacePerJob ==
    \A j \in Jobs :
        1 = Cardinality({a \in source : a.job = j})
            + Cardinality({a \in blocked : a.job = j})
            + Cardinality({w \in waiting : w.attempt.job = j})
            + Cardinality(UNION {{<<v, x>> : x \in {y \in Selected(v) : y.attempt.job = j}} :
                                 v \in DOMAIN formations})
            + Cardinality({r \in records : r.job = j /\ r.result # "retry"})

(* The attempts of a job follow one another: each but the first starts     *)
(* after the failure it repeats has ended, none is served twice, and the   *)
(* last allowed one is final.                                              *)
RetriesFollowFailures ==
    \A r \in records :
        /\ r.ready <= r.admitted /\ r.admitted <= r.start
        /\ r.result = "retry" => r.attempt < MaxRetries
        /\ \A q \in records : q.job = r.job /\ q.attempt = r.attempt => q = r
        /\ r.attempt > 0 =>
              \E q \in records : /\ q.job = r.job /\ q.attempt = r.attempt - 1
                                 /\ q.result = "retry" /\ q.end <= r.ready

(* A worker is not preempted: two batches of one worker never overlap, and *)
(* a worker that forms a batch is not serving one.                         *)
WorkersSerial ==
    /\ \A q, r \in records :
          q.worker = r.worker /\ q.batch < r.batch => q.end <= r.start
    /\ \A w \in DOMAIN formations : free[w] <= clock

(* The assertions of run(): no fixed point with work left, batches of one  *)
(* kind and of legal size, the queue within its capacity, and at the end   *)
(* one final record for each job.                                          *)
NoAssertionFails ==
    /\ pc # "stuck"
    /\ Cardinality(waiting) <= Capacity
    /\ \A q, r \in records : q.batch = r.batch => job[q.job].kind = job[r.job].kind
    /\ \A b \in 1..batch : Cardinality({r \in records : r.batch = b}) \in 1..MaxBatch
    /\ pc = "done" => Cardinality({r \in records : r.result # "retry"}) = Cardinality(Jobs)

\* When what was admitted so far came, and when it was admitted.
Admissions ==
    {[ready |-> r.ready, admitted |-> r.admitted] : r \in records} \cup
    {[ready |-> x.attempt.ready, admitted |-> x.admitted] :
        x \in waiting \cup UNION {Selected(w) : w \in DOMAIN formations}}

(* Admission is first come first served whatever is retried: an attempt    *)
(* that came earlier is not admitted later, and nobody is admitted past a  *)
(* blocked attempt that came earlier.                                      *)
AdmittedInArrivalOrder ==
    \A a \in Admissions :
        /\ \A b \in Admissions : a.ready < b.ready => a.admitted <= b.admitted
        /\ \A b \in blocked : a.ready <= b.ready

(* The books of the service, after every step of a pass.                   *)
ServiceAudit ==
    /\ OnePlacePerJob /\ RetriesFollowFailures /\ WorkersSerial
    /\ NoAssertionFails /\ AdmittedInArrivalOrder

(* Time passes only when nothing can be done now: no attempt waits while a *)
(* worker is idle, none that fits waits beside a batch with room, and none *)
(* is blocked beside a queue with room; nor does it pass the deadline of a *)
(* batch that is forming.                                                  *)
WorkConserving ==
    [][clock' > clock =>
          /\ waiting # {} => IdleWorkers = {}
          /\ \A w \in DOMAIN formations : IsFull(w) \/ Compatible(w) = {}
          /\ blocked # {} => Cardinality(waiting) = Capacity
          /\ \A w \in DOMAIN formations : clock' <= formations[w].deadline]_vars

(* Every run ends, whatever fails and however the queue fills.             *)
Termination == <>(pc = "done")

=============================================================================
