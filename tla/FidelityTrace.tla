---------------------------- MODULE FidelityTrace ----------------------------
(***************************************************************************)
(* simulate_fidelity_trace: one speculative round of all requests.  They   *)
(* are prefilled one by one; drafts of the likely continuations (outcomes) *)
(* of each come from the remote service and go to the cache; the target    *)
(* verifies the requests in batches, and at the end of its batch the       *)
(* outcome of a request is looked up; misses are recovered by a second run *)
(* of the service.                                                         *)
(*                                                                         *)
(* A request is its number, and its record in a trace; what a draw decides *)
(* is chosen where it is first used.  A run of RemoteDraftService ends     *)
(* with one success or final failure of each job (ServiceAudit there), at  *)
(* any time after the job was submitted.                                   *)
(***************************************************************************)
EXTENDS OutcomeTreeCache, SequencesExt

CONSTANTS
    Traces,         \* sequences of [arrival, prompt, priority, output, width, group]
    CostModels,     \* linear costs of prefill and target
    Classes,        \* outcome classes: their outcomes, the most popular first
    Fanout,         \* outcomes drafted ahead
    BranchSizes,    \* sizes considered for a drafted branch, in bytes
    TargetBatchSize

TraceAssumption ==
    /\ \A t \in Traces : \A i \in DOMAIN t :
          /\ {t[i].arrival, t[i].prompt} \subseteq Nat
          /\ {t[i].output, t[i].width} \subseteq Nat \ {0}
    /\ \A c \in Classes : c # <<>> /\ IsInjective(c)
    /\ BranchSizes \subseteq Nat \ {0}
    /\ Fanout \in Nat \ {0} /\ TargetBatchSize \in Nat \ {0}

ASSUME TraceAssumption

VARIABLES
    trace, costs, branchBytes,  \* the inputs
    class,          \* the class each request was resolved to
    phase,          \* "prefill", "precompute", "target", "events" or "done"
    prefilled,      \* when each request was prefilled
    batches,        \* target batches, [rows, start, end]
    drafts,         \* precompute events still to come
    emitted,        \* tokens of each request whose target batch was handled
    cache,
    cached, hit,    \* of each request looked up: what was resident, and a hit
    evictions, releases, stale,     \* counters of the trace
    planted,        \* history: requests whose drafts went to the cache
    ready           \* requests with a time for their next round, at the end

inputs == <<trace, costs, branchBytes, class>>
schedule == <<prefilled, batches>>
counters == <<evictions, releases, stale>>
vars == <<inputs, phase, schedule, drafts, emitted, cache, cached, hit, counters,
          planted, ready>>

Requests == DOMAIN trace

NoneYet == [r \in {} |-> 0]

\* resolve_request_classes: a group shares one draw.
Resolutions(t) ==
    {f \in [DOMAIN t -> Classes] :
        \A q, r \in DOMAIN t : t[q].group = t[r].group => f[q] = f[r]}

Init ==
    /\ trace \in Traces /\ costs \in CostModels /\ branchBytes \in BranchSizes
    /\ class \in Resolutions(trace)
    /\ phase = "prefill" /\ prefilled = NoneYet /\ batches = <<>>
    /\ drafts = {} /\ emitted = NoneYet /\ cache = NewCache
    /\ cached = NoneYet /\ hit = NoneYet
    /\ evictions = 0 /\ releases = 0 /\ stale = 0
    /\ planted = {} /\ ready = {}

Extend(f, k, v) == [x \in DOMAIN f \cup {k} |-> IF x = k THEN v ELSE f[x]]

-----------------------------------------------------------------------------
(* The schedules of prefill and target.                                    *)

ArrivesBefore(q, r) ==
    \/ trace[q].arrival < trace[r].arrival
    \/ trace[q].arrival = trace[r].arrival /\ q < r

PrefillMs(r) == costs.prefill + trace[r].prompt * costs.prefillToken

\* One turn of _schedule_prefill.
Prefill(r) ==
    LET waiting == Requests \ DOMAIN prefilled
        free    == Max({0} \cup {prefilled[q] : q \in DOMAIN prefilled})
        start   == Max({free, trace[r].arrival})
    IN  /\ phase = "prefill"
        /\ r \in waiting /\ \A q \in waiting \ {r} : ArrivesBefore(r, q)
        /\ prefilled' = Extend(prefilled, r, start + PrefillMs(r))
        /\ phase' = IF waiting = {r} THEN "precompute" ELSE phase
        /\ UNCHANGED <<inputs, batches, drafts, emitted, cache, cached, hit, counters,
                       planted, ready>>

\* The first run of the service: the jobs that succeed become events.
Precompute ==
    /\ phase = "precompute" /\ phase' = "target"
    /\ drafts' \in SUBSET Requests
    /\ UNCHANGED <<inputs, schedule, emitted, cache, cached, hit, counters, planted, ready>>

Scheduled == UNION {ToSet(batches[i].rows) : i \in DOMAIN batches}
TargetFree == IF batches = <<>> THEN 0 ELSE Last(batches).end

VerifiedBefore(q, r) ==
    \/ prefilled[q] < prefilled[r]
    \/ /\ prefilled[q] = prefilled[r]
       /\ \/ trace[q].priority > trace[r].priority
          \/ trace[q].priority = trace[r].priority /\ q < r

\* Every waiting request is taken for eligible (RoundAudit).
WrongEligible(waiting, now) == waiting

Eligible(waiting, now) == {r \in waiting : prefilled[r] <= now}

\* The first of those that are eligible, when there is one.
BatchStart(waiting) ==
    IF Eligible(waiting, TargetFree) # {} THEN TargetFree
    ELSE Min({prefilled[r] : r \in waiting})

Selected(waiting) ==
    LET line == SetToSortSeq(Eligible(waiting, BatchStart(waiting)), VerifiedBefore)
    IN  SubSeq(line, 1, Min({TargetBatchSize, Len(line)}))

VerifierSlots(r) == Min({trace[r].width, trace[r].output})

TargetMs(rows) ==
    LET Cost(r) == costs.row + trace[r].prompt * costs.token + VerifierSlots(r) * costs.slot
    IN  costs.target + MapThenSumSet(Cost, ToSet(rows))

\* One turn of _schedule_target.
TargetBatch ==
    LET waiting == Requests \ Scheduled
        start   == BatchStart(waiting)
        rows    == Selected(waiting)
        batch   == [rows |-> rows, start |-> start, end |-> start + TargetMs(rows)]
    IN  /\ phase = "target"
        /\ batches' = Append(batches, batch)
        /\ phase' = IF waiting = ToSet(rows) THEN "events" ELSE phase
        /\ UNCHANGED <<inputs, prefilled, drafts, emitted, cache, cached, hit, counters,
                       planted, ready>>

-----------------------------------------------------------------------------
(* The events: drafts as they come, and lookups as target batches end.     *)

Planned(r) == SubSeq(class[r], 1, Min({Fanout, Len(class[r])}))

\* The most popular branch goes first (PopularBranchesLast).
WrongInsertionOrder(r) == Planned(r)

\* The least popular branch goes first, so that it is evicted first.
InsertionOrder(r) == Reverse(Planned(r))

\* Every branch of r goes to the cache; the mutations add up.
Plant(r) ==
    FoldLeft(LAMBDA m, o :
                LET next == Insert(m.cache, <<r, o>>, branchBytes)
                IN  [cache |-> next.cache, evicted |-> m.evicted + Cardinality(next.evicted)],
            [cache |-> cache, evicted |-> 0], InsertionOrder(r))

LookedUp == DOMAIN emitted

VerifiedAt(r) == (CHOOSE b \in ToSet(batches) : r \in ToSet(b.rows)).end

\* Events before the draft of r, which comes after its prefill; at the same
\* instant a draft goes first.
DraftMayCome(r) ==
    /\ phase = "events" /\ r \in drafts
    /\ \A q \in Requests \ LookedUp : VerifiedAt(q) >= prefilled[r]

IsStale(r) == r \in LookedUp

DraftStale(r) ==
    /\ DraftMayCome(r) /\ IsStale(r)
    /\ drafts' = drafts \ {r}
    /\ stale' = stale + 1
    /\ UNCHANGED <<inputs, phase, schedule, emitted, cache, cached, hit, evictions,
                   releases, planted, ready>>

DraftArrives(r) ==
    LET m == Plant(r)
    IN  /\ DraftMayCome(r) /\ ~IsStale(r)
        /\ drafts' = drafts \ {r}
        /\ cache' = m.cache
        /\ evictions' = evictions + m.evicted
        /\ planted' = planted \cup {r}
        /\ UNCHANGED <<inputs, phase, schedule, emitted, cached, hit, releases, stale, ready>>

PlannedKeys(r) == {<<r, o>> : o \in ToSet(Planned(r))}

ReleasedBy(r) == PlannedKeys(r) \cap DOMAIN cache.entries

\* Lookups come in the order of the ends of batches, then of requests.
LookupIsNext(r) ==
    /\ phase = "events" /\ r \notin LookedUp
    /\ \A q \in Requests \ (LookedUp \cup {r}) :
          VerifiedAt(r) < VerifiedAt(q) \/ (VerifiedAt(r) = VerifiedAt(q) /\ r < q)

\* The accepted prefix, at least one token short of what was verified, and
\* one token of the target.
EmittedBy(r) ==
    {Min({trace[r].output, accepted + 1}) : accepted \in 0..(VerifierSlots(r) - 1)}

Ends(r, n) == n = trace[r].output

\* The target batch of r ends, and so does r.
LookupTerminal(r) ==
    /\ LookupIsNext(r)
    /\ \E n \in EmittedBy(r) : Ends(r, n) /\ emitted' = Extend(emitted, r, n)
    /\ cache' = Discard(cache, PlannedKeys(r))
    /\ releases' = releases + Cardinality(ReleasedBy(r))
    /\ cached' = Extend(cached, r, {})
    /\ UNCHANGED <<inputs, phase, schedule, drafts, hit, evictions, stale, planted, ready>>

\* The target batch of r ends, r goes on and its outcome is drawn.
LookupOutcome(r) ==
    /\ LookupIsNext(r)
    /\ \E n \in EmittedBy(r) : ~Ends(r, n) /\ emitted' = Extend(emitted, r, n)
    /\ cached' = Extend(cached, r, {o \in ToSet(Planned(r)) : Holds(cache, <<r, o>>)})
    /\ \E outcome \in ToSet(class[r]) :
          /\ hit' = Extend(hit, r, Holds(cache, <<r, outcome>>))
          /\ cache' = Touch(cache, <<r, outcome>>)
    /\ UNCHANGED <<inputs, phase, schedule, drafts, counters, planted, ready>>

\* Requests that are recovered: those that went on and missed.
Misses == {r \in DOMAIN hit : ~hit[r]}

\* All events are handled; misses are recovered, or fail for good.
FinishRound ==
    /\ phase = "events" /\ drafts = {} /\ LookedUp = Requests
    /\ phase' = "done"
    /\ \E recovered \in SUBSET Misses :
          ready' = {r \in DOMAIN hit : hit[r]} \cup recovered
    /\ UNCHANGED <<inputs, schedule, drafts, emitted, cache, cached, hit, counters, planted>>

\* The call returned.
Returned == phase = "done" /\ UNCHANGED vars

Next ==
    \/ \E r \in Requests :
          Prefill(r) \/ DraftStale(r) \/ DraftArrives(r) \/ LookupTerminal(r) \/ LookupOutcome(r)
    \/ Precompute \/ TargetBatch \/ FinishRound \/ Returned

Spec == Init /\ [][Next]_vars

-----------------------------------------------------------------------------
Resident(r) == {o \in ToSet(class[r]) : Holds(cache, <<r, o>>)}

(* If a tree does not fit, its most popular branches are the ones that     *)
(* stay: until its lookup the resident outcomes of a request are the first *)
(* ones of the popularity order, whatever other requests insert.           *)
PopularBranchesLast ==
    \A r \in Requests \ LookedUp :
        \A i \in DOMAIN class[r], j \in DOMAIN class[r] :
            i < j /\ class[r][j] \in Resident(r) => class[r][i] \in Resident(r)

(* A request whose output ended holds no cache entries for the rest of the *)
(* round, also when its drafts arrive after its target batch.              *)
FinishedLeaveNothing ==
    \A r \in LookedUp : Ends(r, emitted[r]) => Resident(r) = {}

(* Every branch that was inserted is resident, was evicted or was          *)
(* released, once: the counters of the trace add up, and every draft that  *)
(* came is planted or stale.                                               *)
EntriesConserved ==
    /\ Cardinality(DOMAIN cache.entries) + evictions + releases =
          IF PagesNeeded(branchBytes) > PageBudget THEN 0
          ELSE MapThenSumSet(LAMBDA r : Len(Planned(r)), planted)
    /\ stale + Cardinality(planted) + Cardinality(drafts) <= Cardinality(Requests)

(* audit() after every event, and what it leaves out: the counters agree   *)
(* with the entries, what is resident, or ever was, is within the budget   *)
(* of pages, no entry is lost or counted twice, and none is left behind.   *)
CacheAudit == CacheAuditOf(cache) /\ EntriesConserved /\ FinishedLeaveNothing

(* The target verifies every request once, in one batch at a time, none    *)
(* before its prefill ended; it is never idle beside a prefilled request,  *)
(* never launches less than it could, and nobody is overtaken by a request *)
(* that was prefilled later, nor by one that arrived later unless the two  *)
(* were prefilled at once and its priority is higher.                      *)
TargetServes ==
    \A i \in DOMAIN batches :
        LET b     == batches[i]
            since == IF i = 1 THEN 0 ELSE batches[i - 1].end
            later == Requests \ UNION {ToSet(batches[j].rows) : j \in 1..i}
        IN  /\ b.rows # <<>> /\ Len(b.rows) <= TargetBatchSize /\ IsInjective(b.rows)
            /\ \A j \in 1..(i - 1) : ToSet(batches[j].rows) \cap ToSet(b.rows) = {}
            /\ since <= b.start
            /\ \A r \in ToSet(b.rows) :
                  /\ prefilled[r] <= b.start
                  /\ since < b.start => prefilled[r] > since
            /\ \A r \in later :
                  /\ prefilled[r] <= b.start => Len(b.rows) = TargetBatchSize
                  /\ prefilled[r] < b.start => since = b.start
                  /\ \A q \in ToSet(b.rows) :
                        \/ ArrivesBefore(q, r)
                        \/ /\ prefilled[q] = prefilled[r]
                           /\ trace[q].priority > trace[r].priority

(* Schedules and events fit together: a branch that is hit was drafted for *)
(* a request that was prefilled by then and not yet verified.  Once the    *)
(* call returns every request ended or has an answer of the cache, and     *)
(* those without a time for their next round missed.                       *)
RoundAnswers ==
    /\ \A r \in DOMAIN hit : hit[r] => r \in planted /\ prefilled[r] <= VerifiedAt(r)
    /\ phase = "done" =>
          /\ {r \in Requests : ~Ends(r, emitted[r])} = DOMAIN hit
          /\ DOMAIN hit \ ready \subseteq Misses

(* The whole round: the cache, the target and the answers.                 *)
RoundAudit == CacheAudit /\ TargetServes /\ RoundAnswers

=============================================================================
