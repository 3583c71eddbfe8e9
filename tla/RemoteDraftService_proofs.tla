---------------------- MODULE RemoteDraftService_proofs ----------------------
(***************************************************************************)
(* The remote draft service keeps its books and never waits with work it   *)
(* could do, for any jobs, workers, batch size, window, queue capacity,    *)
(* number of retries and times.                                            *)
(*                                                                         *)
(* ServiceAudit is not inductive: that a record follows the failure it     *)
(* repeats needs the same of every attempt on its way (Chained), that      *)
(* admission is in arrival order needs that what is still in the network   *)
(* came last (Ordered), and that the scheduler reaches no fixed point with *)
(* work left needs to know, while a pass has started no batch, that no     *)
(* attempt left the queue and which formations were looked at (Quiet).     *)
(*                                                                         *)
(* The steps are proved through what they do to the attempts on their way: *)
(* arrive, be admitted, be taken, be served.  Each of these moves keeps    *)
(* Flow: every job in one place, every attempt due, admission in order.    *)
(***************************************************************************)
EXTENDS RemoteDraftService, FiniteSetTheorems, FunctionTheorems, WellFoundedInduction, TLAPS

-----------------------------------------------------------------------------
(* The inductive invariant.                                                *)

Attempts == [job : Jobs, attempt : 0..MaxRetries, ready : Nat]
Entries == [attempt : Attempts, admitted : Nat]
Served == [job : Jobs, attempt : 0..MaxRetries, ready : Nat, admitted : Nat, worker : Workers,
           batch : Nat, start : Nat, end : Nat, result : {"success", "retry", "terminal"}]
Formed == [kind : Kinds, deadline : Nat, selected : SUBSET Entries]

TypeOK ==
    /\ policy \in {"continuous-batching", "priority"}
    /\ job \in [Jobs -> [kind : Kinds, priority : Int]]
    /\ source \subseteq Attempts /\ IsFiniteSet(source)
    /\ blocked \subseteq Attempts /\ IsFiniteSet(blocked)
    /\ waiting \subseteq Entries /\ IsFiniteSet(waiting)
    /\ records \subseteq Served
    /\ DOMAIN formations \subseteq Workers /\ formations \in [DOMAIN formations -> Formed]
    /\ free \in [Workers -> Nat] /\ batch \in Nat /\ clock \in Nat
    /\ pc \in {"receive", "fill", "refill", "dispatch", "done"}

\* The batches that are forming, as pairs of a worker and an entry.
Forming(forming) == UNION {{<<w, x>> : x \in forming[w].selected} : w \in DOMAIN forming}

Final(served) == {r \in served : r.result # "retry"}

\* Every job is in exactly one of five places.
Placed(s, b, q, f, r) ==
    /\ \A x, y \in s : x.job = y.job => x = y
    /\ \A x, y \in b : x.job = y.job => x = y
    /\ \A x, y \in q : x.attempt.job = y.attempt.job => x = y
    /\ \A x, y \in f : x[2].attempt.job = y[2].attempt.job => x = y
    /\ \A x, y \in r : x.job = y.job => x = y
    /\ \A x \in s : \A y \in b : x.job # y.job
    /\ \A x \in s : \A y \in q : x.job # y.attempt.job
    /\ \A x \in s : \A y \in f : x.job # y[2].attempt.job
    /\ \A x \in s : \A y \in r : x.job # y.job
    /\ \A x \in b : \A y \in q : x.job # y.attempt.job
    /\ \A x \in b : \A y \in f : x.job # y[2].attempt.job
    /\ \A x \in b : \A y \in r : x.job # y.job
    /\ \A x \in q : \A y \in f : x.attempt.job # y[2].attempt.job
    /\ \A x \in q : \A y \in r : x.attempt.job # y.job
    /\ \A x \in f : \A y \in r : x[2].attempt.job # y.job
    /\ \A j \in Jobs : \/ \E x \in s : x.job = j
                       \/ \E x \in b : x.job = j
                       \/ \E x \in q : x.attempt.job = j
                       \/ \E x \in f : x[2].attempt.job = j
                       \/ \E x \in r : x.job = j

PlacesInv == Placed(source, blocked, waiting, Forming(formations), Final(records))

\* An attempt that may start: its job was not served as late, and it follows
\* the failure it repeats.
Due(a, served) ==
    /\ \A r \in served : r.job = a.job => r.attempt < a.attempt
    /\ a.attempt > 0 =>
          \E q \in served : /\ q.job = a.job /\ q.attempt = a.attempt - 1
                            /\ q.result = "retry" /\ q.end <= a.ready

Timely(x, served, now) ==
    Due(x.attempt, served) /\ x.attempt.ready <= x.admitted /\ x.admitted <= now

Chained(s, b, q, f, r) ==
    /\ \A a \in s : Due(a, r)
    /\ \A a \in b : Due(a, r) /\ a.ready <= clock
    /\ \A x \in q : Timely(x, r, clock)
    /\ \A p \in f : Timely(p[2], r, clock)

ChainInv ==
    /\ Chained(source, blocked, waiting, Forming(formations), records)
    /\ RetriesFollowFailures

WorkersInv ==
    /\ WorkersSerial
    /\ \A r \in records : r.end <= free[r.worker] /\ r.start <= clock /\ r.batch \in 1..batch

Kind(j) == job[j].kind

InBatch(b, served) == {r \in served : r.batch = b}

\* The batches that are forming are legal, and so is every batch served.
FormingLegal ==
    \A w \in DOMAIN formations :
        /\ IsFiniteSet(Selected(w)) /\ Cardinality(Selected(w)) \in 1..MaxBatch
        /\ \A x \in Selected(w) : Kind(x.attempt.job) = formations[w].kind

ServedLegal ==
    /\ \A q, r \in records : q.batch = r.batch => Kind(q.job) = Kind(r.job)
    /\ \A b \in 1..batch : Cardinality(InBatch(b, records)) \in 1..MaxBatch

QueueInv ==
    /\ Cardinality(waiting) <= Capacity
    /\ blocked # {} => Cardinality(waiting) = Capacity

\* First come, first served: what is in s came last, what was admitted came
\* before what is blocked, in the order of m.
Ordered(s, b, m) ==
    /\ \A x, y \in m : x.ready < y.ready => x.admitted <= y.admitted
    /\ \A x \in m : \A y \in b : x.ready <= y.ready
    /\ \A x \in s : \A y \in b \cup m : y.ready <= x.ready

OrderInv == Ordered(source, blocked, Admissions)

InPass == pc \in {"fill", "refill", "dispatch"}

InFlight == Cardinality(source) + Cardinality(blocked) + Cardinality(waiting)

LoopsInv ==
    /\ fillTodo \subseteq DOMAIN formations
    /\ idleTodo \subseteq IdleWorkers
    /\ pc \notin {"fill", "refill"} => fillTodo = {}
    /\ InPass => \A w \in DOMAIN formations \ fillTodo : ~MustStart(w)

\* What still holds if no batch was started in the pass.
Quiet ==
    /\ \A a \in source : a.ready > clock
    /\ pc # "fill" => IdleWorkers \subseteq idleTodo
    /\ InFlight <= before[1] + before[2] + before[3]
    /\ InFlight = before[1] + before[2] + before[3] =>
          \A w \in DOMAIN formations \ fillTodo : Compatible(w) = {}

PassInv ==
    InPass =>
        /\ before[1] \in Nat /\ before[2] \in Nat /\ before[3] \in Nat
        /\ before[6] \in Nat /\ before[6] <= batch
        /\ batch = before[6] => Quiet

DoneInv == pc = "done" => ~WorkLeft

IInv ==
    /\ TypeOK /\ PlacesInv /\ ChainInv /\ WorkersInv /\ FormingLegal /\ ServedLegal
    /\ QueueInv /\ OrderInv /\ LoopsInv /\ PassInv /\ DoneInv



-----------------------------------------------------------------------------
(* Least elements and the orders of the queues.                            *)

\* A nonempty set of naturals has a least element.
LEMMA LeastNatural ==
    ASSUME NEW T, T \subseteq Nat, T # {}
    PROVE  \E x \in T : \A y \in T : x <= y
  <1> DEFINE R == OpToRel(<, Nat)
  <1>1. IsWellFoundedOn(R, Nat)
    BY NatLessThanWellFounded
  <1>2. \A x, y \in Nat : <<y, x>> \in R <=> y < x
    BY DEF OpToRel
  <1> HIDE DEF R
  <1>3. PICK x \in T : \A y \in T : ~ (<<y, x>> \in R)
    BY <1>1, WFMin
  <1>4. ASSUME NEW y \in T
        PROVE  x <= y
    <2>1. x \in Nat /\ y \in Nat
      OBVIOUS
    <2>2. ~ (y < x)
      BY <1>2, <1>3, <2>1, Zenon
    <2> QED BY <2>1, <2>2
  <1> QED BY <1>4

\* A strict total order on S, as a set of pairs.
StrictOrder(R, S) ==
    /\ \A x \in S : <<x, x>> \notin R
    /\ \A x, y, z \in S : <<x, y>> \in R /\ <<y, z>> \in R => <<x, z>> \in R
    /\ \A x, y \in S : x # y => <<x, y>> \in R \/ <<y, x>> \in R

Below(R, S, x) == {y \in S : <<y, x>> \in R}

\* Of two elements the lower one has fewer below it.
LEMMA FewerBelow ==
    ASSUME NEW R, NEW S, IsFiniteSet(S), StrictOrder(R, S), NEW x \in S, NEW y \in S, <<x, y>> \in R
    PROVE  Cardinality(Below(R, S, x)) < Cardinality(Below(R, S, y))
  <1>1. Below(R, S, x) \subseteq Below(R, S, y) /\ x \in Below(R, S, y) /\ x \notin Below(R, S, x)
    BY DEF Below, StrictOrder
  <1>2. IsFiniteSet(Below(R, S, y))
    BY FS_Subset DEF Below
  <1>3. /\ IsFiniteSet(Below(R, S, x))
        /\ Cardinality(Below(R, S, x)) <= Cardinality(Below(R, S, y))
        /\ Cardinality(Below(R, S, x)) # Cardinality(Below(R, S, y))
    BY <1>1, <1>2, FS_Subset
  <1>4. Cardinality(Below(R, S, x)) \in Nat /\ Cardinality(Below(R, S, y)) \in Nat
    BY <1>2, <1>3, FS_CardinalityType
  <1> QED BY <1>3, <1>4

\* A finite nonempty set has a least element.
LEMMA FiniteLeast ==
    ASSUME NEW R, NEW S, IsFiniteSet(S), S # {}, StrictOrder(R, S)
    PROVE  \E x \in S : \A y \in S \ {x} : <<x, y>> \in R
  <1> DEFINE N == {Cardinality(Below(R, S, x)) : x \in S}
  <1>1. \A x \in S : Cardinality(Below(R, S, x)) \in Nat
    <2> TAKE x \in S
    <2>1. IsFiniteSet(Below(R, S, x))
      BY FS_Subset DEF Below
    <2> QED BY <2>1, FS_CardinalityType
  <1>2. N \subseteq Nat /\ N # {}
    BY <1>1
  <1>3. PICK n \in N : \A m \in N : n <= m
    BY <1>2, LeastNatural
  <1>4. PICK x \in S : n = Cardinality(Below(R, S, x))
    OBVIOUS
  <1>5. ASSUME NEW y \in S \ {x}, <<x, y>> \notin R
        PROVE  FALSE
    <2>1. <<y, x>> \in R
      BY <1>5 DEF StrictOrder
    <2>2. Cardinality(Below(R, S, y)) < Cardinality(Below(R, S, x))
      BY <2>1, FewerBelow
    <2>3. n <= Cardinality(Below(R, S, y))
      BY <1>3
    <2> QED BY <1>1, <1>4, <2>2, <2>3
  <1> QED BY <1>5

AttemptBefore(a, b) ==
    \/ a.ready < b.ready
    \/ a.ready = b.ready /\ a.job < b.job
    \/ a.ready = b.ready /\ a.job = b.job /\ a.attempt < b.attempt

LEMMA AttemptIntegers ==
    ASSUME ServiceAssumption
    PROVE  \A a \in Attempts : a.ready \in Int /\ a.job \in Int /\ a.attempt \in Int
  <1>1. Jobs \subseteq Int /\ 0..MaxRetries \subseteq Int /\ Nat \subseteq Int
    BY DEF ServiceAssumption
  <1> QED BY <1>1 DEF Attempts

\* The order of attempts: by arrival, then by job and by attempt.
LEMMA AttemptOrder ==
    ASSUME NEW a \in Attempts, NEW b \in Attempts
    PROVE  Before(AttemptKey(a), AttemptKey(b)) <=> AttemptBefore(a, b)
  <1> DEFINE k == AttemptKey(a)
             l == AttemptKey(b)
  <1>1. DOMAIN k = 1..3 /\ k[1] = a.ready /\ k[2] = a.job /\ k[3] = a.attempt
    BY DEF AttemptKey
  <1>2. l[1] = b.ready /\ l[2] = b.job /\ l[3] = b.attempt
    BY DEF AttemptKey
  <1>3. DOMAIN k = {1, 2, 3}
    BY <1>1
  <1>4. 1..(1 - 1) = {} /\ 1..(2 - 1) = {1} /\ 1..(3 - 1) = {1, 2}
    OBVIOUS
  <1>5. Before(k, l) <=>
                        \/ k[1] < l[1]
                        \/ k[2] < l[2] /\ k[1] = l[1]
                        \/ k[3] < l[3] /\ k[1] = l[1] /\ k[2] = l[2]
    <2> HIDE DEF k, l
    <2> QED BY <1>3, <1>4 DEF Before
  <1> QED BY <1>1, <1>2, <1>5 DEF AttemptBefore

Urgency(x) == IF policy = "priority" THEN -job[x.attempt.job].priority ELSE 0

\* The order of the bounded queue: by urgency, then as attempts.
LEMMA WaitingOrder ==
    ASSUME NEW x \in Entries, NEW y \in Entries
    PROVE  Before(WaitingKey(x), WaitingKey(y)) <=>
               \/ Urgency(x) < Urgency(y)
               \/ Urgency(x) = Urgency(y) /\ AttemptBefore(x.attempt, y.attempt)
  <1> DEFINE k == WaitingKey(x)
             l == WaitingKey(y)
             a == x.attempt
             b == y.attempt
  <1>1. /\ DOMAIN k = 1..4
        /\ k[1] = Urgency(x) /\ k[2] = a.ready /\ k[3] = a.job /\ k[4] = a.attempt
    BY DEF WaitingKey, AttemptKey, Urgency
  <1>2. l[1] = Urgency(y) /\ l[2] = b.ready /\ l[3] = b.job /\ l[4] = b.attempt
    BY DEF WaitingKey, AttemptKey, Urgency
  <1>3. DOMAIN k = {1, 2, 3, 4}
    BY <1>1
  <1>4. 1..(1 - 1) = {} /\ 1..(2 - 1) = {1} /\ 1..(3 - 1) = {1, 2} /\ 1..(4 - 1) = {1, 2, 3}
    OBVIOUS
  <1>5. Before(k, l) <=>
                        \/ k[1] < l[1]
                        \/ k[2] < l[2] /\ k[1] = l[1]
                        \/ k[3] < l[3] /\ k[1] = l[1] /\ k[2] = l[2]
                        \/ k[4] < l[4] /\ k[1] = l[1] /\ k[2] = l[2] /\ k[3] = l[3]
    <2> HIDE DEF k, l
    <2> QED BY <1>3, <1>4 DEF Before
  <1> HIDE DEF k, l
  <1> QED BY <1>1, <1>2, <1>5 DEF AttemptBefore, k, l

OneEach(attempts) == \A a, b \in attempts : a.job = b.job => a = b

OneEachEntry(entries) == \A x, y \in entries : x.attempt.job = y.attempt.job => x = y

\* The entry that First chooses is one of the queue.
LEMMA FirstIn ==
    ASSUME ServiceAssumption, TypeOK,
           NEW items, items \subseteq Entries, IsFiniteSet(items), items # {}, OneEachEntry(items)
    PROVE  First(items) \in items
  <1> DEFINE R == {p \in items \X items : Before(WaitingKey(p[1]), WaitingKey(p[2]))}
  <1>1. \A x, y \in items : <<x, y>> \in R <=> Before(WaitingKey(x), WaitingKey(y))
    OBVIOUS
  <1>2. \A x, y \in items : <<x, y>> \in R <=>
               \/ Urgency(x) < Urgency(y)
               \/ Urgency(x) = Urgency(y) /\ AttemptBefore(x.attempt, y.attempt)
    <2> HIDE DEF R
    <2> QED BY <1>1, WaitingOrder
  <1>3. \A x \in items : Urgency(x) \in Int
    BY DEF Urgency, Entries, Attempts, TypeOK
  <1>4. \A x \in items : x.attempt.ready \in Int /\ x.attempt.job \in Int /\ x.attempt.attempt \in Int
    <2>1. \A x \in items : x.attempt \in Attempts
      BY DEF Entries
    <2> QED BY <2>1, AttemptIntegers
  <1> HIDE DEF R
  <1>5. StrictOrder(R, items)
    <2>1. \A x \in items : <<x, x>> \notin R
      BY <1>2, <1>3, <1>4 DEF AttemptBefore
    <2>2. ASSUME NEW x \in items, NEW y \in items, NEW z \in items, <<x, y>> \in R, <<y, z>> \in R
          PROVE  <<x, z>> \in R
      BY <2>2, <1>2, <1>3, <1>4 DEF AttemptBefore
    <2>3. ASSUME NEW x \in items, NEW y \in items, x # y
          PROVE  <<x, y>> \in R \/ <<y, x>> \in R
      <3>1. x.attempt.job # y.attempt.job
        BY <2>3 DEF OneEachEntry
      <3> QED BY <3>1, <1>2, <1>3, <1>4 DEF AttemptBefore
    <2> QED BY <2>1, <2>2, <2>3 DEF StrictOrder
  <1>6. \E x \in items : \A y \in items \ {x} : <<x, y>> \in R
    BY <1>5, FiniteLeast
  <1>7. \E x \in items : \A y \in items \ {x} : Before(WaitingKey(x), WaitingKey(y))
    BY <1>1, <1>6
  <1> QED BY <1>7 DEF First

\* Earliest(n, A) takes n attempts, or all if they are fewer, and none that
\* came after one it leaves.
LEMMA EarliestFacts ==
    ASSUME ServiceAssumption, NEW A, A \subseteq Attempts, IsFiniteSet(A), OneEach(A), NEW n \in Nat
    PROVE  /\ Earliest(n, A) \subseteq A
           /\ IsFiniteSet(Earliest(n, A)) /\ Cardinality(Earliest(n, A)) <= n
           /\ Earliest(n, A) # A => Cardinality(Earliest(n, A)) = n
           /\ \A a \in Earliest(n, A) : \A b \in A \ Earliest(n, A) : a.ready <= b.ready
  <1> DEFINE E == Earliest(n, A)
             R == {p \in A \X A : Before(AttemptKey(p[1]), AttemptKey(p[2]))}
  <1>1. \A a, b \in A : <<a, b>> \in R <=> Before(AttemptKey(a), AttemptKey(b))
    OBVIOUS
  <1>2. \A a, b \in A : <<a, b>> \in R <=> AttemptBefore(a, b)
    <2> HIDE DEF R
    <2> QED BY <1>1, AttemptOrder
  <1>3. \A a \in A : a.ready \in Int /\ a.job \in Int /\ a.attempt \in Int
    BY AttemptIntegers
  <1>4. \A a \in A : a \in E <=> Cardinality(Below(R, A, a)) < n
    <2> TAKE a \in A
    <2>1. Below(R, A, a) = {b \in A : Before(AttemptKey(b), AttemptKey(a))}
      <3> HIDE DEF R
      <3> QED BY <1>1 DEF Below
    <2> QED BY <2>1 DEF Earliest
  <1>5. E \subseteq A
    BY DEF Earliest
  <1> HIDE DEF R, E
  <1>6. StrictOrder(R, A)
    <2>1. \A x \in A : <<x, x>> \notin R
      BY <1>2, <1>3 DEF AttemptBefore
    <2>2. ASSUME NEW x \in A, NEW y \in A, NEW z \in A, <<x, y>> \in R, <<y, z>> \in R
          PROVE  <<x, z>> \in R
      BY <2>2, <1>2, <1>3 DEF AttemptBefore
    <2>3. ASSUME NEW x \in A, NEW y \in A, x # y
          PROVE  <<x, y>> \in R \/ <<y, x>> \in R
      <3>1. x.job # y.job
        BY <2>3 DEF OneEach
      <3> QED BY <3>1, <1>2, <1>3 DEF AttemptBefore
    <2> QED BY <2>1, <2>2, <2>3 DEF StrictOrder
  <1> DEFINE rank == [a \in A |-> Cardinality(Below(R, A, a))]
  <1>7. \A a \in A : IsFiniteSet(Below(R, A, a)) /\ rank[a] \in Nat
    <2> TAKE a \in A
    <2>1. IsFiniteSet(Below(R, A, a))
      BY FS_Subset DEF Below
    <2> QED BY <2>1, FS_CardinalityType
  <1>8. \A a, b \in A : <<a, b>> \in R => rank[a] < rank[b]
    BY <1>6, FewerBelow
  <1>9. \A a, b \in A : a # b => rank[a] # rank[b]
    <2> SUFFICES ASSUME NEW a \in A, NEW b \in A, a # b
                 PROVE  rank[a] # rank[b]
      OBVIOUS
    <2>1. <<a, b>> \in R \/ <<b, a>> \in R
      BY <1>6 DEF StrictOrder
    <2>2. rank[a] < rank[b] \/ rank[b] < rank[a]
      BY <1>8, <2>1
    <2> HIDE DEF rank
    <2> QED BY <1>7, <2>2
  <1>10. IsFiniteSet(E) /\ Cardinality(E) \in Nat
    BY <1>5, FS_Subset, FS_CardinalityType
  <1>11. Cardinality(E) <= n
    <2> DEFINE f == [a \in E |-> rank[a]]
    <2>1. \A a \in E : rank[a] \in 0..(n - 1)
      <3> TAKE a \in E
      <3>1. rank[a] < n /\ rank[a] \in Nat
        BY <1>4, <1>5, <1>7
      <3> QED BY <3>1
    <2>2. f \in Injection(E, 0..(n - 1))
      <3> HIDE DEF rank
      <3> QED BY <2>1, <1>5, <1>9 DEF Injection, IsInjective
    <2>3. IsFiniteSet(0..(n - 1)) /\ Cardinality(0..(n - 1)) = n
      BY FS_Interval
    <2> HIDE DEF f
    <2> QED BY <2>2, <2>3, FS_Injection
  <1>12. ASSUME E # A
         PROVE  Cardinality(E) = n
    <2>1. A \ E # {} /\ IsFiniteSet(A \ E) /\ A \ E \subseteq A
      BY <1>5, <1>12, FS_Difference
    <2>2. StrictOrder(R, A \ E)
      BY <1>6 DEF StrictOrder
    <2>3. PICK a \in A \ E : \A b \in (A \ E) \ {a} : <<a, b>> \in R
      <3>1. \E a \in A \ E : \A b \in (A \ E) \ {a} : <<a, b>> \in R
        <4> DEFINE S == A \ E
        <4>1. S # {} /\ IsFiniteSet(S) /\ StrictOrder(R, S)
          BY <2>1, <2>2
        <4> HIDE DEF S
        <4>2. \E a \in S : \A b \in S \ {a} : <<a, b>> \in R
          BY <4>1, FiniteLeast
        <4> QED BY <4>2 DEF S
      <3> QED BY <3>1
    <2>4. Below(R, A, a) \subseteq E
      <3> SUFFICES ASSUME NEW b \in A, <<b, a>> \in R, b \notin E
                   PROVE  FALSE
        BY DEF Below
      <3>1. CASE b = a
        BY <3>1, <1>6 DEF StrictOrder
      <3>2. CASE b # a
        <4>1. <<a, b>> \in R
          BY <2>3, <3>2
        <4>2. rank[a] < rank[b] /\ rank[b] < rank[a]
          BY <1>8, <4>1
        <4> HIDE DEF rank
        <4> QED BY <4>2, <1>7
      <3> QED BY <3>1, <3>2
    <2>5. Cardinality(Below(R, A, a)) <= Cardinality(E)
      BY <2>4, <1>10, FS_Subset
    <2>6. Cardinality(Below(R, A, a)) \in Nat /\ ~(Cardinality(Below(R, A, a)) < n)
      BY <1>4, <1>7, <2>3
    <2> QED BY <2>5, <2>6, <1>10, <1>11
  <1>13. ASSUME NEW a \in E, NEW b \in A \ E
         PROVE  a.ready <= b.ready
    <2>1. rank[a] < n /\ ~(rank[b] < n) /\ rank[a] \in Nat /\ rank[b] \in Nat
      BY <1>4, <1>5, <1>7
    <2>2. ~(rank[b] < rank[a]) /\ a # b /\ a \in A /\ b \in A
      <3> HIDE DEF rank
      <3> QED BY <2>1, <1>5
    <2>3. <<b, a>> \notin R
      BY <2>2, <1>8
    <2>4. <<a, b>> \in R
      BY <2>2, <2>3, <1>6 DEF StrictOrder
    <2>5. AttemptBefore(a, b)
      BY <1>2, <2>2, <2>4
    <2> QED BY <1>3, <2>2, <2>5 DEF AttemptBefore
  <1> QED BY <1>5, <1>10, <1>11, <1>12, <1>13 DEF E

\* The least time of a nonempty set of times.
LEMMA MinFacts ==
    ASSUME NEW T, T \subseteq Nat, T # {}
    PROVE  Min(T) \in T /\ \A t \in T : Min(T) <= t
  <1>1. \E x \in T : \A y \in T : x <= y
    BY LeastNatural
  <1> QED BY <1>1 DEF Min

-----------------------------------------------------------------------------
(* Every job stays in one place.                                           *)

AsAdmitted(attempts, now) == {[attempt |-> a, admitted |-> now] : a \in attempts}

\* From the network to the blocked.
LEMMA ArriveMove ==
    ASSUME NEW s, NEW b, NEW q, NEW f, NEW r, Placed(s, b, q, f, r), NEW d, d \subseteq s
    PROVE  Placed(s \ d, b \cup d, q, f, r)
  <1> DEFINE t == s \ d
             c == b \cup d
  <1> HIDE DEF t, c
  <1>1. /\ \A x \in t : x \in s /\ x \notin d
        /\ \A x \in c : x \in b \/ x \in d
        /\ \A x \in s : x \in d \/ x \in t
        /\ \A x \in d : x \in s /\ x \in c
        /\ \A x \in b : x \in c
    BY DEF t, c
  <1>2. Placed(t, c, q, f, r)
    BY <1>1 DEF Placed
  <1> QED BY <1>2 DEF t, c

\* From the blocked to the queue.
LEMMA AdmitMove ==
    ASSUME NEW s, NEW b, NEW q, NEW f, NEW r, Placed(s, b, q, f, r), NEW d, d \subseteq b, NEW now
    PROVE  Placed(s, b \ d, q \cup AsAdmitted(d, now), f, r)
  <1> DEFINE c == b \ d
             p == q \cup AsAdmitted(d, now)
  <1>1. /\ \A x \in c : x \in b /\ x \notin d
        /\ \A x \in b : x \in d \/ x \in c
        /\ \A x \in d : x \in b
        /\ \A x \in q : x \in p
    OBVIOUS
  <1>2. \A x \in p : x \in q \/ (x.attempt \in d /\ x = [attempt |-> x.attempt, admitted |-> now])
    BY DEF AsAdmitted
  <1>3. \A a \in d : \E x \in p : x.attempt = a
    <2> TAKE a \in d
    <2> DEFINE x == [attempt |-> a, admitted |-> now]
    <2>1. x \in p /\ x.attempt = a
      BY DEF AsAdmitted
    <2> QED BY <2>1
  <1> HIDE DEF c, p
  <1>4. Placed(s, c, p, f, r)
    <2>1. \A x, y \in p : x.attempt.job = y.attempt.job => x = y
      BY <1>1, <1>2 DEF Placed
    <2>2. \A x \in s : \A y \in p : x.job # y.attempt.job
      BY <1>1, <1>2 DEF Placed
    <2>3. \A x \in c : \A y \in p : x.job # y.attempt.job
      BY <1>1, <1>2 DEF Placed
    <2>4. \A x \in p : \A y \in f : x.attempt.job # y[2].attempt.job
      BY <1>1, <1>2 DEF Placed
    <2>5. \A x \in p : \A y \in r : x.attempt.job # y.job
      BY <1>1, <1>2 DEF Placed
    <2>6. \A j \in Jobs : (\E x \in b : x.job = j) => (\E x \in c : x.job = j) \/ (\E x \in p : x.attempt.job = j)
      BY <1>1, <1>3
    <2>7. \A j \in Jobs : (\E x \in q : x.attempt.job = j) => (\E x \in p : x.attempt.job = j)
      BY <1>1
    <2> QED BY <1>1, <2>1, <2>2, <2>3, <2>4, <2>5, <2>6, <2>7 DEF Placed
  <1> QED BY <1>4 DEF c, p

\* From the queue to the batch of worker w.
LEMMA TakeMove ==
    ASSUME NEW s, NEW b, NEW q, NEW f, NEW r, Placed(s, b, q, f, r), NEW x \in q, NEW w
    PROVE  Placed(s, b, q \ {x}, f \cup {<<w, x>>}, r)
  <1> DEFINE p == q \ {x}
             g == f \cup {<<w, x>>}
             n == <<w, x>>
  <1>1. /\ \A y \in p : y \in q /\ y # x
        /\ \A y \in q : y \in p \/ y = x
        /\ \A y \in f : y \in g
        /\ \A y \in g : y \in f \/ y = n
        /\ n \in g /\ n[2] = x
    OBVIOUS
  <1> HIDE DEF p, g, n
  <1>2. Placed(s, b, p, g, r)
    <2>1. \A y, z \in g : y[2].attempt.job = z[2].attempt.job => y = z
      BY <1>1 DEF Placed
    <2>2. \A y \in p : \A z \in g : y.attempt.job # z[2].attempt.job
      BY <1>1 DEF Placed
    <2>3. /\ \A y \in s : \A z \in g : y.job # z[2].attempt.job
          /\ \A y \in b : \A z \in g : y.job # z[2].attempt.job
          /\ \A y \in g : \A z \in r : y[2].attempt.job # z.job
      BY <1>1 DEF Placed
    <2>4. \A j \in Jobs : (\E y \in q : y.attempt.job = j) =>
               (\E y \in p : y.attempt.job = j) \/ (\E y \in g : y[2].attempt.job = j)
      BY <1>1
    <2>5. \A j \in Jobs : (\E y \in f : y[2].attempt.job = j) => (\E y \in g : y[2].attempt.job = j)
      BY <1>1
    <2> QED BY <1>1, <2>1, <2>2, <2>3, <2>4, <2>5 DEF Placed
  <1> QED BY <1>2 DEF p, g, n

\* From a batch back to the network, to be tried again, or to the final records.
LEMMA ServeMove ==
    ASSUME NEW s, NEW b, NEW q, NEW f, NEW r, Placed(s, b, q, f, r), NEW d, d \subseteq f,
           NEW new, NEW last,
           \A x, y \in new : x.job = y.job => x = y,
           \A x, y \in last : x.job = y.job => x = y,
           \A x \in new : \A y \in last : x.job # y.job,
           \A x \in new : \E p \in d : p[2].attempt.job = x.job,
           \A x \in last : \E p \in d : p[2].attempt.job = x.job,
           \A p \in d : (\E x \in new : x.job = p[2].attempt.job) \/ (\E x \in last : x.job = p[2].attempt.job)
    PROVE  Placed(s \cup new, b, q, f \ d, r \cup last)
  <1> DEFINE t == s \cup new
             g == f \ d
             u == r \cup last
  <1>1. /\ \A x \in t : x \in s \/ x \in new
        /\ \A x \in s : x \in t
        /\ \A x \in new : x \in t
        /\ \A x \in u : x \in r \/ x \in last
        /\ \A x \in r : x \in u
        /\ \A x \in last : x \in u
        /\ \A x \in g : x \in f /\ x \notin d
        /\ \A x \in f : x \in g \/ x \in d
        /\ \A x \in d : x \in f
    OBVIOUS
  <1> HIDE DEF t, g, u
  <1>2. Placed(t, b, q, g, u)
    <2>1. \A x, y \in t : x.job = y.job => x = y
      BY <1>1 DEF Placed
    <2>2. \A x, y \in u : x.job = y.job => x = y
      BY <1>1 DEF Placed
    <2>3. /\ \A x \in t : \A y \in b : x.job # y.job
          /\ \A x \in t : \A y \in q : x.job # y.attempt.job
      BY <1>1 DEF Placed
    <2>4. \A x \in t : \A y \in g : x.job # y[2].attempt.job
      BY <1>1 DEF Placed
    <2>5. \A x \in t : \A y \in u : x.job # y.job
      BY <1>1 DEF Placed
    <2>6. /\ \A x \in b : \A y \in u : x.job # y.job
          /\ \A x \in q : \A y \in u : x.attempt.job # y.job
      BY <1>1 DEF Placed
    <2>7. \A x \in g : \A y \in u : x[2].attempt.job # y.job
      BY <1>1 DEF Placed
    <2>8. \A j \in Jobs : (\E x \in f : x[2].attempt.job = j) =>
               (\E x \in g : x[2].attempt.job = j) \/ (\E x \in t : x.job = j) \/ (\E x \in u : x.job = j)
      BY <1>1
    <2>9. \A j \in Jobs : /\ (\E x \in s : x.job = j) => (\E x \in t : x.job = j)
                          /\ (\E x \in r : x.job = j) => (\E x \in u : x.job = j)
      BY <1>1
    <2> QED BY <1>1, <2>1, <2>2, <2>3, <2>4, <2>5, <2>6, <2>7, <2>8, <2>9 DEF Placed
  <1> QED BY <1>2 DEF t, g, u

\* What is nowhere else is in a final record.
LEMMA AllPlaced ==
    ASSUME NEW s, NEW b, NEW q, NEW f, NEW r, Placed(s, b, q, f, r),
           s = {}, b = {}, q = {}, f = {}, \A x \in r : x.job \in Jobs, IsFiniteSet(Jobs)
    PROVE  Cardinality(r) = Cardinality(Jobs)
  <1> DEFINE g == [x \in r |-> x.job]
  <1>1. g \in Bijection(r, Jobs)
    BY DEF Placed, Bijection, Injection, IsInjective, Surjection
  <1>2. IsFiniteSet(r)
    BY <1>1, FS_Injection DEF Bijection
  <1> QED BY <1>1, <1>2, FS_Bijection DEF ExistsBijection

-----------------------------------------------------------------------------
(* The parts of a pass.                                                    *)

\* The attempts in `came` are admitted to the queue `items`.
Admits(outside, items, came) ==
    /\ blocked' = outside \ came /\ IsFiniteSet(blocked')
    /\ waiting' = items \cup AsAdmitted(came, clock) /\ IsFiniteSet(waiting')
    /\ waiting' \subseteq Entries
    /\ Cardinality(waiting') <= Capacity
    /\ blocked' # {} => Cardinality(waiting') = Capacity
    /\ Cardinality(blocked') + Cardinality(waiting') = Cardinality(outside) + Cardinality(items)
    /\ \A a \in came : \A b \in blocked' : a.ready <= b.ready

LEMMA AdmitBlockedFacts ==
    ASSUME ServiceAssumption, clock \in Nat,
           NEW outside, outside \subseteq Attempts, IsFiniteSet(outside), OneEach(outside),
           NEW items, items \subseteq Entries, IsFiniteSet(items), Cardinality(items) <= Capacity,
           \A a \in outside : \A x \in items : a.job # x.attempt.job,
           AdmitBlocked(outside, items)
    PROVE  \E came \in SUBSET outside : Admits(outside, items, came)
  <1> DEFINE n == Capacity - Cardinality(items)
             E == Earliest(n, outside)
             D == AsAdmitted(E, clock)
  <1>1. Cardinality(items) \in Nat /\ Cardinality(outside) \in Nat /\ Capacity \in Nat
    BY FS_CardinalityType DEF ServiceAssumption
  <1>2. n \in Nat
    BY <1>1
  <1>3. blocked' = outside \ E /\ waiting' = items \cup D
    BY DEF AdmitBlocked, Room, AsAdmitted
  <1> HIDE DEF n
  <1>4. /\ E \subseteq outside
        /\ IsFiniteSet(E) /\ Cardinality(E) <= n
        /\ E # outside => Cardinality(E) = n
        /\ \A a \in E : \A b \in outside \ E : a.ready <= b.ready
    BY <1>2, EarliestFacts
  <1> HIDE DEF E
  <1>5. IsFiniteSet(D) /\ Cardinality(D) = Cardinality(E)
    <2> DEFINE f == [a \in E |-> [attempt |-> a, admitted |-> clock]]
    <2>1. f \in Bijection(E, D)
      <3>1. f \in [E -> D]
        BY DEF AsAdmitted
      <3>2. \A a, b \in E : f[a] = f[b] => a = b
        <4> TAKE a, b \in E
        <4>1. f[a].attempt = a /\ f[b].attempt = b
          OBVIOUS
        <4> QED BY <4>1
      <3>3. \A x \in D : \E a \in E : f[a] = x
        BY DEF AsAdmitted
      <3> HIDE DEF f, D
      <3> QED BY <3>1, <3>2, <3>3 DEF Bijection, Injection, IsInjective, Surjection
    <2> HIDE DEF f
    <2> QED BY <1>4, <2>1, FS_Bijection DEF ExistsBijection
  <1>6. items \cap D = {}
    BY <1>4 DEF AsAdmitted
  <1>7. D \subseteq Entries
    BY <1>4 DEF AsAdmitted, Entries
  <1>8. /\ IsFiniteSet(waiting') /\ waiting' \subseteq Entries
        /\ Cardinality(waiting') = Cardinality(items) + Cardinality(E)
    <2>1. Cardinality(E) \in Nat /\ Cardinality({}) = 0
      BY <1>4, FS_CardinalityType, FS_EmptySet
    <2>2. /\ IsFiniteSet(waiting')
          /\ Cardinality(waiting') = Cardinality(items) + Cardinality(D) - Cardinality(items \cap D)
      BY <1>3, <1>5, FS_Union
    <2>3. Cardinality(items \cap D) = 0
      BY <1>6, <2>1
    <2>4. Cardinality(waiting') = Cardinality(items) + Cardinality(E)
      <3> HIDE DEF D
      <3> QED BY <2>1, <2>2, <2>3, <1>1, <1>5
    <2> QED BY <2>2, <2>4, <1>3, <1>7
  <1>9. /\ IsFiniteSet(blocked')
        /\ Cardinality(blocked') = Cardinality(outside) - Cardinality(E)
    <2>1. outside \cap E = E
      BY <1>4
    <2> QED BY <1>3, <2>1, FS_Difference
  <1>10. Cardinality(E) \in Nat
    BY <1>4, FS_CardinalityType
  <1>11. Cardinality(waiting') <= Capacity
    BY <1>1, <1>4, <1>8, <1>10 DEF n
  <1>12. blocked' # {} => Cardinality(waiting') = Capacity
    <2>1. blocked' # {} => E # outside
      BY <1>3
    <2> QED BY <1>1, <2>1, <1>4, <1>8, <1>10 DEF n
  <1>13. Cardinality(blocked') + Cardinality(waiting') = Cardinality(outside) + Cardinality(items)
    BY <1>1, <1>8, <1>9, <1>10
  <1>14. Admits(outside, items, E)
    BY <1>3, <1>4, <1>8, <1>9, <1>11, <1>12, <1>13 DEF Admits
  <1> QED BY <1>4, <1>14

\* r is the record of entry x, served by worker w in the batch that starts.
RecordOf(r, x, w) ==
    /\ r.job = x.attempt.job /\ r.attempt = x.attempt.attempt /\ r.ready = x.attempt.ready
    /\ r.admitted = x.admitted /\ r.worker = w /\ r.batch = batch + 1
    /\ r.start = clock /\ r.end = free'[w]
    /\ r.result = "retry" => r.attempt < MaxRetries

\* Attempt a repeats what record r failed to do, after worker w is free.
Repeats(a, r, w) ==
    r.result = "retry" /\ a.job = r.job /\ a.attempt = r.attempt + 1 /\ free'[w] <= a.ready

\* A batch of the entries in `selected` leaves the records in `served` and
\* sends the attempts in `again`.
Starts(w, selected, served, again) ==
    /\ source' = source \cup again /\ again \subseteq Attempts /\ IsFiniteSet(again)
    /\ records' = records \cup served /\ served \subseteq Served
    /\ batch' = batch + 1
    /\ free' \in [Workers -> Nat] /\ clock <= free'[w] /\ \A v \in Workers \ {w} : free'[v] = free[v]
    /\ \A r \in served : \E x \in selected : RecordOf(r, x, w)
    /\ \A x \in selected : \E r \in served : RecordOf(r, x, w)
    /\ \A a \in again : \E r \in served : Repeats(a, r, w)
    /\ \A r \in served : r.result = "retry" => \E a \in again : Repeats(a, r, w)
    /\ \A q, r \in served : q.job = r.job => q = r
    /\ \A a, b \in again : a.job = b.job => a = b
    /\ Cardinality(served) = Cardinality(selected)

LEMMA StartBatchFacts ==
    ASSUME ServiceAssumption, TypeOK, NEW w \in Workers,
           NEW selected, selected \subseteq Entries, IsFiniteSet(selected), OneEachEntry(selected),
           StartBatch(w, selected)
    PROVE  \E served \in SUBSET Served : \E again \in SUBSET Attempts : Starts(w, selected, served, again)
  <1>1. PICK service \in Services, failed \in SUBSET {x.attempt : x \in selected} :
        \E delay \in [Retried(failed) -> RetryDelays] :
        LET end == clock + service
        IN  /\ batch' = batch + 1
            /\ free' = [free EXCEPT ![w] = BusyUntil(service)]
            /\ records' = records \cup
                  {[job |-> x.attempt.job, attempt |-> x.attempt.attempt,
                    ready |-> x.attempt.ready, admitted |-> x.admitted,
                    worker |-> w, batch |-> batch + 1, start |-> clock, end |-> end,
                    result |-> IF x.attempt \notin failed THEN "success"
                               ELSE IF IsTerminal(x.attempt) THEN "terminal" ELSE "retry"] :
                   x \in selected}
            /\ source' = source \cup
                  {[job |-> a.job, attempt |-> a.attempt + 1, ready |-> end + delay[a]] :
                   a \in Retried(failed)}
    BY DEF StartBatch
  <1>2. PICK delay \in [Retried(failed) -> RetryDelays] :
        LET end == clock + service
        IN  /\ batch' = batch + 1
            /\ free' = [free EXCEPT ![w] = BusyUntil(service)]
            /\ records' = records \cup
                  {[job |-> x.attempt.job, attempt |-> x.attempt.attempt,
                    ready |-> x.attempt.ready, admitted |-> x.admitted,
                    worker |-> w, batch |-> batch + 1, start |-> clock, end |-> end,
                    result |-> IF x.attempt \notin failed THEN "success"
                               ELSE IF IsTerminal(x.attempt) THEN "terminal" ELSE "retry"] :
                   x \in selected}
            /\ source' = source \cup
                  {[job |-> a.job, attempt |-> a.attempt + 1, ready |-> end + delay[a]] :
                   a \in Retried(failed)}
    BY <1>1
  <1> DEFINE end == clock + service
             outcome(x) == IF x.attempt \notin failed THEN "success"
                           ELSE IF IsTerminal(x.attempt) THEN "terminal" ELSE "retry"
             rec(x) == [job |-> x.attempt.job, attempt |-> x.attempt.attempt,
                        ready |-> x.attempt.ready, admitted |-> x.admitted,
                        worker |-> w, batch |-> batch + 1, start |-> clock, end |-> end,
                        result |-> outcome(x)]
             next(a) == [job |-> a.job, attempt |-> a.attempt + 1, ready |-> end + delay[a]]
             served == {rec(x) : x \in selected}
             again == {next(a) : a \in Retried(failed)}
  <1>3. /\ batch' = batch + 1 /\ free' = [free EXCEPT ![w] = end]
        /\ records' = records \cup served /\ source' = source \cup again
    BY <1>2 DEF BusyUntil
  <1>4. end \in Nat /\ clock <= end /\ batch + 1 \in Nat /\ clock \in Nat
    BY DEF ServiceAssumption, TypeOK
  <1>5. /\ free' \in [Workers -> Nat] /\ free'[w] = end
        /\ \A v \in Workers \ {w} : free'[v] = free[v]
    BY <1>3, <1>4 DEF TypeOK
  <1> HIDE DEF end
  <1>6. \A x \in selected : x.attempt \in Attempts /\ x.admitted \in Nat /\ outcome(x) \in {"success", "retry", "terminal"}
    BY DEF Entries
  <1>7. \A x \in selected : rec(x) \in Served /\ RecordOf(rec(x), x, w)
    <2> TAKE x \in selected
    <2>1. rec(x) \in Served
      <3> HIDE DEF outcome
      <3> QED BY <1>4, <1>6 DEF Attempts, Served
    <2>2. rec(x).result = "retry" => rec(x).attempt < MaxRetries
      <3>1. rec(x).result = outcome(x) /\ rec(x).attempt = x.attempt.attempt
        OBVIOUS
      <3>2. x.attempt.attempt \in Int /\ MaxRetries \in Int
        BY <1>6 DEF Attempts, ServiceAssumption
      <3> QED BY <3>1, <3>2 DEF IsTerminal
    <2>3. RecordOf(rec(x), x, w)
      <3> HIDE DEF outcome
      <3> QED BY <2>2, <1>5 DEF RecordOf
    <2> QED BY <2>1, <2>3
  <1>8. \A a \in Retried(failed) : a \in Attempts /\ a.attempt < MaxRetries
    BY <1>6 DEF Retried, IsTerminal, Attempts, ServiceAssumption
  <1>9. \A a \in Retried(failed) : delay[a] \in Nat
    BY DEF ServiceAssumption
  <1>10. \A a \in Retried(failed) : next(a) \in Attempts /\ end <= next(a).ready
    <2> TAKE a \in Retried(failed)
    <2>1. a.job \in Jobs /\ a.attempt + 1 \in 0..MaxRetries /\ end + delay[a] \in Nat /\ end <= end + delay[a]
      BY <1>4, <1>8, <1>9 DEF Attempts, ServiceAssumption
    <2> QED BY <2>1 DEF Attempts
  <1>11. \A x \in selected : rec(x).result = "retry" <=> x.attempt \in Retried(failed)
    BY DEF Retried
  <1>12. \A a \in Retried(failed) : \E x \in selected : x.attempt = a
    BY DEF Retried
  <1>13. IsFiniteSet(again)
    <2> DEFINE S == {x \in selected : x.attempt \in Retried(failed)}
               f == [x \in S |-> next(x.attempt)]
    <2>1. IsFiniteSet(S)
      BY FS_Subset
    <2>2. f \in Surjection(S, again)
      <3>1. f \in [S -> again]
        OBVIOUS
      <3>2. \A y \in again : \E x \in S : f[x] = y
        <4> TAKE y \in again
        <4>1. PICK a \in Retried(failed) : y = next(a)
          OBVIOUS
        <4>2. PICK x \in selected : x.attempt = a
          BY <1>12
        <4>3. x \in S /\ f[x] = next(a)
          BY <4>2
        <4> QED BY <4>1, <4>3
      <3> HIDE DEF f, S, again
      <3> QED BY <3>1, <3>2 DEF Surjection
    <2> HIDE DEF f, S, again
    <2> QED BY <2>1, <2>2, FS_Surjection
  <1>14. Cardinality(served) = Cardinality(selected)
    <2> DEFINE f == [x \in selected |-> rec(x)]
    <2>1. f \in Bijection(selected, served)
      <3>1. f \in [selected -> served]
        OBVIOUS
      <3>2. \A x, y \in selected : f[x] = f[y] => x = y
        <4> TAKE x, y \in selected
        <4>1. f[x].job = x.attempt.job /\ f[y].job = y.attempt.job
          BY <1>7 DEF RecordOf
        <4> HIDE DEF f, rec
        <4> QED BY <4>1 DEF OneEachEntry
      <3>3. \A r \in served : \E x \in selected : f[x] = r
        OBVIOUS
      <3> HIDE DEF f, served
      <3> QED BY <3>1, <3>2, <3>3 DEF Bijection, Injection, IsInjective, Surjection
    <2> HIDE DEF f, served
    <2> QED BY <2>1, FS_Bijection DEF ExistsBijection
  <1>15. \A q, r \in served : q.job = r.job => q = r
    <2> TAKE q, r \in served
    <2>1. PICK x \in selected : q = rec(x)
      OBVIOUS
    <2>2. PICK y \in selected : r = rec(y)
      OBVIOUS
    <2>3. q.job = x.attempt.job /\ r.job = y.attempt.job
      BY <2>1, <2>2, <1>7 DEF RecordOf
    <2> HIDE DEF rec
    <2> QED BY <2>1, <2>2, <2>3 DEF OneEachEntry
  <1>16. \A a, b \in again : a.job = b.job => a = b
    <2> TAKE a, b \in again
    <2>1. PICK x \in selected : x.attempt \in Retried(failed) /\ a = next(x.attempt)
      BY <1>12
    <2>2. PICK y \in selected : y.attempt \in Retried(failed) /\ b = next(y.attempt)
      BY <1>12
    <2>3. a.job = x.attempt.job /\ b.job = y.attempt.job
      BY <2>1, <2>2
    <2> HIDE DEF next
    <2> QED BY <2>1, <2>2, <2>3 DEF OneEachEntry
  <1>17. \A x \in selected : x.attempt \in Retried(failed) => Repeats(next(x.attempt), rec(x), w)
    <2> SUFFICES ASSUME NEW x \in selected, x.attempt \in Retried(failed)
                 PROVE  Repeats(next(x.attempt), rec(x), w)
      OBVIOUS
    <2>1. rec(x).result = "retry" /\ rec(x).job = x.attempt.job /\ rec(x).attempt = x.attempt.attempt
      BY <1>7, <1>11 DEF RecordOf
    <2>2. free'[w] <= next(x.attempt).ready
      BY <1>5, <1>10
    <2>3. next(x.attempt).job = x.attempt.job /\ next(x.attempt).attempt = x.attempt.attempt + 1
      OBVIOUS
    <2> HIDE DEF rec, next
    <2> QED BY <2>1, <2>2, <2>3 DEF Repeats
  <1>18. \A a \in again : \E r \in served : Repeats(a, r, w)
    <2> TAKE a \in again
    <2>1. PICK x \in selected : x.attempt \in Retried(failed) /\ a = next(x.attempt)
      BY <1>12
    <2>2. rec(x) \in served
      OBVIOUS
    <2> HIDE DEF rec, next, served
    <2> QED BY <2>1, <2>2, <1>17
  <1>19. \A r \in served : r.result = "retry" => \E a \in again : Repeats(a, r, w)
    <2> SUFFICES ASSUME NEW r \in served, r.result = "retry"
                 PROVE  \E a \in again : Repeats(a, r, w)
      OBVIOUS
    <2>1. PICK x \in selected : r = rec(x)
      OBVIOUS
    <2>2. x.attempt \in Retried(failed)
      BY <2>1, <1>11
    <2>3. next(x.attempt) \in again
      BY <2>2
    <2> HIDE DEF rec, next, again
    <2> QED BY <2>1, <2>2, <2>3, <1>17
  <1>20. /\ \A r \in served : \E x \in selected : RecordOf(r, x, w)
         /\ \A x \in selected : \E r \in served : RecordOf(r, x, w)
         /\ served \subseteq Served
    <2> HIDE DEF rec
    <2> QED BY <1>7
  <1>21. again \subseteq Attempts
    <2> HIDE DEF next
    <2> QED BY <1>10
  <1> HIDE DEF served, again
  <1>22. Starts(w, selected, served, again)
    BY <1>3, <1>4, <1>5, <1>13, <1>14, <1>15, <1>16, <1>18, <1>19, <1>20, <1>21 DEF Starts
  <1> QED BY <1>20, <1>21, <1>22

-----------------------------------------------------------------------------
(* The order of admission.                                                 *)

\* A set of admissions, as times not after `now`.
Stamped(m, now) ==
    \A x \in m : x.ready \in Nat /\ x.admitted \in Nat /\ x.ready <= x.admitted /\ x.admitted <= now

AdmissionOf(x) == [ready |-> x.attempt.ready, admitted |-> x.admitted]

\* The admissions of a queue q, of what is forming f and of the records r.
AdmissionsOf(q, f, r) ==
    {[ready |-> x.ready, admitted |-> x.admitted] : x \in r}
    \cup {AdmissionOf(x) : x \in q} \cup {AdmissionOf(p[2]) : p \in f}

LEMMA AdmissionsAre ==
    /\ Admissions = AdmissionsOf(waiting, Forming(formations), records)
    /\ Admissions' = AdmissionsOf(waiting', Forming(formations'), records')
  <1>1. ASSUME NEW g
        PROVE  {AdmissionOf(x) : x \in UNION {g[w].selected : w \in DOMAIN g}}
                  = {AdmissionOf(p[2]) : p \in Forming(g)}
    <2>1. ASSUME NEW x \in UNION {g[w].selected : w \in DOMAIN g}
          PROVE  \E p \in Forming(g) : p[2] = x
      <3>1. PICK w \in DOMAIN g : x \in g[w].selected
        OBVIOUS
      <3>2. <<w, x>> \in Forming(g) /\ <<w, x>>[2] = x
        BY <3>1 DEF Forming
      <3> QED BY <3>2
    <2>2. ASSUME NEW p \in Forming(g)
          PROVE  p[2] \in UNION {g[w].selected : w \in DOMAIN g}
      <3>1. PICK w \in DOMAIN g : \E x \in g[w].selected : p = <<w, x>>
        BY DEF Forming
      <3> QED BY <3>1
    <2> DEFINE U == UNION {g[w].selected : w \in DOMAIN g}
               F == Forming(g)
    <2> HIDE DEF U, F
    <2>3. {AdmissionOf(x) : x \in U} = {AdmissionOf(p[2]) : p \in F}
      <3>1. \A x \in U : \E p \in F : p[2] = x
        BY <2>1 DEF U, F
      <3>2. \A p \in F : p[2] \in U
        BY <2>2 DEF U, F
      <3> QED BY <3>1, <3>2
    <2> QED BY <2>3 DEF U, F
  <1>2. Admissions = AdmissionsOf(waiting, Forming(formations), records)
    <2>1. {AdmissionOf(x) : x \in waiting \cup UNION {Selected(w) : w \in DOMAIN formations}}
             = {AdmissionOf(x) : x \in waiting}
               \cup {AdmissionOf(x) : x \in UNION {formations[w].selected : w \in DOMAIN formations}}
      BY DEF Selected
    <2> QED BY <1>1, <2>1 DEF Admissions, AdmissionsOf, AdmissionOf
  <1>3. Admissions' = AdmissionsOf(waiting', Forming(formations'), records')
    <2>1. {AdmissionOf(x) : x \in waiting' \cup UNION {Selected(w)' : w \in DOMAIN formations'}}
             = {AdmissionOf(x) : x \in waiting'}
               \cup {AdmissionOf(x) : x \in UNION {formations'[w].selected : w \in DOMAIN formations'}}
      BY DEF Selected
    <2> QED BY <1>1, <2>1 DEF Admissions, AdmissionsOf, AdmissionOf
  <1> QED BY <1>2, <1>3

\* Admissions of entries that are chained are stamped.
LEMMA AdmissionsStamped ==
    ASSUME ServiceAssumption, clock \in Nat, records \subseteq Served, RetriesFollowFailures,
           \A r \in records : r.start <= clock,
           NEW q, q \subseteq Entries, \A x \in q : Timely(x, records, clock),
           NEW f, \A p \in f : p[2] \in Entries /\ Timely(p[2], records, clock)
    PROVE  Stamped(AdmissionsOf(q, f, records), clock)
  <1>1. \A x \in Entries : AdmissionOf(x).ready = x.attempt.ready /\ AdmissionOf(x).admitted = x.admitted
                           /\ x.attempt.ready \in Nat /\ x.admitted \in Nat
    BY DEF AdmissionOf, Entries, Attempts
  <1>2. \A m \in {AdmissionOf(x) : x \in q} :
           m.ready \in Nat /\ m.admitted \in Nat /\ m.ready <= m.admitted /\ m.admitted <= clock
    BY <1>1 DEF Timely
  <1>3. \A m \in {AdmissionOf(p[2]) : p \in f} :
           m.ready \in Nat /\ m.admitted \in Nat /\ m.ready <= m.admitted /\ m.admitted <= clock
    BY <1>1 DEF Timely
  <1>4. \A r \in records : /\ r.ready \in Nat /\ r.admitted \in Nat /\ r.start \in Nat
                           /\ r.ready <= r.admitted /\ r.admitted <= clock
    <2> TAKE r \in records
    <2>1. r.ready \in Nat /\ r.admitted \in Nat /\ r.start \in Nat
      BY DEF Served
    <2>2. r.ready <= r.admitted /\ r.admitted <= r.start /\ r.start <= clock
      BY DEF RetriesFollowFailures
    <2> QED BY <2>1, <2>2
  <1>5. \A m \in {[ready |-> x.ready, admitted |-> x.admitted] : x \in records} :
           m.ready \in Nat /\ m.admitted \in Nat /\ m.ready <= m.admitted /\ m.admitted <= clock
    BY <1>4
  <1> QED BY <1>2, <1>3, <1>5 DEF Stamped, AdmissionsOf

\* The earliest of those on the way arrive.
LEMMA ArriveOrdered ==
    ASSUME NEW s, NEW b, NEW m, Ordered(s, b, m), NEW d, d \subseteq s,
           \A x \in d : \A y \in s \ d : x.ready <= y.ready
    PROVE  Ordered(s \ d, b \cup d, m)
  BY DEF Ordered

\* The earliest of the blocked are admitted now.
LEMMA AdmitOrdered ==
    ASSUME NEW s, NEW b, NEW m, Ordered(s, b, m), NEW d, d \subseteq b,
           \A x \in d : \A y \in b \ d : x.ready <= y.ready,
           NEW now \in Nat, Stamped(m, now), \A x \in b : x.ready \in Nat
    PROVE  Ordered(s, b \ d, m \cup {[ready |-> x.ready, admitted |-> now] : x \in d})
  <1> DEFINE n == {[ready |-> x.ready, admitted |-> now] : x \in d}
  <1>1. \A y \in n : y.admitted = now /\ \E x \in d : y.ready = x.ready
    OBVIOUS
  <1> HIDE DEF n
  <1>2. \A x, y \in m \cup n : x.ready < y.ready => x.admitted <= y.admitted
    <2> SUFFICES ASSUME NEW x \in m \cup n, NEW y \in m \cup n, x.ready < y.ready
                 PROVE  x.admitted <= y.admitted
      OBVIOUS
    <2>1. CASE x \in m /\ y \in m
      BY <2>1 DEF Ordered
    <2>2. CASE x \in m /\ y \in n
      BY <2>2, <1>1 DEF Stamped
    <2>3. CASE x \in n /\ y \in m
      <3>1. PICK a \in d : x.ready = a.ready
        BY <1>1, <2>3
      <3>2. y.ready <= a.ready /\ y.ready \in Nat /\ a.ready \in Nat
        BY <2>3 DEF Ordered, Stamped
      <3> QED BY <3>1, <3>2
    <2>4. CASE x \in n /\ y \in n
      BY <2>4, <1>1
    <2> QED BY <2>1, <2>2, <2>3, <2>4
  <1>3. \A x \in m \cup n : \A y \in b \ d : x.ready <= y.ready
    BY <1>1 DEF Ordered
  <1>4. \A x \in s : \A y \in (b \ d) \cup (m \cup n) : y.ready <= x.ready
    BY <1>1 DEF Ordered
  <1>5. Ordered(s, b \ d, m \cup n)
    BY <1>2, <1>3, <1>4 DEF Ordered
  <1> QED BY <1>5 DEF n

\* What is sent again is ready after all that came.
LEMMA AgainOrdered ==
    ASSUME NEW s, NEW b, NEW m, Ordered(s, b, m), NEW again, NEW now \in Nat, Stamped(m, now),
           \A x \in again : x.ready \in Nat /\ now <= x.ready,
           \A x \in b : x.ready \in Nat /\ x.ready <= now
    PROVE  Ordered(s \cup again, b, m)
  <1>1. ASSUME NEW x \in again, NEW y \in b \cup m
        PROVE  y.ready <= x.ready
    <2>1. y.ready \in Nat /\ y.ready <= now
      BY DEF Stamped
    <2> QED BY <2>1
  <1> QED BY <1>1 DEF Ordered

-----------------------------------------------------------------------------
(* A batch is served.                                                      *)

LEMMA ServePlaced ==
    ASSUME NEW w, NEW selected, NEW served, NEW again, Starts(w, selected, served, again),
           NEW b, NEW q, NEW f, Placed(source, b, q, f, Final(records)), {w} \X selected \subseteq f
    PROVE  Placed(source', b, q, f \ ({w} \X selected), Final(records'))
  <1> DEFINE d == {w} \X selected
             last == Final(served)
  <1>1. source' = source \cup again /\ Final(records') = Final(records) \cup last
    BY DEF Starts, Final
  <1>2. \A x \in last : x \in served /\ x.result # "retry"
    BY DEF Final
  <1>3. \A x, y \in again : x.job = y.job => x = y
    BY DEF Starts
  <1>4. \A x, y \in last : x.job = y.job => x = y
    BY <1>2 DEF Starts
  <1>5. \A x \in again : \E r \in served : r.result = "retry" /\ r.job = x.job
    BY DEF Starts, Repeats
  <1>6. \A x \in again : \A y \in last : x.job # y.job
    BY <1>2, <1>5 DEF Starts
  <1>7. \A r \in served : \E p \in d : p[2].attempt.job = r.job
    <2> TAKE r \in served
    <2>1. PICK x \in selected : RecordOf(r, x, w)
      BY DEF Starts
    <2>2. <<w, x>> \in d /\ <<w, x>>[2] = x /\ x.attempt.job = r.job
      BY <2>1 DEF RecordOf
    <2> QED BY <2>2
  <1>8. /\ \A x \in again : \E p \in d : p[2].attempt.job = x.job
        /\ \A x \in last : \E p \in d : p[2].attempt.job = x.job
    <2> HIDE DEF d
    <2> QED BY <1>2, <1>5, <1>7
  <1>9. \A p \in d : (\E x \in again : x.job = p[2].attempt.job) \/ (\E x \in last : x.job = p[2].attempt.job)
    <2> TAKE p \in d
    <2>1. p[2] \in selected
      OBVIOUS
    <2>2. PICK r \in served : RecordOf(r, p[2], w)
      BY <2>1 DEF Starts
    <2>3. r.job = p[2].attempt.job
      BY <2>2 DEF RecordOf
    <2>4. CASE r.result = "retry"
      <3>1. PICK a \in again : Repeats(a, r, w)
        BY <2>4 DEF Starts
      <3> QED BY <2>3, <3>1 DEF Repeats
    <2>5. CASE r.result # "retry"
      <3>1. r \in last
        BY <2>5 DEF Final
      <3> QED BY <2>3, <3>1
    <2> QED BY <2>4, <2>5
  <1> HIDE DEF d, last
  <1>10. d \subseteq f
    BY DEF d
  <1>11. Placed(source \cup again, b, q, f \ d, Final(records) \cup last)
    BY <1>3, <1>4, <1>6, <1>8, <1>9, <1>10, ServeMove
  <1> QED BY <1>1, <1>11 DEF d

\* What is due stays due when other jobs are served.
LEMMA DueKept ==
    ASSUME NEW a, NEW r, NEW more, Due(a, r), \A x \in more : x.job # a.job
    PROVE  Due(a, r \cup more)
  BY DEF Due

LEMMA ServeChained ==
    ASSUME ServiceAssumption, TypeOK, NEW w \in Workers,
           NEW selected, selected \subseteq Entries,
           NEW served, NEW again, Starts(w, selected, served, again),
           NEW b, NEW q, NEW f, Placed(source, b, q, f, Final(records)), {w} \X selected \subseteq f,
           Chained(source, b, q, f, records), RetriesFollowFailures
    PROVE  /\ Chained(source', b, q, f \ ({w} \X selected), records')
           /\ RetriesFollowFailures'
  <1> DEFINE g == f \ ({w} \X selected)
  <1>1. source' = source \cup again /\ records' = records \cup served
    BY DEF Starts
  <1>2. \A x \in selected : <<w, x>> \in f /\ <<w, x>>[2] = x
    OBVIOUS
  <1>3. \A p \in g : p \in f /\ \A x \in selected : p # <<w, x>>
    OBVIOUS
  <1> HIDE DEF g
  <1>4. \A r \in served : \E x \in selected : RecordOf(r, x, w) /\ r.job = x.attempt.job
    BY DEF Starts, RecordOf
  <1>5. \A x \in selected : Timely(x, records, clock)
    <2> TAKE x \in selected
    <2>1. \A p \in f : Timely(p[2], records, clock)
      BY DEF Chained
    <2>2. Timely(<<w, x>>[2], records, clock)
      BY <1>2, <2>1
    <2> QED BY <2>2
  <1>6. /\ \A r \in served : \A a \in source : r.job # a.job
        /\ \A r \in served : \A a \in b : r.job # a.job
        /\ \A r \in served : \A x \in q : r.job # x.attempt.job
        /\ \A r \in served : \A p \in g : r.job # p[2].attempt.job
    <2> SUFFICES ASSUME NEW r \in served
                 PROVE  /\ \A a \in source : r.job # a.job
                        /\ \A a \in b : r.job # a.job
                        /\ \A x \in q : r.job # x.attempt.job
                        /\ \A p \in g : r.job # p[2].attempt.job
      OBVIOUS
    <2>1. PICK x \in selected : r.job = x.attempt.job
      BY <1>4
    <2> DEFINE u == <<w, x>>
    <2>2. u \in f /\ u[2].attempt.job = r.job
      BY <1>2, <2>1
    <2>3. \A p \in g : p \in f /\ p # u
      BY <1>3
    <2> HIDE DEF u
    <2> QED BY <2>2, <2>3 DEF Placed
  <1>7. \A a \in again : Due(a, records')
    <2> TAKE a \in again
    <2>1. PICK r \in served : Repeats(a, r, w)
      BY DEF Starts
    <2>2. PICK x \in selected : RecordOf(r, x, w)
      BY DEF Starts
    <2>3. \A y \in records : y.job = r.job => y.attempt < r.attempt
      BY <1>5, <2>2 DEF Timely, Due, RecordOf
    <2>4. \A y \in served : y.job = r.job => y = r
      BY DEF Starts
    <2>5. a.attempt = r.attempt + 1 /\ r.attempt \in Nat
      <3>1. r \in Served
        BY DEF Starts
      <3> QED BY <2>1, <3>1 DEF Repeats, Served
    <2>6. a.job = r.job /\ r.result = "retry" /\ r.end <= a.ready
      BY <2>1, <2>2 DEF Repeats, RecordOf
    <2>7. \A y \in records : y.attempt \in Int
      BY DEF TypeOK, Served
    <2>8. \A y \in records' : y.job = a.job => y.attempt < a.attempt
      BY <1>1, <2>3, <2>4, <2>5, <2>6, <2>7
    <2>9. r.attempt = a.attempt - 1 /\ r \in records'
      BY <1>1, <2>5
    <2> QED BY <2>6, <2>8, <2>9 DEF Due
  <1>8. \A a \in source : Due(a, records')
    <2> TAKE a \in source
    <2>1. Due(a, records) /\ \A r \in served : r.job # a.job
      BY <1>6 DEF Chained
    <2> QED BY <1>1, <2>1, DueKept
  <1>9. \A a \in b : Due(a, records') /\ a.ready <= clock
    <2> TAKE a \in b
    <2>1. Due(a, records) /\ a.ready <= clock /\ \A r \in served : r.job # a.job
      BY <1>6 DEF Chained
    <2> QED BY <1>1, <2>1, DueKept
  <1>10. \A x \in q : Timely(x, records', clock)
    <2> TAKE x \in q
    <2>1. Timely(x, records, clock) /\ \A r \in served : r.job # x.attempt.job
      BY <1>6 DEF Chained
    <2>2. Due(x.attempt, records \cup served)
      BY <2>1, DueKept DEF Timely
    <2> QED BY <1>1, <2>1, <2>2 DEF Timely
  <1>11. \A p \in g : Timely(p[2], records', clock)
    <2> TAKE p \in g
    <2>1. Timely(p[2], records, clock) /\ \A r \in served : r.job # p[2].attempt.job
      BY <1>3, <1>6 DEF Chained
    <2>2. Due(p[2].attempt, records \cup served)
      BY <2>1, DueKept DEF Timely
    <2> QED BY <1>1, <2>1, <2>2 DEF Timely
  <1>12. Chained(source', b, q, g, records')
    BY <1>1, <1>7, <1>8, <1>9, <1>10, <1>11 DEF Chained
  <1>13. RetriesFollowFailures'
    <2> SUFFICES ASSUME NEW r \in records'
                 PROVE  /\ r.ready <= r.admitted /\ r.admitted <= r.start
                        /\ r.result = "retry" => r.attempt < MaxRetries
                        /\ \A y \in records' : y.job = r.job /\ y.attempt = r.attempt => y = r
                        /\ r.attempt > 0 =>
                              \E y \in records' : /\ y.job = r.job /\ y.attempt = r.attempt - 1
                                                  /\ y.result = "retry" /\ y.end <= r.ready
      BY DEF RetriesFollowFailures
    <2>1. \A x \in selected : x.attempt.attempt \in Int
      BY DEF Entries, Attempts
    <2>2. \A y \in served : \A z \in records : ~(z.job = y.job /\ z.attempt = y.attempt)
      <3> TAKE y \in served
      <3>1. PICK x \in selected : RecordOf(y, x, w)
        BY DEF Starts
      <3>2. \A z \in records : z.job = y.job => z.attempt < y.attempt
        BY <1>5, <3>1 DEF Timely, Due, RecordOf
      <3>3. y.attempt \in Int
        BY <2>1, <3>1 DEF RecordOf
      <3> QED BY <3>2, <3>3
    <2>3. CASE r \in records
      <3>1. \A y \in records' : y.job = r.job /\ y.attempt = r.attempt => y = r
        BY <1>1, <2>2, <2>3 DEF RetriesFollowFailures
      <3> QED BY <1>1, <2>3, <3>1 DEF RetriesFollowFailures
    <2>4. CASE r \in served
      <3>1. PICK x \in selected : RecordOf(r, x, w)
        BY <2>4 DEF Starts
      <3>2. \A y \in records' : y.job = r.job /\ y.attempt = r.attempt => y = r
        BY <1>1, <2>2, <2>4 DEF Starts
      <3>3. r.attempt > 0 =>
                \E y \in records : /\ y.job = r.job /\ y.attempt = r.attempt - 1
                                   /\ y.result = "retry" /\ y.end <= r.ready
        BY <1>5, <3>1 DEF Timely, Due, RecordOf
      <3>4. /\ r.ready <= r.admitted /\ r.admitted <= r.start
            /\ r.result = "retry" => r.attempt < MaxRetries
        BY <1>5, <3>1 DEF Timely, RecordOf
      <3> QED BY <1>1, <3>2, <3>3, <3>4
    <2> QED BY <1>1, <2>3, <2>4
  <1> QED BY <1>12, <1>13 DEF g

LEMMA ServeWorkers ==
    ASSUME ServiceAssumption, TypeOK, WorkersInv, NEW w \in Workers,
           NEW selected, NEW served, NEW again, Starts(w, selected, served, again),
           free[w] <= clock, clock' = clock,
           DOMAIN formations' \subseteq DOMAIN formations, w \notin DOMAIN formations'
    PROVE  WorkersInv'
  <1>1. records' = records \cup served /\ batch' = batch + 1 /\ clock <= free'[w] /\ served \subseteq Served
    BY DEF Starts
  <1>2. \A r \in served : r.worker = w /\ r.batch = batch + 1 /\ r.start = clock /\ r.end = free'[w]
    BY DEF Starts, RecordOf
  <1>3. \A r \in records : /\ r.end \in Nat /\ r.start \in Nat /\ r.batch \in 1..batch /\ r.worker \in Workers
                           /\ r.end <= free[r.worker] /\ r.start <= clock
    BY DEF TypeOK, Served, WorkersInv
  <1>4. \A v \in Workers : free[v] \in Nat /\ free'[v] \in Nat
    BY DEF TypeOK, Starts
  <1>5. batch \in Nat /\ clock \in Nat /\ free[w] <= free'[w]
    BY <1>1, <1>4 DEF TypeOK
  <1>6. \A v \in Workers : free[v] <= free'[v]
    BY <1>4, <1>5 DEF Starts
  <1>7. \A q, r \in records' : q.worker = r.worker /\ q.batch < r.batch => q.end <= r.start
    <2> SUFFICES ASSUME NEW q \in records', NEW r \in records', q.worker = r.worker, q.batch < r.batch
                 PROVE  q.end <= r.start
      OBVIOUS
    <2>1. CASE q \in records /\ r \in records
      BY <2>1 DEF WorkersInv, WorkersSerial
    <2>2. CASE q \in records /\ r \in served
      <3>1. q.end <= free[w] /\ r.start = clock /\ q.end \in Nat
        BY <2>2, <1>2, <1>3
      <3> QED BY <3>1, <1>4, <1>5
    <2>3. CASE q \in served
      <3>1. q.batch = batch + 1 /\ r.batch <= batch + 1 /\ r.batch \in Int
        BY <1>1, <1>2, <1>3, <1>5, <2>3
      <3> QED BY <3>1, <1>5
    <2> QED BY <1>1, <2>1, <2>2, <2>3
  <1>8. \A v \in DOMAIN formations' : free'[v] <= clock'
    <2> TAKE v \in DOMAIN formations'
    <2>1. v \in Workers /\ v # w /\ free[v] <= clock
      BY DEF TypeOK, WorkersInv, WorkersSerial
    <2>2. free'[v] = free[v]
      BY <2>1 DEF Starts
    <2> QED BY <2>1, <2>2
  <1>9. \A r \in records' : r.end <= free'[r.worker] /\ r.start <= clock' /\ r.batch \in 1..batch'
    <2> TAKE r \in records'
    <2>1. CASE r \in records
      <3>1. /\ r.end \in Nat /\ r.end <= free[r.worker] /\ free[r.worker] <= free'[r.worker]
            /\ free[r.worker] \in Nat /\ free'[r.worker] \in Nat
        BY <1>3, <1>4, <1>6, <2>1
      <3>2. r.end <= free'[r.worker]
        BY <3>1
      <3>3. r.batch \in 1..batch'
        BY <1>1, <1>3, <1>5, <2>1
      <3> QED BY <1>3, <2>1, <3>2, <3>3
    <2>2. CASE r \in served
      <3>1. r.worker = w /\ r.end = free'[w] /\ r.start = clock /\ r.batch = batch'
        BY <1>1, <1>2, <2>2
      <3>2. r.batch \in 1..batch' /\ free'[w] \in Nat
        BY <1>1, <1>4, <1>5, <3>1
      <3> QED BY <1>5, <3>1, <3>2
    <2> QED BY <1>1, <2>1, <2>2
  <1> QED BY <1>7, <1>8, <1>9 DEF WorkersInv, WorkersSerial

LEMMA ServeLegal ==
    ASSUME ServiceAssumption, TypeOK, WorkersInv, ServedLegal, NEW w \in Workers,
           NEW selected, Cardinality(selected) \in 1..MaxBatch,
           NEW kind, \A x \in selected : Kind(x.attempt.job) = kind,
           NEW served, NEW again, Starts(w, selected, served, again), job' = job
    PROVE  ServedLegal'
  <1>1. records' = records \cup served /\ batch' = batch + 1 /\ batch \in Nat
    BY DEF Starts, TypeOK
  <1>2. \A r \in served : r.batch = batch + 1 /\ Kind(r.job) = kind
    BY DEF Starts, RecordOf
  <1>3. \A r \in records : r.batch \in 1..batch
    BY DEF WorkersInv
  <1>4. \A q, r \in records' : q.batch = r.batch => Kind(q.job) = Kind(r.job)
    <2> SUFFICES ASSUME NEW q \in records', NEW r \in records', q.batch = r.batch
                 PROVE  Kind(q.job) = Kind(r.job)
      OBVIOUS
    <2>1. \A x \in records : \A y \in served : x.batch # y.batch
      BY <1>1, <1>2, <1>3
    <2> QED BY <1>1, <1>2, <2>1 DEF ServedLegal
  <1>5. \A j \in Jobs : Kind(j)' = Kind(j)
    BY DEF Kind
  <1>6. \A q, r \in records' : q.batch = r.batch => Kind(q.job)' = Kind(r.job)'
    BY <1>4 DEF Kind
  <1>7. ASSUME NEW b \in 1..batch'
        PROVE  Cardinality(InBatch(b, records')) \in 1..MaxBatch
    <2>1. CASE b = batch + 1
      <3>1. InBatch(b, records') = served
        BY <1>1, <1>2, <1>3, <2>1 DEF InBatch
      <3> QED BY <3>1 DEF Starts
    <2>2. CASE b # batch + 1
      <3>1. InBatch(b, records') = InBatch(b, records)
        BY <1>1, <1>2, <2>2 DEF InBatch
      <3>2. b \in 1..batch
        BY <1>1, <1>7, <2>2
      <3> QED BY <3>1, <3>2 DEF ServedLegal
    <2> QED BY <2>1, <2>2
  <1> QED BY <1>6, <1>7 DEF ServedLegal, InBatch

\* What is served was admitted before.
LEMMA ServeAdmissions ==
    ASSUME NEW w, NEW selected, NEW served, NEW again, Starts(w, selected, served, again),
           NEW q, NEW f, {w} \X selected \subseteq f
    PROVE  AdmissionsOf(q, f \ ({w} \X selected), records') = AdmissionsOf(q, f, records)
  <1> DEFINE d == {w} \X selected
             stamp(r) == [ready |-> r.ready, admitted |-> r.admitted]
  <1>1. {stamp(r) : r \in records'} = {stamp(r) : r \in records} \cup {stamp(r) : r \in served}
    BY DEF Starts
  <1>2. {stamp(r) : r \in served} = {AdmissionOf(p[2]) : p \in d}
    <2>1. \A r \in served : \E p \in d : stamp(r) = AdmissionOf(p[2])
      <3> TAKE r \in served
      <3>1. PICK x \in selected : RecordOf(r, x, w)
        BY DEF Starts
      <3>2. <<w, x>> \in d /\ <<w, x>>[2] = x
        OBVIOUS
      <3>3. stamp(r) = AdmissionOf(x)
        BY <3>1 DEF RecordOf, AdmissionOf
      <3> QED BY <3>2, <3>3
    <2>2. \A p \in d : \E r \in served : stamp(r) = AdmissionOf(p[2])
      <3> TAKE p \in d
      <3>1. p[2] \in selected
        OBVIOUS
      <3>2. PICK r \in served : RecordOf(r, p[2], w)
        BY <3>1 DEF Starts
      <3> QED BY <3>2 DEF RecordOf, AdmissionOf
    <2> HIDE DEF d, stamp
    <2> QED BY <2>1, <2>2
  <1>3. {AdmissionOf(p[2]) : p \in f} = {AdmissionOf(p[2]) : p \in f \ d} \cup {AdmissionOf(p[2]) : p \in d}
    <2> HIDE DEF d
    <2>1. d \subseteq f
      BY DEF d
    <2> QED BY <2>1
  <1> DEFINE rNew == {stamp(r) : r \in records'}
             rOld == {stamp(r) : r \in records}
             rServed == {stamp(r) : r \in served}
             fAll == {AdmissionOf(p[2]) : p \in f}
             fLeft == {AdmissionOf(p[2]) : p \in f \ d}
             fGone == {AdmissionOf(p[2]) : p \in d}
             qAll == {AdmissionOf(x) : x \in q}
  <1>4. /\ AdmissionsOf(q, f \ d, records') = rNew \cup qAll \cup fLeft
        /\ AdmissionsOf(q, f, records) = rOld \cup qAll \cup fAll
    BY DEF AdmissionsOf
  <1>5. rNew = rOld \cup rServed /\ rServed = fGone /\ fAll = fLeft \cup fGone
    BY <1>1, <1>2, <1>3
  <1> HIDE DEF rNew, rOld, rServed, fAll, fLeft, fGone, qAll, d
  <1>6. AdmissionsOf(q, f \ d, records') = AdmissionsOf(q, f, records)
    BY <1>4, <1>5
  <1> QED BY <1>6 DEF d

-----------------------------------------------------------------------------
(* The attempts on their way: in one place each, due, and in order.        *)

Flow(s, b, q, f, r) ==
    /\ Placed(s, b, q, f, Final(r))
    /\ Chained(s, b, q, f, r)
    /\ Ordered(s, b, AdmissionsOf(q, f, r))

\* Admissions before now: what the order of admission needs of the state.
Stamps(q, f) ==
    /\ q \subseteq Entries /\ \A p \in f : p[2] \in Entries
    /\ TypeOK /\ RetriesFollowFailures /\ \A r \in records : r.start <= clock

LEMMA FlowStamped ==
    ASSUME ServiceAssumption, NEW s, NEW b, NEW q, NEW f, Flow(s, b, q, f, records), Stamps(q, f)
    PROVE  Stamped(AdmissionsOf(q, f, records), clock)
  <1>1. clock \in Nat /\ records \subseteq Served /\ \A r \in records : r.start <= clock
    BY DEF Stamps, TypeOK
  <1>2. RetriesFollowFailures /\ q \subseteq Entries
    BY DEF Stamps
  <1>3. /\ \A x \in q : Timely(x, records, clock)
        /\ \A p \in f : p[2] \in Entries /\ Timely(p[2], records, clock)
    BY DEF Flow, Chained, Stamps
  <1> QED BY <1>1, <1>2, <1>3, AdmissionsStamped

LEMMA AdmitFlow ==
    ASSUME ServiceAssumption, NEW s, NEW b, b \subseteq Attempts, NEW q, NEW f,
           Flow(s, b, q, f, records), Stamps(q, f),
           NEW came, came \subseteq b, Admits(b, q, came)
    PROVE  Flow(s, blocked', waiting', f, records)
  <1>1. blocked' = b \ came /\ waiting' = q \cup AsAdmitted(came, clock)
    BY DEF Admits
  <1>2. Placed(s, blocked', waiting', f, Final(records))
    BY <1>1, AdmitMove DEF Flow
  <1>3. Chained(s, blocked', waiting', f, records)
    <2>1. \A x \in AsAdmitted(came, clock) : Timely(x, records, clock)
      <3> TAKE x \in AsAdmitted(came, clock)
      <3>1. x.attempt \in b /\ x.admitted = clock
        BY DEF AsAdmitted
      <3>2. Due(x.attempt, records) /\ x.attempt.ready <= clock
        BY <3>1 DEF Flow, Chained
      <3>3. clock \in Nat
        BY DEF Stamps, TypeOK
      <3> QED BY <3>1, <3>2, <3>3 DEF Timely
    <2> QED BY <1>1, <2>1 DEF Flow, Chained
  <1>4. Ordered(s, blocked', AdmissionsOf(waiting', f, records))
    <2> DEFINE m == AdmissionsOf(q, f, records)
               n == {[ready |-> x.ready, admitted |-> clock] : x \in came}
    <2>1. AdmissionsOf(waiting', f, records) = m \cup n
      <3>1. {AdmissionOf(x) : x \in waiting'} = {AdmissionOf(x) : x \in q} \cup {AdmissionOf(x) : x \in AsAdmitted(came, clock)}
        BY <1>1
      <3>2. {AdmissionOf(x) : x \in AsAdmitted(came, clock)} = n
        <4>1. \A a : AdmissionOf([attempt |-> a, admitted |-> clock]) = [ready |-> a.ready, admitted |-> clock]
          BY DEF AdmissionOf
        <4> QED BY <4>1 DEF AsAdmitted
      <3> QED BY <3>1, <3>2 DEF AdmissionsOf
    <2>2. Stamped(m, clock)
      BY FlowStamped
    <2>3. Ordered(s, b, m)
      BY DEF Flow
    <2>4. clock \in Nat /\ \A x \in b : x.ready \in Nat
      BY DEF Stamps, TypeOK, Attempts
    <2>5. \A x \in came : \A y \in b \ came : x.ready <= y.ready
      BY DEF Admits
    <2> HIDE DEF m
    <2>6. Ordered(s, b \ came, m \cup n)
      BY <2>2, <2>3, <2>4, <2>5, AdmitOrdered
    <2> QED BY <1>1, <2>1, <2>6
  <1> QED BY <1>2, <1>3, <1>4 DEF Flow

LEMMA TakeFlow ==
    ASSUME NEW s, NEW b, NEW q, NEW f, NEW r, Flow(s, b, q, f, r), NEW x \in q, NEW w
    PROVE  Flow(s, b, q \ {x}, f \cup {<<w, x>>}, r)
  <1>1. Placed(s, b, q \ {x}, f \cup {<<w, x>>}, Final(r))
    BY TakeMove DEF Flow
  <1>2. Chained(s, b, q \ {x}, f \cup {<<w, x>>}, r)
    BY DEF Flow, Chained
  <1>3. AdmissionsOf(q \ {x}, f \cup {<<w, x>>}, r) = AdmissionsOf(q, f, r)
    <2>1. {AdmissionOf(p[2]) : p \in f \cup {<<w, x>>}} = {AdmissionOf(p[2]) : p \in f} \cup {AdmissionOf(x)}
      <3> DEFINE n == <<w, x>>
      <3>1. n[2] = x
        OBVIOUS
      <3> HIDE DEF n
      <3>2. {AdmissionOf(p[2]) : p \in f \cup {n}} = {AdmissionOf(p[2]) : p \in f} \cup {AdmissionOf(x)}
        BY <3>1
      <3> QED BY <3>2 DEF n
    <2>2. {AdmissionOf(y) : y \in q} = {AdmissionOf(y) : y \in q \ {x}} \cup {AdmissionOf(x)}
      OBVIOUS
    <2> QED BY <2>1, <2>2 DEF AdmissionsOf
  <1> QED BY <1>1, <1>2, <1>3 DEF Flow

LEMMA ServeFlow ==
    ASSUME ServiceAssumption, TypeOK, NEW w \in Workers,
           NEW selected, selected \subseteq Entries,
           NEW served, NEW again, Starts(w, selected, served, again),
           NEW b, b \subseteq Attempts, NEW q, NEW f, {w} \X selected \subseteq f,
           Flow(source, b, q, f, records), Stamps(q, f)
    PROVE  /\ Flow(source', b, q, f \ ({w} \X selected), records')
           /\ RetriesFollowFailures'
  <1> DEFINE g == f \ ({w} \X selected)
  <1>1. Placed(source', b, q, g, Final(records'))
    BY ServePlaced DEF Flow
  <1>2. Chained(source', b, q, g, records') /\ RetriesFollowFailures'
    BY ServeChained DEF Flow, Stamps
  <1>3. AdmissionsOf(q, g, records') = AdmissionsOf(q, f, records)
    BY ServeAdmissions
  <1> HIDE DEF g
  <1>4. Ordered(source', b, AdmissionsOf(q, g, records'))
    <2> DEFINE m == AdmissionsOf(q, f, records)
    <2>1. Stamped(m, clock) /\ Ordered(source, b, m)
      BY FlowStamped DEF Flow
    <2>2. clock \in Nat /\ clock <= free'[w] /\ free'[w] \in Nat
      BY DEF TypeOK, Starts
    <2>3. \A x \in again : x.ready \in Nat /\ clock <= x.ready
      <3> TAKE x \in again
      <3>1. free'[w] <= x.ready /\ x.ready \in Nat
        BY DEF Starts, Repeats, Attempts
      <3> QED BY <2>2, <3>1
    <2>4. \A x \in b : x.ready \in Nat /\ x.ready <= clock
      BY DEF Flow, Chained, Attempts
    <2> HIDE DEF m
    <2>5. Ordered(source \cup again, b, m)
      BY <2>1, <2>2, <2>3, <2>4, AgainOrdered
    <2>6. source' = source \cup again
      BY DEF Starts
    <2> QED BY <1>3, <2>5, <2>6 DEF m
  <1>5. Flow(source', b, q, g, records')
    BY <1>1, <1>2, <1>4 DEF Flow
  <1> QED BY <1>2, <1>5 DEF g

LEMMA FormingIn ==
    ASSUME NEW g, NEW p \in Forming(g)
    PROVE  \E v \in DOMAIN g : \E y \in g[v].selected : p = <<v, y>>
  BY DEF Forming

\* The invariant says that the attempts flow.
LEMMA InvariantFlow ==
    ASSUME IInv
    PROVE  /\ Flow(source, blocked, waiting, Forming(formations), records)
           /\ \A p \in Forming(formations) :
                  \E w \in DOMAIN formations : \E x \in Selected(w) : p = <<w, x>> /\ p[2] \in Entries
           /\ Stamps(waiting, Forming(formations))
           /\ OneEach(source) /\ OneEach(blocked) /\ OneEachEntry(waiting)
           /\ \A w \in DOMAIN formations : Selected(w) \subseteq Entries /\ OneEachEntry(Selected(w))
           /\ \A w \in DOMAIN formations : {w} \X Selected(w) \subseteq Forming(formations)
  <1>1. Flow(source, blocked, waiting, Forming(formations), records)
    BY AdmissionsAre DEF IInv, PlacesInv, ChainInv, OrderInv, Flow
  <1>2. \A w \in DOMAIN formations : Selected(w) \subseteq Entries
    BY DEF IInv, TypeOK, Formed, Selected
  <1>3. \A p \in Forming(formations) :
            \E w \in DOMAIN formations : \E x \in Selected(w) : p = <<w, x>> /\ p[2] \in Entries
    <2> TAKE p \in Forming(formations)
    <2>1. PICK w \in DOMAIN formations : \E x \in formations[w].selected : p = <<w, x>>
      BY DEF Forming
    <2>2. PICK x \in Selected(w) : p = <<w, x>>
      BY <2>1 DEF Selected
    <2> QED BY <1>2, <2>2
  <1>4. Stamps(waiting, Forming(formations))
    BY <1>3 DEF Stamps, IInv, TypeOK, ChainInv, WorkersInv
  <1>5. OneEach(source) /\ OneEach(blocked) /\ OneEachEntry(waiting)
    BY DEF IInv, PlacesInv, Placed, OneEach, OneEachEntry
  <1>6. \A w \in DOMAIN formations : \A x \in Selected(w) : <<w, x>> \in Forming(formations)
    BY DEF Forming, Selected
  <1>7. \A w \in DOMAIN formations : OneEachEntry(Selected(w))
    <2> SUFFICES ASSUME NEW w \in DOMAIN formations, NEW x \in Selected(w), NEW y \in Selected(w),
                        x.attempt.job = y.attempt.job
                 PROVE  x = y
      BY DEF OneEachEntry
    <2>1. <<w, x>> \in Forming(formations) /\ <<w, y>> \in Forming(formations)
      BY <1>6
    <2>2. \A p, q \in Forming(formations) : p[2].attempt.job = q[2].attempt.job => p = q
      BY DEF IInv, PlacesInv, Placed
    <2>3. <<w, x>>[2] = x /\ <<w, y>>[2] = y
      OBVIOUS
    <2> QED BY <2>1, <2>2, <2>3
  <1>8. \A w \in DOMAIN formations : {w} \X Selected(w) \subseteq Forming(formations)
    BY <1>6
  <1> QED BY <1>1, <1>2, <1>3, <1>4, <1>5, <1>7, <1>8

\* And it holds again if they flow after the step.
LEMMA FlowInvariant ==
    ASSUME Flow(source', blocked', waiting', Forming(formations'), records'), clock' = clock,
           RetriesFollowFailures'
    PROVE  PlacesInv' /\ ChainInv' /\ OrderInv'
  <1>1. PlacesInv'
    BY DEF Flow, PlacesInv, Placed, Forming, Final
  <1>2. ChainInv'
    BY DEF Flow, ChainInv, Chained, Forming, Timely, Due
  <1>3. OrderInv'
    <2>1. Ordered(source', blocked', Admissions')
      BY AdmissionsAre DEF Flow
    <2> QED BY <2>1 DEF OrderInv, Ordered
  <1> QED BY <1>1, <1>2, <1>3

-----------------------------------------------------------------------------
(* Every step keeps the invariant.                                         *)

LEMMA ProgressParts ==
    /\ Progress[1] = Cardinality(source) /\ Progress[2] = Cardinality(blocked)
    /\ Progress[3] = Cardinality(waiting) /\ Progress[6] = batch
  BY DEF Progress

LEMMA InitInvariant == ASSUME ServiceAssumption, InputsAssumption, Init PROVE IInv
  <1>1. PICK i \in Inputs :
          /\ policy = i.policy
          /\ job = i.job
          /\ free = i.free
          /\ source = {[job |-> j, attempt |-> 0, ready |-> i.arrival[j]] : j \in Jobs}
    BY DEF Init
  <1>2. /\ blocked = {} /\ waiting = {} /\ formations = [w \in {} |-> 0]
        /\ records = {} /\ batch = 0 /\ clock = 0
        /\ pc = "receive" /\ fillTodo = {} /\ idleTodo = {}
    BY DEF Init
  <1>3. /\ i.policy \in {"continuous-batching", "priority"}
        /\ i.job \in [Jobs -> [kind : Kinds, priority : Int]]
        /\ i.arrival \in [Jobs -> Nat] /\ i.free \in [Workers -> Nat]
    BY DEF InputsAssumption
  <1>4. source \subseteq Attempts /\ IsFiniteSet(source)
    <2> DEFINE first(j) == [job |-> j, attempt |-> 0, ready |-> i.arrival[j]]
               f == [j \in Jobs |-> first(j)]
    <2>1. \A j \in Jobs : first(j) \in Attempts
      <3>1. 0 \in 0..MaxRetries
        BY DEF ServiceAssumption
      <3> QED BY <1>3, <3>1 DEF Attempts
    <2>2. f \in Surjection(Jobs, source)
      BY <1>1 DEF Surjection
    <2>3. IsFiniteSet(Jobs)
      BY DEF ServiceAssumption
    <2>4. IsFiniteSet(source)
      <3> HIDE DEF f
      <3> QED BY <2>2, <2>3, FS_Surjection
    <2>5. source = {first(j) : j \in Jobs}
      BY <1>1
    <2> HIDE DEF first
    <2> QED BY <2>1, <2>4, <2>5
  <1>5. DOMAIN formations = {} /\ Forming(formations) = {} /\ Final(records) = {}
    BY <1>2 DEF Forming, Final
  <1>6. \A a \in source : a.attempt = 0 /\ a.job \in Jobs
    BY <1>1
  <1>7. TypeOK
    <2>1. formations \in [DOMAIN formations -> Formed]
      BY <1>2
    <2>2. free \in [Workers -> Nat] /\ job \in [Jobs -> [kind : Kinds, priority : Int]]
          /\ policy \in {"continuous-batching", "priority"}
      BY <1>1, <1>3
    <2> QED BY <1>2, <1>4, <1>5, <2>1, <2>2, FS_EmptySet DEF TypeOK
  <1>8. PlacesInv
    <2>1. \A x, y \in source : x.job = y.job => x = y
      BY <1>1
    <2>2. \A j \in Jobs : \E x \in source : x.job = j
      <3> TAKE j \in Jobs
      <3>1. [job |-> j, attempt |-> 0, ready |-> i.arrival[j]] \in source
        BY <1>1
      <3> QED BY <3>1
    <2> QED BY <1>2, <1>5, <2>1, <2>2 DEF PlacesInv, Placed
  <1>9. ChainInv
    BY <1>2, <1>5, <1>6 DEF ChainInv, Chained, Due, RetriesFollowFailures
  <1>10. WorkersInv /\ FormingLegal /\ ServedLegal
    BY <1>2, <1>5 DEF WorkersInv, WorkersSerial, FormingLegal, ServedLegal
  <1>11. QueueInv
    BY <1>2, FS_EmptySet DEF QueueInv, ServiceAssumption
  <1>12. OrderInv
    <2>1. Admissions = {}
      BY <1>2, <1>5 DEF Admissions
    <2> QED BY <1>2, <2>1 DEF OrderInv, Ordered
  <1>13. LoopsInv /\ PassInv /\ DoneInv
    BY <1>2, <1>5 DEF LoopsInv, PassInv, DoneInv, InPass
  <1> QED BY <1>7, <1>8, <1>9, <1>10, <1>11, <1>12, <1>13 DEF IInv

LEMMA ReceiveKeeps == ASSUME ServiceAssumption, IInv, ReceiveArrivals PROVE IInv'
  <1> DEFINE arrived == {a \in source : a.ready <= clock}
             rest == source \ arrived
             outside == blocked \cup arrived
             F == Forming(formations)
  <1>1. /\ pc = "receive" /\ before' = Progress /\ source' = rest
        /\ AdmitBlocked(outside, waiting)
        /\ pc' = "fill" /\ fillTodo' = DOMAIN formations
        /\ UNCHANGED <<inputs, formations, free, records, batch, clock, idleTodo>>
    BY DEF ReceiveArrivals
  <1>2. policy' = policy /\ job' = job
    BY <1>1 DEF inputs
  <1>3. /\ TypeOK /\ QueueInv /\ LoopsInv /\ FormingLegal /\ ServedLegal /\ WorkersInv
        /\ ChainInv
    BY DEF IInv
  <1>4. /\ Flow(source, blocked, waiting, F, records) /\ Stamps(waiting, F)
        /\ OneEachEntry(waiting)
    BY InvariantFlow
  <1>5. /\ source \subseteq Attempts /\ IsFiniteSet(source)
        /\ blocked \subseteq Attempts /\ IsFiniteSet(blocked)
        /\ waiting \subseteq Entries /\ IsFiniteSet(waiting) /\ clock \in Nat
    BY <1>3 DEF TypeOK
  <1>6. arrived \subseteq source /\ \A a \in arrived : a.ready <= clock
    OBVIOUS
  <1>7. \A a \in rest : a.ready > clock
    BY <1>5 DEF Attempts
  <1> HIDE DEF arrived, F
  <1>8. Placed(rest, outside, waiting, F, Final(records))
    BY <1>4, <1>6, ArriveMove DEF Flow
  <1>9. Chained(rest, outside, waiting, F, records)
    BY <1>4, <1>6 DEF Flow, Chained
  <1>10. Ordered(rest, outside, AdmissionsOf(waiting, F, records))
    <2>1. \A x \in arrived : \A y \in source \ arrived : x.ready <= y.ready
      <3> TAKE x \in arrived
      <3> TAKE y \in source \ arrived
      <3>1. x.ready <= clock /\ y.ready > clock /\ x.ready \in Nat /\ y.ready \in Nat
        BY <1>5, <1>6, <1>7 DEF Attempts
      <3> QED BY <3>1, <1>5
    <2> DEFINE m == AdmissionsOf(waiting, F, records)
    <2>2. Ordered(source, blocked, m)
      BY <1>4 DEF Flow
    <2> HIDE DEF m
    <2>3. Ordered(source \ arrived, blocked \cup arrived, m)
      BY <1>6, <2>1, <2>2, ArriveOrdered
    <2> QED BY <2>3 DEF m
  <1>11. Flow(rest, outside, waiting, F, records)
    BY <1>8, <1>9, <1>10 DEF Flow
  <1>12. outside \subseteq Attempts /\ IsFiniteSet(outside) /\ IsFiniteSet(arrived) /\ IsFiniteSet(rest)
    BY <1>5, <1>6, FS_Subset, FS_Union
  <1>13. OneEach(outside) /\ \A a \in outside : \A x \in waiting : a.job # x.attempt.job
    BY <1>8 DEF Placed, OneEach
  <1> HIDE DEF outside, rest
  <1>14. PICK came \in SUBSET outside : Admits(outside, waiting, came)
    BY <1>1, <1>3, <1>5, <1>12, <1>13, AdmitBlockedFacts DEF QueueInv
  <1>15. Flow(rest, blocked', waiting', F, records)
    BY <1>4, <1>11, <1>12, <1>14, AdmitFlow
  <1>16. blocked' \subseteq Attempts
    BY <1>12, <1>14 DEF Admits
  <1>17. TypeOK'
    <2>1. rest \subseteq Attempts
      BY <1>5 DEF rest
    <2>2. /\ policy' \in {"continuous-batching", "priority"}
          /\ job' \in [Jobs -> [kind : Kinds, priority : Int]]
          /\ records' \subseteq Served
          /\ DOMAIN formations' \subseteq Workers /\ formations' \in [DOMAIN formations' -> Formed]
          /\ free' \in [Workers -> Nat] /\ batch' \in Nat /\ clock' \in Nat
      BY <1>1, <1>2, <1>3 DEF TypeOK
    <2> QED BY <1>1, <1>12, <1>14, <1>16, <2>1, <2>2 DEF TypeOK, Admits
  <1>18. PlacesInv' /\ ChainInv' /\ OrderInv'
    <2>1. Flow(source', blocked', waiting', Forming(formations'), records')
      BY <1>1, <1>15 DEF F
    <2>2. RetriesFollowFailures'
      BY <1>1, <1>3 DEF ChainInv, RetriesFollowFailures
    <2> QED BY <1>1, <2>1, <2>2, FlowInvariant
  <1>19. WorkersInv' /\ ServedLegal' /\ FormingLegal'
    BY <1>1, <1>2, <1>3 DEF WorkersInv, WorkersSerial, ServedLegal, FormingLegal, Selected, Kind, InBatch
  <1>20. QueueInv'
    BY <1>14 DEF Admits, QueueInv
  <1>21. LoopsInv'
    <2>1. IdleWorkers' = IdleWorkers
      BY <1>1 DEF IdleWorkers
    <2> QED BY <1>1, <1>3, <2>1 DEF LoopsInv
  <1>22. PassInv'
    <2>1. /\ Cardinality(source) \in Nat /\ Cardinality(blocked) \in Nat /\ Cardinality(waiting) \in Nat
          /\ Cardinality(arrived) \in Nat
      BY <1>5, <1>12, FS_CardinalityType
    <2>2. /\ before'[1] = Cardinality(source) /\ before'[2] = Cardinality(blocked)
          /\ before'[3] = Cardinality(waiting) /\ before'[6] = batch
      BY <1>1, ProgressParts
    <2>3. Cardinality(rest) = Cardinality(source) - Cardinality(arrived)
      <3>1. source \cap arrived = arrived
        BY <1>6
      <3> QED BY <1>5, <3>1, FS_Difference DEF rest
    <2>4. Cardinality(outside) = Cardinality(blocked) + Cardinality(arrived)
      <3>1. blocked \cap arrived = {}
        BY <1>4, <1>6 DEF Flow, Placed
      <3>2. Cardinality({}) = 0
        BY FS_EmptySet
      <3>3. Cardinality(outside) = Cardinality(blocked) + Cardinality(arrived) - Cardinality(blocked \cap arrived)
        BY <1>5, <1>12, FS_Union DEF outside
      <3>4. Cardinality(outside) = Cardinality(blocked) + Cardinality(arrived) - 0
        BY <3>1, <3>2, <3>3
      <3> QED BY <2>1, <3>4
    <2>5. Cardinality(blocked') + Cardinality(waiting') = Cardinality(outside) + Cardinality(waiting)
      BY <1>14 DEF Admits
    <2>6. Cardinality(blocked') \in Nat /\ Cardinality(waiting') \in Nat
      BY <1>14, FS_CardinalityType DEF Admits
    <2>7. InFlight' = before'[1] + before'[2] + before'[3]
      <3>1. InFlight' = Cardinality(rest) + Cardinality(blocked') + Cardinality(waiting')
        BY <1>1 DEF InFlight
      <3> QED BY <3>1, <2>1, <2>2, <2>3, <2>4, <2>5, <2>6
    <2>8. InFlight' <= before'[1] + before'[2] + before'[3]
      BY <2>1, <2>2, <2>7
    <2>9. Quiet'
      BY <1>1, <1>7, <2>8 DEF Quiet
    <2> QED BY <1>1, <1>3, <2>1, <2>2, <2>9 DEF PassInv, TypeOK
  <1>23. DoneInv'
    BY <1>1 DEF DoneInv
  <1> QED BY <1>17, <1>18, <1>19, <1>20, <1>21, <1>22, <1>23 DEF IInv

\* Entry x leaves the queue for worker w, and others are admitted.
LEMMA TakeAndAdmit ==
    ASSUME ServiceAssumption, IInv, NEW x \in waiting, NEW w,
           AdmitBlocked(blocked, waiting \ {x})
    PROVE  /\ Flow(source, blocked', waiting', Forming(formations) \cup {<<w, x>>}, records)
           /\ Stamps(waiting', Forming(formations) \cup {<<w, x>>})
           /\ blocked' \subseteq Attempts /\ IsFiniteSet(blocked')
           /\ waiting' \subseteq Entries /\ IsFiniteSet(waiting')
           /\ QueueInv'
           /\ Cardinality(source) + Cardinality(blocked') + Cardinality(waiting') = InFlight - 1
           /\ InFlight \in Nat
  <1> DEFINE F == Forming(formations)
             G == F \cup {<<w, x>>}
             items == waiting \ {x}
  <1>1. TypeOK /\ QueueInv
    BY DEF IInv
  <1>2. /\ Flow(source, blocked, waiting, F, records) /\ Stamps(waiting, F)
        /\ OneEach(blocked) /\ OneEachEntry(waiting)
    BY InvariantFlow
  <1>3. /\ blocked \subseteq Attempts /\ IsFiniteSet(blocked) /\ IsFiniteSet(source)
        /\ waiting \subseteq Entries /\ IsFiniteSet(waiting) /\ clock \in Nat
    BY <1>1 DEF TypeOK
  <1>4. /\ Cardinality(source) \in Nat /\ Cardinality(blocked) \in Nat /\ Cardinality(waiting) \in Nat
        /\ Capacity \in Nat
    BY <1>3, FS_CardinalityType DEF ServiceAssumption
  <1> HIDE DEF F
  <1>5. Flow(source, blocked, items, G, records)
    BY <1>2, TakeFlow
  <1>6. items \subseteq Entries /\ IsFiniteSet(items) /\ Cardinality(items) = Cardinality(waiting) - 1
    BY <1>3, FS_RemoveElement
  <1>7. Cardinality(items) <= Capacity
    BY <1>1, <1>4, <1>6 DEF QueueInv
  <1>8. \A a \in blocked : \A y \in items : a.job # y.attempt.job
    BY <1>5 DEF Flow, Placed
  <1>9. Stamps(items, G)
    <2>1. <<w, x>>[2] \in Entries
      BY <1>3
    <2> QED BY <1>2, <1>6, <2>1 DEF Stamps
  <1> HIDE DEF items, G
  <1>10. PICK came \in SUBSET blocked : Admits(blocked, items, came)
    <2>1. AdmitBlocked(blocked, items)
      BY DEF items
    <2> QED BY <1>2, <1>3, <1>6, <1>7, <1>8, <2>1, AdmitBlockedFacts
  <1>11. Flow(source, blocked', waiting', G, records)
    BY <1>3, <1>5, <1>9, <1>10, AdmitFlow
  <1>12. /\ blocked' \subseteq Attempts /\ IsFiniteSet(blocked')
         /\ waiting' \subseteq Entries /\ IsFiniteSet(waiting')
         /\ QueueInv'
    BY <1>3, <1>10 DEF Admits, QueueInv
  <1>13. Stamps(waiting', G)
    BY <1>9, <1>12 DEF Stamps
  <1>14. Cardinality(source) + Cardinality(blocked') + Cardinality(waiting') = InFlight - 1
    <2>1. Cardinality(blocked') + Cardinality(waiting') = Cardinality(blocked) + Cardinality(items)
      BY <1>10 DEF Admits
    <2>2. Cardinality(blocked') \in Nat /\ Cardinality(waiting') \in Nat
      BY <1>12, FS_CardinalityType
    <2> QED BY <1>4, <1>6, <2>1, <2>2 DEF InFlight
  <1>15. InFlight \in Nat
    BY <1>4 DEF InFlight
  <1> QED BY <1>11, <1>12, <1>13, <1>14, <1>15 DEF F, G, items

\* One attempt fewer is on its way: no formation has to be looked at again.
LEMMA TakenQuiet ==
    ASSUME PassInv, InPass, InFlight \in Nat, source' = source, before' = before, batch' = batch, clock' = clock,
           InFlight' = InFlight - 1, pc # "fill" /\ pc' # "fill" => IdleWorkers' \subseteq idleTodo',
           pc' = "fill" => pc = "fill", pc = "fill" => pc' = "fill"
    PROVE  PassInv'
  <1>1. /\ before[1] \in Nat /\ before[2] \in Nat /\ before[3] \in Nat
        /\ before[6] \in Nat /\ before[6] <= batch
        /\ batch = before[6] => Quiet
    BY DEF PassInv
  <1>2. ASSUME batch = before[6]
        PROVE  Quiet'
    <2>1. Quiet
      BY <1>1, <1>2
    <2> DEFINE total == before[1] + before[2] + before[3]
    <2>2. InFlight <= total /\ total \in Nat
      BY <1>1, <2>1 DEF Quiet
    <2>3. total' = total
      OBVIOUS
    <2> HIDE DEF total
    <2>4. InFlight' <= total' /\ InFlight' # total'
      BY <2>2, <2>3
    <2> QED BY <2>1, <2>4 DEF Quiet, total
  <1> QED BY <1>1, <1>2 DEF PassInv

LEMMA TakeKeeps == ASSUME ServiceAssumption, IInv, NEW w \in Workers, TakeCompatible(w) PROVE IInv'
  <1> DEFINE x == First(Compatible(w))
             F == Forming(formations)
  <1>1. /\ pc \in {"fill", "refill"} /\ w \in fillTodo
        /\ ~IsFull(w) /\ Compatible(w) # {}
        /\ formations' = [formations EXCEPT ![w].selected = @ \cup {x}]
        /\ AdmitBlocked(blocked, waiting \ {x})
        /\ UNCHANGED <<inputs, source, free, records, batch, clock, pc, fillTodo, idleTodo, before>>
    BY DEF TakeCompatible, Filling
  <1>2. policy' = policy /\ job' = job
    BY <1>1 DEF inputs
  <1>3. TypeOK /\ LoopsInv /\ FormingLegal /\ ServedLegal /\ WorkersInv /\ ChainInv /\ PassInv
    BY DEF IInv
  <1>4. x \in Compatible(w)
    <2>1. Compatible(w) \subseteq waiting /\ waiting \subseteq Entries /\ IsFiniteSet(waiting)
      BY <1>3 DEF Compatible, TypeOK
    <2>2. IsFiniteSet(Compatible(w)) /\ OneEachEntry(Compatible(w))
      BY <2>1, InvariantFlow, FS_Subset DEF OneEachEntry
    <2> DEFINE items == Compatible(w)
    <2>3. items \subseteq Entries /\ IsFiniteSet(items) /\ items # {} /\ OneEachEntry(items)
      BY <1>1, <2>1, <2>2
    <2> HIDE DEF items
    <2>4. First(items) \in items
      BY <1>3, <2>3, FirstIn
    <2> QED BY <2>4 DEF items
  <1>5. x \in waiting /\ Kind(x.attempt.job) = formations[w].kind /\ x \in Entries
    BY <1>3, <1>4 DEF Compatible, Kind, TypeOK
  <1> HIDE DEF x
  <1>6. w \in DOMAIN formations /\ formations[w] \in Formed
    BY <1>1, <1>3 DEF LoopsInv, TypeOK
  <1>7. /\ DOMAIN formations' = DOMAIN formations
        /\ formations'[w].selected = Selected(w) \cup {x}
        /\ \A v \in DOMAIN formations \ {w} : formations'[v] = formations[v]
        /\ \A v \in DOMAIN formations : /\ formations'[v].kind = formations[v].kind
                                        /\ formations'[v].deadline = formations[v].deadline
    BY <1>1, <1>6 DEF Formed, Selected
  <1>8. Forming(formations') = F \cup {<<w, x>>}
    <2>1. \A p \in Forming(formations') : p \in F \cup {<<w, x>>}
      <3> TAKE p \in Forming(formations')
      <3>1. PICK v \in DOMAIN formations' : \E y \in formations'[v].selected : p = <<v, y>>
        BY FormingIn
      <3>2. PICK y \in formations'[v].selected : p = <<v, y>>
        BY <3>1
      <3> QED BY <1>6, <1>7, <3>2 DEF Forming, Selected
    <2>2. \A p \in F : p \in Forming(formations')
      <3> TAKE p \in F
      <3>1. PICK v \in DOMAIN formations : \E y \in formations[v].selected : p = <<v, y>>
        BY DEF Forming
      <3>2. PICK y \in formations[v].selected : p = <<v, y>>
        BY <3>1
      <3>3. y \in formations'[v].selected
        BY <1>7, <3>2 DEF Selected
      <3> QED BY <1>7, <3>2, <3>3 DEF Forming
    <2>3. <<w, x>> \in Forming(formations')
      BY <1>6, <1>7 DEF Forming
    <2> QED BY <2>1, <2>2, <2>3
  <1> HIDE DEF F
  <1>9. /\ Flow(source, blocked', waiting', F \cup {<<w, x>>}, records)
        /\ blocked' \subseteq Attempts /\ IsFiniteSet(blocked')
        /\ waiting' \subseteq Entries /\ IsFiniteSet(waiting')
        /\ QueueInv'
        /\ Cardinality(source) + Cardinality(blocked') + Cardinality(waiting') = InFlight - 1
        /\ InFlight \in Nat
    BY <1>1, <1>5, TakeAndAdmit DEF F
  <1>10. TypeOK'
    <2>1. formations' \in [DOMAIN formations' -> Formed]
      <3>1. formations'[w] \in Formed
        BY <1>1, <1>5, <1>6 DEF Formed
      <3>2. formations' = [v \in DOMAIN formations' |-> formations'[v]]
        BY <1>1
      <3>3. \A v \in DOMAIN formations' : formations'[v] \in Formed
        BY <1>3, <1>7, <3>1 DEF TypeOK
      <3> QED BY <3>2, <3>3
    <2> QED BY <1>1, <1>2, <1>3, <1>7, <1>9, <2>1 DEF TypeOK
  <1>11. PlacesInv' /\ ChainInv' /\ OrderInv'
    <2>1. Flow(source', blocked', waiting', Forming(formations'), records')
      BY <1>1, <1>8, <1>9
    <2>2. RetriesFollowFailures'
      BY <1>1, <1>3 DEF ChainInv, RetriesFollowFailures
    <2> QED BY <1>1, <2>1, <2>2, FlowInvariant
  <1>12. WorkersInv' /\ ServedLegal'
    BY <1>1, <1>2, <1>3, <1>7 DEF WorkersInv, WorkersSerial, ServedLegal, Kind, InBatch
  <1>13. FormingLegal'
    <2>1. IsFiniteSet(Selected(w)) /\ Cardinality(Selected(w)) \in 1..MaxBatch
          /\ Cardinality(Selected(w)) < MaxBatch /\ MaxBatch \in Nat
      <3>1. ~(Cardinality(Selected(w)) >= MaxBatch) /\ MaxBatch \in Nat
        BY <1>1 DEF IsFull, Selected, ServiceAssumption
      <3>2. IsFiniteSet(Selected(w)) /\ Cardinality(Selected(w)) \in 1..MaxBatch
        BY <1>3, <1>6 DEF FormingLegal
      <3> QED BY <3>1, <3>2
    <2>2. x \notin Selected(w)
      <3>1. <<w, x>>[2] = x
        OBVIOUS
      <3>2. x \in Selected(w) => <<w, x>> \in F
        BY <1>6 DEF Forming, F, Selected
      <3> QED BY <1>5, <3>1, <3>2, InvariantFlow DEF Flow, Placed, F
    <2>3. /\ IsFiniteSet(Selected(w) \cup {x})
          /\ Cardinality(Selected(w) \cup {x}) = Cardinality(Selected(w)) + 1
      BY <2>1, <2>2, FS_AddElement
    <2>4. Cardinality(Selected(w) \cup {x}) \in 1..MaxBatch
      BY <2>1, <2>3
    <2>5. \A v \in DOMAIN formations' :
              /\ IsFiniteSet(formations'[v].selected) /\ Cardinality(formations'[v].selected) \in 1..MaxBatch
              /\ \A y \in formations'[v].selected : Kind(y.attempt.job) = formations'[v].kind
      <3> TAKE v \in DOMAIN formations'
      <3>1. CASE v = w
        <4>1. \A y \in Selected(w) : Kind(y.attempt.job) = formations[w].kind
          BY <1>3, <1>6 DEF FormingLegal
        <4> QED BY <1>5, <1>6, <1>7, <2>3, <2>4, <3>1, <4>1
      <3>2. CASE v # w
        BY <1>3, <1>7, <3>2 DEF FormingLegal, Selected
      <3> QED BY <3>1, <3>2
    <2> QED BY <1>2, <2>5 DEF FormingLegal, Selected, Kind
  <1>14. IdleWorkers' = IdleWorkers
    BY <1>1, <1>7 DEF IdleWorkers
  <1>15. LoopsInv'
    <2>1. \A v \in DOMAIN formations' \ fillTodo' : ~MustStart(v)'
      <3> TAKE v \in DOMAIN formations' \ fillTodo'
      <3>1. v # w /\ v \in DOMAIN formations \ fillTodo /\ InPass
        BY <1>1, <1>7 DEF InPass
      <3>2. ~MustStart(v) /\ formations'[v] = formations[v] /\ clock' = clock
        BY <1>1, <1>3, <1>7, <3>1 DEF LoopsInv
      <3> QED BY <3>2 DEF MustStart, IsFull
    <2> QED BY <1>1, <1>3, <1>7, <1>14, <2>1 DEF LoopsInv
  <1>16. PassInv'
    <2>1. InFlight' = InFlight - 1
      BY <1>1, <1>9 DEF InFlight
    <2>2. pc # "fill" => IdleWorkers \subseteq idleTodo \/ batch # before[6]
      BY <1>1, <1>3 DEF PassInv, InPass, Quiet
    <2>3. CASE pc = "fill"
      BY <1>1, <1>3, <1>9, <2>1, <2>3, TakenQuiet DEF InPass
    <2>4. CASE pc # "fill" /\ IdleWorkers \subseteq idleTodo
      <3>1. InPass /\ pc' # "fill" /\ IdleWorkers' \subseteq idleTodo'
        BY <1>1, <1>14, <2>4 DEF InPass
      <3> QED BY <1>1, <1>3, <1>9, <2>1, <2>4, <3>1, TakenQuiet
    <2>5. CASE batch # before[6]
      BY <1>1, <1>3, <2>5 DEF PassInv, InPass
    <2> QED BY <2>2, <2>3, <2>4, <2>5
  <1>17. DoneInv'
    BY <1>1 DEF DoneInv
  <1> QED BY <1>9, <1>10, <1>11, <1>12, <1>13, <1>15, <1>16, <1>17 DEF IInv

LEMMA LeaveServes ==
    ASSUME ServiceAssumption, IInv, NEW w \in Workers, Filling(w),
           StartBatch(w, formations[w].selected),
           formations' = [v \in DOMAIN formations \ {w} |-> formations[v]],
           fillTodo' = fillTodo \ {w},
           UNCHANGED <<inputs, blocked, waiting, clock, pc, idleTodo, before>>
    PROVE  IInv'
  <1> DEFINE sel == Selected(w)
             F == Forming(formations)
  <1>1. policy' = policy /\ job' = job /\ pc \in {"fill", "refill"} /\ w \in fillTodo
    BY DEF inputs, Filling
  <1>2. /\ TypeOK /\ LoopsInv /\ FormingLegal /\ ServedLegal /\ WorkersInv /\ PassInv /\ QueueInv
    BY DEF IInv
  <1>3. w \in DOMAIN formations /\ DOMAIN formations \subseteq Workers
    BY <1>1, <1>2 DEF LoopsInv, TypeOK
  <1>4. /\ Flow(source, blocked, waiting, F, records) /\ Stamps(waiting, F)
        /\ sel \subseteq Entries /\ OneEachEntry(sel) /\ {w} \X sel \subseteq F
    BY <1>3, InvariantFlow
  <1>5. /\ IsFiniteSet(sel) /\ Cardinality(sel) \in 1..MaxBatch
        /\ \A x \in sel : Kind(x.attempt.job) = formations[w].kind
    BY <1>2, <1>3 DEF FormingLegal
  <1>6. /\ DOMAIN formations' = DOMAIN formations \ {w}
        /\ \A v \in DOMAIN formations' : formations'[v] = formations[v]
    OBVIOUS
  <1>7. Forming(formations') = F \ ({w} \X sel)
    <2>1. \A p \in Forming(formations') : p \in F /\ p \notin {w} \X sel
      <3> TAKE p \in Forming(formations')
      <3>1. PICK v \in DOMAIN formations' : \E y \in formations'[v].selected : p = <<v, y>>
        BY FormingIn
      <3>2. PICK y \in formations'[v].selected : p = <<v, y>>
        BY <3>1
      <3>3. p \in F
        BY <1>6, <3>2 DEF Forming
      <3> QED BY <1>6, <3>2, <3>3
    <2>2. \A p \in F : p \in Forming(formations') \/ p \in {w} \X sel
      <3> TAKE p \in F
      <3>1. PICK v \in DOMAIN formations : \E y \in formations[v].selected : p = <<v, y>>
        BY DEF Forming
      <3>2. PICK y \in formations[v].selected : p = <<v, y>>
        BY <3>1
      <3>3. CASE v = w
        BY <3>2, <3>3 DEF Selected
      <3>4. CASE v # w
        BY <1>6, <3>2, <3>4 DEF Forming
      <3> QED BY <3>3, <3>4
    <2> HIDE DEF F, sel
    <2> QED BY <2>1, <2>2
  <1>8. StartBatch(w, sel)
    BY DEF Selected
  <1> HIDE DEF sel, F
  <1>9. PICK served \in SUBSET Served, again \in SUBSET Attempts : Starts(w, sel, served, again)
    BY <1>2, <1>4, <1>5, <1>8, StartBatchFacts
  <1>10. /\ Flow(source', blocked, waiting, F \ ({w} \X sel), records')
         /\ RetriesFollowFailures'
    <2>1. blocked \subseteq Attempts
      BY <1>2 DEF TypeOK
    <2> QED BY <1>2, <1>4, <1>9, <2>1, ServeFlow
  <1>11. TypeOK'
    <2>1. formations' \in [DOMAIN formations' -> Formed]
      BY <1>2 DEF TypeOK
    <2>2. source' \subseteq Attempts /\ IsFiniteSet(source')
      BY <1>2, <1>9, FS_Union DEF TypeOK, Starts
    <2>3. records' \subseteq Served /\ batch' \in Nat /\ free' \in [Workers -> Nat]
      BY <1>2, <1>9 DEF TypeOK, Starts
    <2> QED BY <1>1, <1>2, <1>6, <2>1, <2>2, <2>3 DEF TypeOK
  <1>12. PlacesInv' /\ ChainInv' /\ OrderInv'
    BY <1>7, <1>10, FlowInvariant
  <1>13. WorkersInv'
    <2>1. free[w] <= clock
      BY <1>2, <1>3 DEF WorkersInv, WorkersSerial
    <2> QED BY <1>2, <1>6, <1>9, <2>1, ServeWorkers
  <1>14. ServedLegal'
    BY <1>1, <1>2, <1>5, <1>9, ServeLegal
  <1>15. FormingLegal'
    BY <1>1, <1>2, <1>6 DEF FormingLegal, Selected, Kind
  <1>16. QueueInv'
    BY <1>2 DEF QueueInv
  <1>17. LoopsInv'
    <2>1. idleTodo' \subseteq IdleWorkers'
      <3>1. \A v \in idleTodo : v \in Workers \ DOMAIN formations /\ free[v] <= clock
        BY <1>2 DEF LoopsInv, IdleWorkers
      <3>2. \A v \in Workers \ {w} : free'[v] = free[v]
        BY <1>9 DEF Starts
      <3>3. \A v \in idleTodo : v # w /\ free'[v] = free[v]
        BY <1>3, <3>1, <3>2
      <3> QED BY <1>6, <3>1, <3>3 DEF IdleWorkers
    <2>2. \A v \in DOMAIN formations' \ fillTodo' : ~MustStart(v)'
      <3> TAKE v \in DOMAIN formations' \ fillTodo'
      <3>1. v \in DOMAIN formations \ fillTodo /\ InPass /\ formations'[v] = formations[v]
        BY <1>1, <1>6 DEF InPass
      <3>2. ~MustStart(v)
        BY <1>2, <3>1 DEF LoopsInv
      <3> QED BY <3>1, <3>2 DEF MustStart, IsFull
    <2> QED BY <1>1, <1>2, <1>6, <2>1, <2>2 DEF LoopsInv
  <1>18. PassInv'
    <2>1. batch' = batch + 1 /\ batch \in Nat
      BY <1>2, <1>9 DEF Starts, TypeOK
    <2>2. /\ before[1] \in Nat /\ before[2] \in Nat /\ before[3] \in Nat
          /\ before[6] \in Nat /\ before[6] <= batch
      BY <1>1, <1>2 DEF PassInv, InPass
    <2>3. batch' # before[6] /\ before[6] <= batch'
      BY <2>1, <2>2
    <2> QED BY <2>2, <2>3 DEF PassInv
  <1>19. DoneInv'
    BY <1>1 DEF DoneInv
  <1> QED BY <1>11, <1>12, <1>13, <1>14, <1>15, <1>16, <1>17, <1>18, <1>19 DEF IInv

\* The invariant but for the loops and the pass depends on these variables only.
LEMMA KeptBooks ==
    ASSUME IInv, UNCHANGED <<inputs, source, blocked, waiting, formations, free, records, batch, clock>>,
           pc' \in {"receive", "fill", "refill", "dispatch", "done"}
    PROVE  /\ TypeOK' /\ PlacesInv' /\ ChainInv' /\ WorkersInv' /\ FormingLegal' /\ ServedLegal'
           /\ QueueInv' /\ OrderInv'
  <1>1. policy' = policy /\ job' = job
    BY DEF inputs
  <1>2. TypeOK'
    BY <1>1 DEF IInv, TypeOK
  <1>3. PlacesInv' /\ ChainInv' /\ OrderInv'
    <2>1. Flow(source', blocked', waiting', Forming(formations'), records')
      BY InvariantFlow
    <2>2. RetriesFollowFailures'
      BY DEF IInv, ChainInv, RetriesFollowFailures
    <2> QED BY <2>1, <2>2, FlowInvariant
  <1>4. WorkersInv' /\ ServedLegal' /\ QueueInv'
    BY <1>1 DEF IInv, WorkersInv, WorkersSerial, ServedLegal, QueueInv, Kind, InBatch
  <1>5. FormingLegal'
    BY <1>1 DEF IInv, FormingLegal, Selected, Kind
  <1> QED BY <1>2, <1>3, <1>4, <1>5

LEMMA LeaveStays ==
    ASSUME ServiceAssumption, IInv, NEW w \in Workers, Filling(w), ~MustStart(w),
           IsFull(w) \/ Compatible(w) = {}, fillTodo' = fillTodo \ {w},
           UNCHANGED <<inputs, source, blocked, waiting, formations, free, records, batch,
                       clock, pc, idleTodo, before>>
    PROVE  IInv'
  <1>1. pc \in {"fill", "refill"} /\ w \in fillTodo /\ InPass
    BY DEF Filling, InPass
  <1>2. TypeOK /\ LoopsInv /\ PassInv
    BY DEF IInv
  <1>3. Compatible(w) = {}
    BY DEF MustStart
  <1>4. IdleWorkers' = IdleWorkers /\ \A v \in DOMAIN formations : MustStart(v)' = MustStart(v)
    BY DEF IdleWorkers, MustStart, IsFull
  <1>5. LoopsInv'
    BY <1>1, <1>2, <1>4 DEF LoopsInv
  <1>6. PassInv'
    <2>1. /\ before[1] \in Nat /\ before[2] \in Nat /\ before[3] \in Nat
          /\ before[6] \in Nat /\ before[6] <= batch
          /\ batch = before[6] => Quiet
      BY <1>1, <1>2 DEF PassInv
    <2>2. InFlight' = InFlight /\ \A v : Compatible(v)' = Compatible(v)
      BY DEF InFlight, Compatible, inputs
    <2>3. Quiet => Quiet'
      BY <1>3, <1>4, <2>2 DEF Quiet
    <2> QED BY <2>1, <2>3 DEF PassInv
  <1>7. DoneInv'
    BY <1>1 DEF DoneInv
  <1> QED BY <1>1, <1>5, <1>6, <1>7, KeptBooks DEF IInv

LEMMA FillReturnsKeeps == ASSUME ServiceAssumption, IInv, FillReturns PROVE IInv'
  <1>1. /\ pc \in {"fill", "refill"} /\ fillTodo = {} /\ pc' = "dispatch"
        /\ idleTodo' = IF pc = "fill" THEN IdleWorkers ELSE idleTodo
        /\ UNCHANGED <<inputs, source, blocked, waiting, formations, free, records,
                       batch, clock, fillTodo, before>>
    BY DEF FillReturns
  <1>2. TypeOK /\ LoopsInv /\ PassInv /\ InPass
    BY <1>1 DEF IInv, InPass
  <1>3. IdleWorkers' = IdleWorkers /\ \A v \in DOMAIN formations : MustStart(v)' = MustStart(v)
    BY <1>1 DEF IdleWorkers, MustStart, IsFull
  <1>4. LoopsInv'
    BY <1>1, <1>2, <1>3 DEF LoopsInv
  <1>5. PassInv'
    <2>1. /\ before[1] \in Nat /\ before[2] \in Nat /\ before[3] \in Nat
          /\ before[6] \in Nat /\ before[6] <= batch
          /\ batch = before[6] => Quiet
      BY <1>2 DEF PassInv
    <2>2. InFlight' = InFlight /\ \A v : Compatible(v)' = Compatible(v)
      BY <1>1 DEF InFlight, Compatible, inputs
    <2>3. Quiet => Quiet'
      BY <1>1, <1>3, <2>2 DEF Quiet
    <2> QED BY <1>1, <2>1, <2>3 DEF PassInv
  <1>6. DoneInv'
    BY <1>1 DEF DoneInv
  <1> QED BY <1>1, <1>4, <1>5, <1>6, KeptBooks DEF IInv

\* The worker that is dispatched is idle, and what it takes is in the queue.
LEMMA DispatchFacts ==
    ASSUME ServiceAssumption, IInv, NEW w \in Workers, DispatchIdle(w)
    PROVE  /\ pc = "dispatch" /\ InPass /\ w \in IdleWorkers /\ fillTodo = {}
           /\ First(waiting) \in waiting
  <1>1. pc = "dispatch" /\ waiting # {} /\ w \in idleTodo
    BY DEF DispatchIdle
  <1>2. TypeOK /\ LoopsInv
    BY DEF IInv
  <1>3. waiting \subseteq Entries /\ IsFiniteSet(waiting) /\ OneEachEntry(waiting)
    BY <1>2, InvariantFlow DEF TypeOK
  <1>4. First(waiting) \in waiting
    BY <1>1, <1>2, <1>3, FirstIn
  <1>5. w \in IdleWorkers /\ fillTodo = {}
    BY <1>1, <1>2 DEF LoopsInv
  <1> QED BY <1>1, <1>4, <1>5 DEF InPass

LEMMA DispatchServes ==
    ASSUME ServiceAssumption, IInv, NEW w \in Workers, DispatchIdle(w),
           StartBatch(w, {First(waiting)}), UNCHANGED <<formations, pc, fillTodo>>
    PROVE  IInv'
  <1> DEFINE x == First(waiting)
             F == Forming(formations)
             G == F \cup {<<w, x>>}
  <1>1. /\ AdmitBlocked(blocked, waiting \ {x}) /\ idleTodo' = idleTodo \ {w}
        /\ UNCHANGED <<inputs, clock, before>>
    BY DEF DispatchIdle
  <1>2. policy' = policy /\ job' = job
    BY <1>1 DEF inputs
  <1>3. pc = "dispatch" /\ InPass /\ w \in IdleWorkers /\ fillTodo = {} /\ x \in waiting
    BY DispatchFacts
  <1>4. /\ TypeOK /\ LoopsInv /\ FormingLegal /\ ServedLegal /\ WorkersInv /\ PassInv
    BY DEF IInv
  <1>5. w \in Workers \ DOMAIN formations /\ free[w] <= clock
    BY <1>3 DEF IdleWorkers
  <1>6. x \in Entries
    BY <1>3, <1>4 DEF TypeOK
  <1>7. StartBatch(w, {x})
    OBVIOUS
  <1> HIDE DEF x
  <1>8. /\ Flow(source, blocked', waiting', G, records) /\ Stamps(waiting', G)
        /\ blocked' \subseteq Attempts /\ IsFiniteSet(blocked')
        /\ waiting' \subseteq Entries /\ IsFiniteSet(waiting')
        /\ QueueInv'
    BY <1>1, <1>3, TakeAndAdmit
  <1>9. IsFiniteSet({x}) /\ Cardinality({x}) = 1 /\ {x} \subseteq Entries /\ OneEachEntry({x})
    BY <1>6, FS_Singleton DEF OneEachEntry
  <1>10. PICK served \in SUBSET Served, again \in SUBSET Attempts : Starts(w, {x}, served, again)
    <2> DEFINE sel == {x}
    <2>1. sel \subseteq Entries /\ IsFiniteSet(sel) /\ OneEachEntry(sel) /\ StartBatch(w, sel)
      BY <1>7, <1>9
    <2> HIDE DEF sel
    <2>2. \E served \in SUBSET Served : \E again \in SUBSET Attempts : Starts(w, sel, served, again)
      BY <1>4, <2>1, StartBatchFacts
    <2> QED BY <2>2 DEF sel
  <1>11. G \ ({w} \X {x}) = F
    <2>1. \A p \in F : p \notin {w} \X {x}
      <3> TAKE p \in F
      <3>1. PICK v \in DOMAIN formations : \E y \in Selected(v) : p = <<v, y>> /\ p[2] \in Entries
        BY InvariantFlow
      <3> QED BY <1>5, <3>1
    <2>2. {w} \X {x} = {<<w, x>>}
      OBVIOUS
    <2> HIDE DEF F
    <2> QED BY <2>1, <2>2
  <1> HIDE DEF F
  <1>12. Flow(source', blocked', waiting', F, records') /\ RetriesFollowFailures'
    <2> DEFINE sel == {x}
    <2>1. sel \subseteq Entries /\ {w} \X sel \subseteq G /\ Starts(w, sel, served, again)
      BY <1>9, <1>10
    <2> HIDE DEF sel, G
    <2>2. /\ Flow(source', blocked', waiting', G \ ({w} \X sel), records')
          /\ RetriesFollowFailures'
      BY <1>4, <1>8, <2>1, ServeFlow
    <2> QED BY <1>11, <2>2 DEF sel
  <1>13. TypeOK'
    <2>1. source' \subseteq Attempts /\ IsFiniteSet(source')
      BY <1>4, <1>10, FS_Union DEF TypeOK, Starts
    <2>2. records' \subseteq Served /\ batch' \in Nat /\ free' \in [Workers -> Nat]
      BY <1>4, <1>10 DEF TypeOK, Starts
    <2> QED BY <1>1, <1>2, <1>4, <1>8, <2>1, <2>2 DEF TypeOK
  <1>14. PlacesInv' /\ ChainInv' /\ OrderInv'
    BY <1>1, <1>12, FlowInvariant DEF F
  <1>15. WorkersInv'
    BY <1>1, <1>4, <1>5, <1>10, ServeWorkers
  <1>16. ServedLegal'
    <2> DEFINE sel == {x}
               kind == Kind(x.attempt.job)
    <2>1. /\ Cardinality(sel) \in 1..MaxBatch /\ \A y \in sel : Kind(y.attempt.job) = kind
          /\ Starts(w, sel, served, again)
      BY <1>9, <1>10 DEF ServiceAssumption
    <2> HIDE DEF sel, kind
    <2> QED BY <1>2, <1>4, <2>1, ServeLegal
  <1>17. FormingLegal'
    BY <1>2, <1>4 DEF FormingLegal, Selected, Kind
  <1>18. LoopsInv'
    <2>1. idleTodo' \subseteq IdleWorkers'
      <3>1. \A v \in idleTodo' : v \in Workers \ DOMAIN formations /\ free[v] <= clock /\ v # w
        BY <1>1, <1>4 DEF LoopsInv, IdleWorkers
      <3>2. \A v \in idleTodo' : free'[v] = free[v]
        BY <1>10, <3>1 DEF Starts
      <3> QED BY <1>1, <3>1, <3>2 DEF IdleWorkers
    <2>2. \A v \in DOMAIN formations : MustStart(v)' = MustStart(v)
      BY <1>1 DEF MustStart, IsFull
    <2> QED BY <1>3, <1>4, <2>1, <2>2 DEF LoopsInv, InPass
  <1>19. PassInv'
    <2>1. batch' = batch + 1 /\ batch \in Nat
      BY <1>4, <1>10 DEF Starts, TypeOK
    <2>2. /\ before[1] \in Nat /\ before[2] \in Nat /\ before[3] \in Nat
          /\ before[6] \in Nat /\ before[6] <= batch
      BY <1>3, <1>4 DEF PassInv
    <2>3. batch' # before[6] /\ before[6] <= batch'
      BY <2>1, <2>2
    <2> QED BY <1>1, <2>2, <2>3 DEF PassInv
  <1>20. DoneInv'
    BY <1>3 DEF DoneInv
  <1> QED BY <1>8, <1>13, <1>14, <1>15, <1>16, <1>17, <1>18, <1>19, <1>20 DEF IInv

LEMMA DispatchForms ==
    ASSUME ServiceAssumption, IInv, NEW w \in Workers, DispatchIdle(w),
           formations' = [v \in DOMAIN formations \cup {w} |->
                IF v = w THEN [kind |-> job[First(waiting).attempt.job].kind,
                               deadline |-> clock + Window, selected |-> {First(waiting)}]
                ELSE formations[v]],
           pc' = "refill", fillTodo' = DOMAIN formations',
           UNCHANGED <<source, free, records, batch>>
    PROVE  IInv'
  <1> DEFINE x == First(waiting)
             F == Forming(formations)
             new == [kind |-> job[x.attempt.job].kind, deadline |-> clock + Window, selected |-> {x}]
  <1>1. /\ AdmitBlocked(blocked, waiting \ {x}) /\ idleTodo' = idleTodo \ {w}
        /\ UNCHANGED <<inputs, clock, before>>
    BY DEF DispatchIdle
  <1>2. policy' = policy /\ job' = job
    BY <1>1 DEF inputs
  <1>3. pc = "dispatch" /\ InPass /\ w \in IdleWorkers /\ fillTodo = {} /\ x \in waiting
    BY DispatchFacts
  <1>4. /\ TypeOK /\ LoopsInv /\ FormingLegal /\ ServedLegal /\ WorkersInv /\ PassInv /\ ChainInv
    BY DEF IInv
  <1>5. w \in Workers \ DOMAIN formations /\ free[w] <= clock
    BY <1>3 DEF IdleWorkers
  <1>6. x \in Entries
    BY <1>3, <1>4 DEF TypeOK
  <1>7. /\ DOMAIN formations' = DOMAIN formations \cup {w}
        /\ formations'[w] = new
        /\ \A v \in DOMAIN formations : formations'[v] = formations[v]
        /\ formations' = [v \in DOMAIN formations' |-> formations'[v]]
    BY <1>5
  <1> HIDE DEF x
  <1>8. new.selected = {x} /\ new.kind = Kind(x.attempt.job) /\ new \in Formed
    <2>1. x.attempt.job \in Jobs /\ clock + Window \in Nat
      BY <1>4, <1>6 DEF TypeOK, Entries, Attempts, ServiceAssumption
    <2>2. job[x.attempt.job].kind \in Kinds
      BY <1>4, <2>1 DEF TypeOK
    <2> QED BY <1>6, <2>1, <2>2 DEF Formed, Kind
  <1> HIDE DEF new
  <1>9. Forming(formations') = F \cup {<<w, x>>}
    <2>1. \A p \in Forming(formations') : p \in F \cup {<<w, x>>}
      <3> TAKE p \in Forming(formations')
      <3>1. PICK v \in DOMAIN formations' : \E y \in formations'[v].selected : p = <<v, y>>
        <4> DEFINE g == formations'
        <4> HIDE DEF g
        <4>1. p \in Forming(g) => \E v \in DOMAIN g : \E y \in g[v].selected : p = <<v, y>>
          BY FormingIn
        <4> QED BY <4>1 DEF g
      <3>2. PICK y \in formations'[v].selected : p = <<v, y>>
        BY <3>1
      <3>3. CASE v = w
        BY <1>7, <1>8, <3>2, <3>3
      <3>4. CASE v # w
        BY <1>7, <3>2, <3>4 DEF Forming
      <3> QED BY <3>3, <3>4
    <2>2. \A p \in F : p \in Forming(formations')
      BY <1>7 DEF Forming
    <2>3. <<w, x>> \in Forming(formations')
      <3>1. w \in DOMAIN formations' /\ x \in formations'[w].selected
        BY <1>7, <1>8
      <3>2. <<w, x>> \in {<<w, y>> : y \in formations'[w].selected}
        BY <3>1
      <3> QED BY <3>1, <3>2 DEF Forming
    <2> QED BY <2>1, <2>2, <2>3
  <1>10. /\ Flow(source, blocked', waiting', F \cup {<<w, x>>}, records)
         /\ blocked' \subseteq Attempts /\ IsFiniteSet(blocked')
         /\ waiting' \subseteq Entries /\ IsFiniteSet(waiting')
         /\ QueueInv'
         /\ Cardinality(source) + Cardinality(blocked') + Cardinality(waiting') = InFlight - 1
         /\ InFlight \in Nat
    BY <1>1, <1>3, TakeAndAdmit
  <1> HIDE DEF F
  <1>11. TypeOK'
    <2>1. formations' \in [DOMAIN formations' -> Formed]
      BY <1>4, <1>7, <1>8 DEF TypeOK
    <2>2. DOMAIN formations' \subseteq Workers
      BY <1>4, <1>7 DEF TypeOK
    <2> QED BY <1>1, <1>2, <1>4, <1>10, <2>1, <2>2 DEF TypeOK
  <1>12. PlacesInv' /\ ChainInv' /\ OrderInv'
    <2>1. Flow(source', blocked', waiting', Forming(formations'), records')
      BY <1>9, <1>10
    <2>2. RetriesFollowFailures'
      BY <1>4 DEF ChainInv, RetriesFollowFailures
    <2> QED BY <1>1, <2>1, <2>2, FlowInvariant
  <1>13. WorkersInv' /\ ServedLegal'
    BY <1>1, <1>2, <1>4, <1>5, <1>7 DEF WorkersInv, WorkersSerial, ServedLegal, Kind, InBatch
  <1>14. FormingLegal'
    <2>1. \A v \in DOMAIN formations' :
              /\ IsFiniteSet(formations'[v].selected) /\ Cardinality(formations'[v].selected) \in 1..MaxBatch
              /\ \A y \in formations'[v].selected : Kind(y.attempt.job) = formations'[v].kind
      <3> TAKE v \in DOMAIN formations'
      <3>1. CASE v = w
        <4>1. IsFiniteSet({x}) /\ Cardinality({x}) = 1
          BY FS_Singleton
        <4>2. MaxBatch \in Nat /\ MaxBatch # 0
          BY DEF ServiceAssumption
        <4>3. Cardinality({x}) \in 1..MaxBatch
          BY <4>1, <4>2
        <4>4. formations'[v].selected = {x} /\ formations'[v].kind = Kind(x.attempt.job)
          BY <1>7, <1>8, <3>1
        <4> QED BY <4>1, <4>3, <4>4
      <3>2. CASE v # w
        BY <1>4, <1>7, <3>2 DEF FormingLegal, Selected
      <3> QED BY <3>1, <3>2
    <2>2. \A j : Kind(j)' = Kind(j)
      BY <1>2 DEF Kind
    <2> HIDE DEF x
    <2> QED BY <2>1, <2>2 DEF FormingLegal, Selected
  <1>15. IdleWorkers' = IdleWorkers \ {w}
    BY <1>1, <1>7 DEF IdleWorkers
  <1>16. LoopsInv'
    BY <1>1, <1>4, <1>15 DEF LoopsInv
  <1>17. PassInv'
    <2>1. InFlight' = InFlight - 1
      BY <1>10 DEF InFlight
    <2>2. CASE IdleWorkers \subseteq idleTodo
      <3>1. IdleWorkers' \subseteq idleTodo'
        BY <1>1, <1>15, <2>2
      <3> QED BY <1>1, <1>3, <1>4, <1>10, <2>1, <3>1, TakenQuiet
    <2>3. CASE batch # before[6]
      BY <1>1, <1>3, <1>4, <2>3 DEF PassInv
    <2>4. IdleWorkers \subseteq idleTodo \/ batch # before[6]
      BY <1>3, <1>4 DEF PassInv, Quiet
    <2> QED BY <2>2, <2>3, <2>4
  <1>18. DoneInv'
    BY DEF DoneInv
  <1> QED BY <1>10, <1>11, <1>12, <1>13, <1>14, <1>16, <1>17, <1>18 DEF IInv

LEMMA RepeatKeeps == ASSUME ServiceAssumption, IInv, RepeatPass PROVE IInv'
  <1>1. /\ pc = "dispatch" /\ pc' = "receive" /\ idleTodo' = {}
        /\ UNCHANGED <<inputs, source, blocked, waiting, formations, free, records,
                       batch, clock, fillTodo, before>>
    BY DEF RepeatPass, PassEnds
  <1>2. LoopsInv
    BY DEF IInv
  <1>3. LoopsInv' /\ PassInv' /\ DoneInv'
    BY <1>1, <1>2 DEF LoopsInv, PassInv, DoneInv, InPass
  <1> QED BY <1>1, <1>3, KeptBooks DEF IInv

\* At a fixed point nothing can be done now, and if work is left an event is to come.
LEMMA FixedPoint ==
    ASSUME ServiceAssumption, IInv, PassEnds, ~PassChanged
    PROVE  /\ \A w \in DOMAIN formations :
                 ~IsFull(w) /\ Compatible(w) = {} /\ formations[w].deadline > clock
           /\ waiting # {} => IdleWorkers = {}
           /\ blocked # {} => Cardinality(waiting) = Capacity
           /\ WorkLeft => {t \in Events : t > clock} # {}
  <1>1. pc = "dispatch" /\ InPass /\ (idleTodo = {} \/ waiting = {})
    BY DEF PassEnds, InPass
  <1>2. TypeOK /\ LoopsInv /\ PassInv /\ QueueInv
    BY DEF IInv
  <1>3. clock \in Nat /\ Workers # {} /\ Capacity \in Nat /\ Capacity # 0
    BY <1>2 DEF TypeOK, ServiceAssumption
  <1>4. Quiet /\ InFlight = before[1] + before[2] + before[3]
    <2>1. before = Progress
      BY DEF PassChanged
    <2>2. /\ before[6] = batch
          /\ InFlight = before[1] + before[2] + before[3]
      BY <2>1, ProgressParts DEF InFlight
    <2> QED BY <1>1, <1>2, <2>2 DEF PassInv
  <1>5. \A w \in DOMAIN formations :
            ~IsFull(w) /\ Compatible(w) = {} /\ formations[w].deadline > clock
    <2> TAKE w \in DOMAIN formations
    <2>1. w \in DOMAIN formations \ fillTodo
      BY <1>1, <1>2 DEF LoopsInv
    <2>2. ~MustStart(w) /\ Compatible(w) = {}
      BY <1>1, <1>2, <1>4, <2>1 DEF LoopsInv, Quiet
    <2>3. formations[w].deadline \in Nat
      BY <1>2 DEF TypeOK, Formed
    <2> QED BY <1>3, <2>2, <2>3 DEF MustStart
  <1>6. waiting # {} => IdleWorkers = {}
    BY <1>1, <1>4 DEF Quiet
  <1>7. blocked # {} => Cardinality(waiting) = Capacity
    BY <1>2 DEF QueueInv
  <1>8. ASSUME WorkLeft
        PROVE  \E t \in Events : t > clock
    <2>1. CASE source # {}
      <3>1. PICK a \in source : a.ready > clock
        BY <1>4, <2>1 DEF Quiet
      <3> QED BY <3>1 DEF Events
    <2>2. CASE DOMAIN formations # {}
      BY <1>5, <2>2 DEF Events
    <2>3. CASE waiting # {} /\ DOMAIN formations = {}
      <3>1. PICK w \in Workers : TRUE
        BY <1>3
      <3>2. w \notin IdleWorkers
        BY <1>6, <2>3
      <3>3. free[w] \in Nat /\ ~(free[w] <= clock)
        BY <1>2, <2>3, <3>2 DEF IdleWorkers, TypeOK
      <3>4. free[w] \in Events /\ free[w] > clock
        BY <1>3, <2>3, <3>3 DEF Events
      <3> QED BY <3>4
    <2>4. CASE blocked # {}
      <3>1. waiting # {}
        BY <1>3, <1>7, <2>4, FS_EmptySet
      <3> QED BY <3>1, <2>2, <2>3
    <2> QED BY <1>8, <2>1, <2>2, <2>3, <2>4 DEF WorkLeft
  <1> QED BY <1>5, <1>6, <1>7, <1>8

LEMMA AdvanceFacts ==
    ASSUME ServiceAssumption, IInv, AdvanceClock
    PROVE  /\ clock' \in Nat /\ clock <= clock'
           /\ pc' \in {"receive", "done"} /\ (pc' = "done" => ~WorkLeft)
           /\ \A t \in Events : t > clock => clock' <= t
           /\ clock' = clock \/ (PassEnds /\ ~PassChanged)
  <1> DEFINE future == {t \in Events : t > clock}
  <1>1. /\ PassEnds /\ ~PassChanged
        /\ clock' = IF future = {} THEN clock ELSE Min(future)
        /\ pc' = IF ~WorkLeft THEN "done" ELSE IF future = {} THEN "stuck" ELSE "receive"
    BY DEF AdvanceClock
  <1>2. WorkLeft => future # {}
    BY <1>1, FixedPoint
  <1>3. future \subseteq Nat /\ clock \in Nat
    BY DEF IInv, TypeOK, Events, Attempts, Formed
  <1>4. \A t \in future : t > clock /\ t \in Events
    OBVIOUS
  <1>5. \A t \in Events : t > clock => t \in future
    OBVIOUS
  <1> HIDE DEF future
  <1>6. CASE future = {}
    BY <1>1, <1>2, <1>3, <1>5, <1>6
  <1>7. CASE future # {}
    <2>1. Min(future) \in future /\ \A t \in future : Min(future) <= t
      BY <1>3, <1>7, MinFacts
    <2>2. clock' = Min(future) /\ clock' > clock /\ clock' \in Nat
      BY <1>1, <1>3, <1>4, <1>7, <2>1
    <2>3. \A t \in Events : t > clock => clock' <= t
      BY <1>5, <2>1, <2>2
    <2>4. pc' \in {"receive", "done"} /\ (pc' = "done" => ~WorkLeft)
      BY <1>1, <1>7
    <2>5. clock <= clock'
      BY <1>3, <2>2
    <2> QED BY <1>1, <2>2, <2>3, <2>4, <2>5
  <1> QED BY <1>6, <1>7

LEMMA AdvanceKeeps == ASSUME ServiceAssumption, IInv, AdvanceClock PROVE IInv'
  <1>1. /\ idleTodo' = {} /\ pc = "dispatch"
        /\ UNCHANGED <<inputs, source, blocked, waiting, formations, free, records, batch,
                       fillTodo, before>>
    BY DEF AdvanceClock, PassEnds
  <1>2. policy' = policy /\ job' = job
    BY <1>1 DEF inputs
  <1>3. /\ clock' \in Nat /\ clock <= clock' /\ clock \in Nat
        /\ pc' \in {"receive", "done"} /\ (pc' = "done" => ~WorkLeft)
    BY AdvanceFacts DEF IInv, TypeOK
  <1>4. TypeOK'
    BY <1>1, <1>2, <1>3 DEF IInv, TypeOK
  <1>5. PlacesInv'
    BY <1>1 DEF IInv, PlacesInv, Placed, Forming, Final
  <1>6. ChainInv'
    <2>1. Chained(source, blocked, waiting, Forming(formations), records) /\ RetriesFollowFailures
      BY DEF IInv, ChainInv
    <2>2. \A a \in blocked : Due(a, records) /\ a.ready <= clock'
      <3> TAKE a \in blocked
      <3>1. a.ready \in Nat
        BY DEF IInv, TypeOK, Attempts
      <3> QED BY <1>3, <2>1, <3>1 DEF Chained
    <2>3. \A x \in waiting : Timely(x, records, clock')
      <3> TAKE x \in waiting
      <3>1. x.admitted \in Nat
        BY DEF IInv, TypeOK, Entries
      <3> QED BY <1>3, <2>1, <3>1 DEF Chained, Timely
    <2>4. \A p \in Forming(formations) : Timely(p[2], records, clock')
      <3> TAKE p \in Forming(formations)
      <3>1. p[2].admitted \in Nat
        BY InvariantFlow DEF Entries
      <3> QED BY <1>3, <2>1, <3>1 DEF Chained, Timely
    <2>5. Chained(source, blocked, waiting, Forming(formations), records)'
      BY <1>1, <2>1, <2>2, <2>3, <2>4 DEF Chained, Timely, Due, Forming
    <2>6. RetriesFollowFailures'
      BY <1>1, <2>1 DEF RetriesFollowFailures
    <2> QED BY <2>5, <2>6 DEF ChainInv
  <1>7. WorkersInv'
    <2>1. WorkersInv
      BY DEF IInv
    <2>2. \A w \in DOMAIN formations : free[w] <= clock'
      <3> TAKE w \in DOMAIN formations
      <3>1. free[w] <= clock /\ free[w] \in Nat
        BY <2>1 DEF WorkersInv, WorkersSerial, IInv, TypeOK
      <3> QED BY <1>3, <3>1
    <2>3. \A r \in records : r.start <= clock'
      <3> TAKE r \in records
      <3>1. r.start <= clock /\ r.start \in Nat
        BY <2>1 DEF WorkersInv, IInv, TypeOK, Served
      <3> QED BY <1>3, <3>1
    <2> QED BY <1>1, <2>1, <2>2, <2>3 DEF WorkersInv, WorkersSerial
  <1>8. ServedLegal' /\ QueueInv'
    BY <1>1, <1>2 DEF IInv, ServedLegal, QueueInv, Kind, InBatch
  <1>9. FormingLegal'
    BY <1>1, <1>2 DEF IInv, FormingLegal, Selected, Kind
  <1>10. OrderInv'
    <2>1. Admissions' = Admissions
      BY <1>1 DEF Admissions, Selected
    <2> QED BY <1>1, <2>1 DEF IInv, OrderInv, Ordered
  <1>11. LoopsInv'
    BY <1>1, <1>3 DEF IInv, LoopsInv, InPass
  <1>12. PassInv' /\ DoneInv'
    <2>1. WorkLeft' = WorkLeft
      BY <1>1 DEF WorkLeft
    <2> QED BY <1>3, <2>1 DEF PassInv, InPass, DoneInv
  <1> QED BY <1>4, <1>5, <1>6, <1>7, <1>8, <1>9, <1>10, <1>11, <1>12 DEF IInv

LEMMA NextKeeps == ASSUME ServiceAssumption, IInv, [Next]_vars PROVE IInv'
  <1>1. CASE ReceiveArrivals
    BY <1>1, ReceiveKeeps
  <1>2. ASSUME NEW w \in Workers, TakeCompatible(w)
        PROVE  IInv'
    BY <1>2, TakeKeeps
  <1>3. ASSUME NEW w \in Workers, LeaveFormation(w)
        PROVE  IInv'
    <2>1. CASE ~MustStart(w) /\ UNCHANGED <<source, free, records, batch, formations>>
      BY <1>3, <2>1, LeaveStays DEF LeaveFormation
    <2>2. CASE /\ StartBatch(w, formations[w].selected)
               /\ formations' = [v \in DOMAIN formations \ {w} |-> formations[v]]
      BY <1>3, <2>2, LeaveServes DEF LeaveFormation, Selected
    <2> QED BY <1>3, <2>1, <2>2 DEF LeaveFormation
  <1>4. ASSUME NEW w \in Workers, DispatchIdle(w)
        PROVE  IInv'
    <2>1. CASE StartBatch(w, {First(waiting)}) /\ UNCHANGED <<formations, pc, fillTodo>>
      BY <1>4, <2>1, DispatchServes
    <2>2. CASE /\ formations' = [v \in DOMAIN formations \cup {w} |->
                    IF v = w THEN [kind |-> job[First(waiting).attempt.job].kind,
                                   deadline |-> clock + Window, selected |-> {First(waiting)}]
                    ELSE formations[v]]
               /\ pc' = "refill" /\ fillTodo' = DOMAIN formations'
               /\ UNCHANGED <<source, free, records, batch>>
      BY <1>4, <2>2, DispatchForms
    <2> QED BY <1>4, <2>1, <2>2 DEF DispatchIdle
  <1>5. CASE FillReturns
    BY <1>5, FillReturnsKeeps
  <1>6. CASE RepeatPass
    BY <1>6, RepeatKeeps
  <1>7. CASE AdvanceClock
    BY <1>7, AdvanceKeeps
  <1>8. CASE UNCHANGED vars
    <2>1. /\ UNCHANGED <<inputs, source, blocked, waiting, formations, free, records, batch, clock>>
          /\ UNCHANGED <<pc, fillTodo, idleTodo, before>>
      BY <1>8 DEF vars, inputs
    <2>2. /\ TypeOK' /\ PlacesInv' /\ ChainInv' /\ WorkersInv' /\ FormingLegal' /\ ServedLegal'
          /\ QueueInv' /\ OrderInv'
      BY <2>1, KeptBooks DEF IInv, TypeOK
    <2>3. IdleWorkers' = IdleWorkers /\ \A v \in DOMAIN formations : MustStart(v)' = MustStart(v)
      BY <2>1 DEF IdleWorkers, MustStart, IsFull
    <2>4. LoopsInv'
      BY <2>1, <2>3 DEF IInv, LoopsInv, InPass
    <2>5. InFlight' = InFlight /\ \A v : Compatible(v)' = Compatible(v)
      BY <2>1 DEF InFlight, Compatible, inputs
    <2>6. PassInv'
      <3>1. Quiet => Quiet'
        BY <2>1, <2>3, <2>5 DEF Quiet
      <3> QED BY <2>1, <3>1 DEF IInv, PassInv, InPass
    <2>7. DoneInv'
      BY <2>1 DEF IInv, DoneInv, WorkLeft
    <2> QED BY <2>2, <2>4, <2>6, <2>7 DEF IInv
  <1> QED BY <1>1, <1>2, <1>3, <1>4, <1>5, <1>6, <1>7, <1>8 DEF Next

\* The inductive invariant holds in every reachable state.
THEOREM ServiceInvariant == ASSUME ServiceAssumption, InputsAssumption PROVE Spec => []IInv
  <1>1. Init => IInv
    BY InitInvariant
  <1>2. IInv /\ [Next]_vars => IInv'
    BY NextKeeps
  <1> QED BY <1>1, <1>2, PTL DEF Spec

-----------------------------------------------------------------------------
(* What follows.                                                           *)

LEMMA AtMostOne ==
    ASSUME NEW S, \A x, y \in S : x = y
    PROVE  Cardinality(S) = IF S = {} THEN 0 ELSE 1
  <1>1. CASE S = {}
    BY <1>1, FS_EmptySet
  <1>2. CASE S # {}
    <2>1. PICK x \in S : TRUE
      BY <1>2
    <2>2. S = {x}
      BY <2>1
    <2> QED BY <1>2, <2>2, FS_Singleton
  <1> QED BY <1>1, <1>2

LEMMA PlacedOnce == ASSUME IInv PROVE OnePlacePerJob
  <1> SUFFICES ASSUME NEW j \in Jobs
               PROVE  1 = Cardinality({a \in source : a.job = j})
                          + Cardinality({a \in blocked : a.job = j})
                          + Cardinality({w \in waiting : w.attempt.job = j})
                          + Cardinality(UNION {{<<v, x>> : x \in {y \in Selected(v) : y.attempt.job = j}} :
                                               v \in DOMAIN formations})
                          + Cardinality({r \in records : r.job = j /\ r.result # "retry"})
    BY DEF OnePlacePerJob
  <1> DEFINE s == {a \in source : a.job = j}
             b == {a \in blocked : a.job = j}
             q == {w \in waiting : w.attempt.job = j}
             f == UNION {{<<v, x>> : x \in {y \in Selected(v) : y.attempt.job = j}} : v \in DOMAIN formations}
             r == {x \in records : x.job = j /\ x.result # "retry"}
  <1>1. Placed(source, blocked, waiting, Forming(formations), Final(records))
    BY DEF IInv, PlacesInv
  <1>2. f = {p \in Forming(formations) : p[2].attempt.job = j}
    <2>1. ASSUME NEW p \in f
          PROVE  p \in Forming(formations) /\ p[2].attempt.job = j
      <3>1. PICK v \in DOMAIN formations : p \in {<<v, x>> : x \in {y \in Selected(v) : y.attempt.job = j}}
        OBVIOUS
      <3>2. PICK x \in Selected(v) : x.attempt.job = j /\ p = <<v, x>>
        BY <3>1
      <3> QED BY <3>2 DEF Forming, Selected
    <2>2. ASSUME NEW p \in Forming(formations), p[2].attempt.job = j
          PROVE  p \in f
      <3>1. PICK v \in DOMAIN formations : \E x \in formations[v].selected : p = <<v, x>>
        BY DEF Forming
      <3>2. PICK x \in Selected(v) : p = <<v, x>>
        BY <3>1 DEF Selected
      <3>3. x.attempt.job = j
        BY <2>2, <3>2
      <3>4. p \in {<<v, y>> : y \in {z \in Selected(v) : z.attempt.job = j}}
        BY <3>2, <3>3
      <3> QED BY <3>4
    <2> HIDE DEF f
    <2> QED BY <2>1, <2>2
  <1>3. r = {x \in Final(records) : x.job = j}
    BY DEF Final
  <1>4. /\ \A x, y \in s : x = y
        /\ \A x, y \in b : x = y
        /\ \A x, y \in q : x = y
        /\ \A x, y \in f : x = y
        /\ \A x, y \in r : x = y
    <2> HIDE DEF f, r
    <2> QED BY <1>1, <1>2, <1>3 DEF Placed
  <1>5. \/ s # {} /\ b = {} /\ q = {} /\ f = {} /\ r = {}
        \/ s = {} /\ b # {} /\ q = {} /\ f = {} /\ r = {}
        \/ s = {} /\ b = {} /\ q # {} /\ f = {} /\ r = {}
        \/ s = {} /\ b = {} /\ q = {} /\ f # {} /\ r = {}
        \/ s = {} /\ b = {} /\ q = {} /\ f = {} /\ r # {}
    <2>1. s # {} \/ b # {} \/ q # {} \/ f # {} \/ r # {}
      <3> HIDE DEF f, r
      <3> QED BY <1>1, <1>2, <1>3 DEF Placed
    <2>2. (s # {} => b = {} /\ q = {} /\ f = {} /\ r = {})
      <3> HIDE DEF f, r
      <3> QED BY <1>1, <1>2, <1>3 DEF Placed
    <2>3. (b # {} => q = {} /\ f = {} /\ r = {})
      <3> HIDE DEF f, r
      <3> QED BY <1>1, <1>2, <1>3 DEF Placed
    <2>4. (q # {} => f = {} /\ r = {}) /\ (f # {} => r = {})
      <3> HIDE DEF f, r
      <3> QED BY <1>1, <1>2, <1>3 DEF Placed
    <2> HIDE DEF s, b, q, f, r
    <2> QED BY <2>1, <2>2, <2>3, <2>4
  <1> HIDE DEF s, b, q, f, r
  <1>6. /\ Cardinality(s) = IF s = {} THEN 0 ELSE 1
        /\ Cardinality(b) = IF b = {} THEN 0 ELSE 1
        /\ Cardinality(q) = IF q = {} THEN 0 ELSE 1
        /\ Cardinality(f) = IF f = {} THEN 0 ELSE 1
        /\ Cardinality(r) = IF r = {} THEN 0 ELSE 1
    BY <1>4, AtMostOne
  <1>7. 1 = Cardinality(s) + Cardinality(b) + Cardinality(q) + Cardinality(f) + Cardinality(r)
    BY <1>5, <1>6
  <1> QED BY <1>7 DEF s, b, q, f, r

LEMMA AssertionsHold == ASSUME ServiceAssumption, IInv PROVE NoAssertionFails
  <1>1. pc # "stuck" /\ Cardinality(waiting) <= Capacity
    BY DEF IInv, TypeOK, QueueInv
  <1>2. /\ \A q, r \in records : q.batch = r.batch => job[q.job].kind = job[r.job].kind
        /\ \A b \in 1..batch : Cardinality({r \in records : r.batch = b}) \in 1..MaxBatch
    BY DEF IInv, ServedLegal, Kind, InBatch
  <1>3. ASSUME pc = "done"
        PROVE  Cardinality({r \in records : r.result # "retry"}) = Cardinality(Jobs)
    <2>1. source = {} /\ blocked = {} /\ waiting = {} /\ DOMAIN formations = {}
      BY <1>3 DEF IInv, DoneInv, WorkLeft
    <2>2. Forming(formations) = {}
      BY <2>1 DEF Forming
    <2>3. Placed(source, blocked, waiting, Forming(formations), Final(records))
      BY DEF IInv, PlacesInv
    <2>4. \A x \in Final(records) : x.job \in Jobs
      BY DEF IInv, TypeOK, Served, Final
    <2>5. IsFiniteSet(Jobs)
      BY DEF ServiceAssumption
    <2>6. Cardinality(Final(records)) = Cardinality(Jobs)
      BY <2>1, <2>2, <2>3, <2>4, <2>5, AllPlaced
    <2> QED BY <2>6 DEF Final
  <1> QED BY <1>1, <1>2, <1>3 DEF NoAssertionFails

LEMMA InvariantAudit == ASSUME ServiceAssumption, IInv PROVE ServiceAudit
  <1>1. OnePlacePerJob /\ NoAssertionFails
    BY PlacedOnce, AssertionsHold
  <1>2. RetriesFollowFailures /\ WorkersSerial
    BY DEF IInv, ChainInv, WorkersInv
  <1>3. AdmittedInArrivalOrder
    BY DEF IInv, OrderInv, Ordered, AdmittedInArrivalOrder
  <1> QED BY <1>1, <1>2, <1>3 DEF ServiceAudit

(* The books of the service, for any jobs, workers, batch size, window,     *)
(* queue, retries and times: no job is lost or doubled, attempts follow     *)
(* failures, workers serve one batch at a time, no assertion of run() fails *)
(* and admission is first come first served.                                *)
THEOREM ServiceAudited ==
    ASSUME ServiceAssumption, InputsAssumption PROVE Spec => []ServiceAudit
  <1>1. Spec => []IInv
    BY ServiceInvariant
  <1>2. IInv => ServiceAudit
    BY InvariantAudit
  <1> QED BY <1>1, <1>2, PTL

(* The clock moves only when nothing can be done now, and never past the    *)
(* deadline of a batch that is forming.                                     *)
THEOREM ServiceWorkConserving ==
    ASSUME ServiceAssumption, InputsAssumption PROVE Spec => WorkConserving
  <1> DEFINE Conserving ==
        clock' > clock =>
          /\ waiting # {} => IdleWorkers = {}
          /\ \A w \in DOMAIN formations : IsFull(w) \/ Compatible(w) = {}
          /\ blocked # {} => Cardinality(waiting) = Capacity
          /\ \A w \in DOMAIN formations : clock' <= formations[w].deadline
  <1>1. ASSUME IInv, [Next]_vars
        PROVE  Conserving
    <2> SUFFICES ASSUME clock' > clock
                 PROVE  Conserving
      OBVIOUS
    <2>1. clock' # clock
      BY <1>1 DEF IInv, TypeOK
    <2>2. AdvanceClock
      BY <1>1, <2>1 DEF Next, ReceiveArrivals, TakeCompatible, LeaveFormation, FillReturns,
                        DispatchIdle, RepeatPass, vars
    <2>3. PassEnds /\ ~PassChanged /\ \A t \in Events : t > clock => clock' <= t
      BY <1>1, <2>1, <2>2, AdvanceFacts
    <2>4. /\ \A w \in DOMAIN formations :
                ~IsFull(w) /\ Compatible(w) = {} /\ formations[w].deadline > clock
          /\ waiting # {} => IdleWorkers = {}
          /\ blocked # {} => Cardinality(waiting) = Capacity
      BY <1>1, <2>3, FixedPoint
    <2>5. \A w \in DOMAIN formations : clock' <= formations[w].deadline
      BY <2>3, <2>4 DEF Events
    <2> QED BY <2>4, <2>5
  <1>2. Spec => []IInv
    BY ServiceInvariant
  <1>3. IInv /\ [Next]_vars => Conserving
    BY <1>1
  <1>4. WorkConserving <=> [][Conserving]_vars
    BY PTL DEF WorkConserving
  <1> QED BY <1>2, <1>3, <1>4, PTL DEF Spec

=============================================================================
