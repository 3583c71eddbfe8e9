------------------------- MODULE BaselineSchedulers -------------------------
(***************************************************************************)
(* The comparator schedulers of fissionspec/baselines.py and their costs,  *)
(* as operators.  A candidate is a CandidateView                           *)
(*   [id, step, padding, since, deadline, seq, width]                      *)
(* and a scheduler a record of its kind and settings.  Times and costs are *)
(* whole numbers; the compression factor is a percentage.                  *)
(***************************************************************************)
EXTENDS HardwareProfile, EventQueue, FiniteSetsExt

SortedBy(rows, key(_)) == SortSeq(rows, LAMBDA a, b : KeyBefore(key(a), key(b)))
Flag(condition) == IF condition THEN 1 ELSE 0

\* [keys, at, realign]: the chosen rows and when to launch them.
Batch(rows, at, realign) == [rows |-> rows, at |-> at, realign |-> realign]

RealRows(rows) == SelectSeq(rows, LAMBDA v : ~v.padding)
PaddingRows(rows) == SelectSeq(rows, LAMBDA v : v.padding)
Arrivals(v) == <<v.since, v.id, v.step>>

FIFOBatch(rows, now, capacity) ==
    Batch(Take(SortedBy(RealRows(rows), Arrivals), capacity), now, FALSE)

\* Earliest deadline over real and padded rows alike.
SPECTREBatch(rows, capacity) ==
    LET ordered == SortedBy(rows, LAMBDA v : <<v.deadline, v.since, Flag(v.padding), v.id, v.step>>)
    IN  Batch(Take(ordered, capacity), ordered[1].since, FALSE)

Shape(v) == <<v.seq, v.width>>

\* The largest group of one shape in the window, or else the head of the
\* window, aligned by force.
EXSpecBatch(s, rows, now, capacity) ==
    LET window   == Take(SortedBy(RealRows(rows), Arrivals), s.window)
        Group(x) == SelectSeq(window, LAMBDA v : Shape(v) = x)
        shapes   == {Shape(v) : v \in ToSet(window)}
        eligible == {x \in shapes : Len(Group(x)) >= s.group}
        Rank(x)  == <<-Len(Group(x)), Head(Group(x)).since, Head(Group(x)).id>>
        best     == CHOOSE x \in eligible : \A y \in eligible \ {x} : KeyBefore(Rank(x), Rank(y))
        mixed    == Take(window, capacity)
    IN  IF eligible # {} THEN Batch(Take(Group(best), capacity), now, FALSE)
        ELSE Batch(mixed, now, Cardinality({Shape(v) : v \in ToSet(mixed)}) > 1)

Estimate(s, v) == s.base + v.width * s.slot

\* The window is measured from now, so that every wake opens another one
\* (NothingStarves).
WrongMyopicBatch(s, rows, now, capacity) ==
    LET real == RealRows(rows)
    IN  Batch(Take(SortedBy(real, Arrivals), capacity),
              IF Len(real) < capacity THEN now + s.coalesce ELSE now, FALSE)

\* Rows past the starvation bound first, then least slack less age; the window
\* is open while there is room and no chosen row is endangered.
MyopicBatch(s, rows, now, capacity) ==
    LET real     == RealRows(rows)
        wait(v)  == Max({0, now - v.since})
        score(v) == <<Flag(wait(v) < s.starve),
                      v.deadline - now - Estimate(s, v) - s.aging * wait(v), v.since, v.id>>
        selected == Take(SortedBy(real, score), capacity)
        due      == Min({v.since : v \in ToSet(real)}) + s.coalesce
        safe     == Min({v.deadline - Estimate(s, v) : v \in ToSet(selected)})
    IN  Batch(selected,
              IF Len(real) < capacity /\ s.coalesce > 0 THEN Max({now, Min({due, safe})}) ELSE now,
              FALSE)

ChooseBatch(s, rows, now, capacity) ==
    IF s.kind # "spectre" /\ RealRows(rows) = <<>> THEN Batch(<<>>, now, FALSE)
    ELSE CASE s.kind = "fifo" -> FIFOBatch(rows, now, capacity)
           [] s.kind = "exspec" -> EXSpecBatch(s, rows, now, capacity)
           [] s.kind = "myopic" -> MyopicBatch(s, rows, now, capacity)
           [] s.kind = "spectre" -> SPECTREBatch(rows, capacity)

\* SpectreCalibration.decide on rollbacks / rows; the others stay ordinary.
RecoveryMode(s, rollbacks, rows) ==
    IF s.kind = "spectre" /\ s.parallel * rows + rollbacks * s.penalty <= s.ordinary * rows
    THEN "parallel" ELSE "ordinary"

RecoveryLatency(costs, s, context, width) ==
    DraftLatency(costs.hardware, 1, TRUE)
        + (context * s.compress * costs.context) \div 100 + width * costs.token

Spread(xs) == Max(xs) - Min(xs)

RealignmentLatency(costs, rows) ==
    LET seqs   == {v.seq : v \in ToSet(rows)}
        widths == {v.width : v \in ToSet(rows)}
    IN  IF Cardinality({Shape(v) : v \in ToSet(rows)}) <= 1 THEN 0
        ELSE costs.alignBase * Len(rows) + (Spread(seqs) + Spread(widths)) * costs.alignUnit

\* How long a ready row may wait at an idle target.
IdleWindow(s) == IF s.kind = "myopic" THEN s.coalesce ELSE 0

=============================================================================
