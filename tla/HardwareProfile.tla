--------------------------- MODULE HardwareProfile ---------------------------
(***************************************************************************)
(* The latency model of fissionspec/profiles.py on integer milliseconds.   *)
(* A curve is a sequence of <<batch, latency>> samples; the instances use  *)
(* curves whose slopes are whole numbers, on which the division below is   *)
(* the exact quotient the code computes with floats.                       *)
(***************************************************************************)
EXTENDS Integers, Sequences

\* What LatencyCurve accepts, and the whole slopes that make division exact.
ValidCurve(points) ==
    /\ Len(points) > 0 /\ points[1][1] > 0 /\ points[1][2] > 0
    /\ \A i \in 1..(Len(points) - 1) :
          /\ points[i][1] < points[i + 1][1]
          /\ points[i][2] <= points[i + 1][2]
          /\ (points[i + 1][2] - points[i][2]) % (points[i + 1][1] - points[i][1]) = 0

LinearCurve(intercept, slope) == <<<<1, intercept + slope>>, <<2, intercept + 2 * slope>>>>

\* On or left of the last sample the segment that ends at or after `rows`;
\* right of it the last segment, extended.
Segment(points, rows) ==
    CHOOSE i \in 1..(Len(points) - 1) :
        /\ rows <= points[i + 1][1] \/ i = Len(points) - 1
        /\ \A j \in 1..(i - 1) : rows > points[j + 1][1]

LatencyAt(points, rows) ==
    IF rows <= points[1][1] \/ Len(points) = 1
    THEN (points[1][2] * rows) \div points[1][1]
    ELSE LET i == Segment(points, rows)
             l == points[i]
             r == points[i + 1]
         IN  l[2] + ((rows - l[1]) * (r[2] - l[2])) \div (r[1] - l[1])

PowerOfTwo(n) == CHOOSE q \in {1, 2, 4, 8, 16} : q >= n /\ (q = 1 \/ q \div 2 < n)

\* A profile is [target, draft, recovery, slot, bucketed]: three curves and the
\* price of one verifier slot.  Only the profile that run_oracle_campaign.py puts
\* in the place of a HardwareProfile rounds the slots up to a graph bucket.
TargetLatency(profile, rows, slots) ==
    LatencyAt(profile.target, rows)
        + (IF profile.bucketed THEN PowerOfTwo(slots) ELSE slots) * profile.slot

DraftLatency(profile, rows, recovery) ==
    LatencyAt(IF recovery THEN profile.recovery ELSE profile.draft, rows)

=============================================================================
