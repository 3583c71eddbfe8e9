------------------------------ MODULE ReplayFreeze ------------------------------
(***************************************************************************)
(* tools/freeze_public_replay.py: the public replay of the third anchor.   *)
(* A freeze inspects the raw trace, opens it a second time to select the   *)
(* window its hash points to, and writes the derivative and its manifest;  *)
(* the verification has only these two files.  The raw file may be         *)
(* replaced, a write may fail and the tool may be killed between any two   *)
(* steps.                                                                  *)
(***************************************************************************)
EXTENDS Integers, Sequences, FiniteSets, SequencesExt

CONSTANTS
    RawTraces,   \* contents of the raw file: [digest, rows]
    Second,      \* time units in a second
    WindowSizes  \* numbers of rows a freeze is asked for

Stamps == [at : Nat, short : BOOLEAN]
RawRows == [stamp : Stamps, prompt : Nat, output : Nat]

\* Assumed of the constants: a content is known by its digest.
ReplayConstants ==
    /\ Second \in Nat \ {0} /\ WindowSizes \subseteq Nat \ {0}
    /\ RawTraces \subseteq [digest : Nat, rows : Seq(RawRows)]
    /\ \A r, s \in RawTraces : r.digest = s.digest => r = s

VARIABLES
    contract,     \* the raw trace that is registered
    raw,          \* the raw file
    trace,        \* the derivative, as a sequence of at most one
    provenance,   \* its manifest, likewise
    mixed,        \* some window was selected from another file than was inspected
    freezing      \* the freeze: [step, force, size, inspected, derived, before]

vars == <<contract, raw, trace, provenance, mixed, freezing>>

----------------------------------------------------------------------------
(* The raw trace.  A row has a time and counts of tokens; the text of a    *)
(* time on a whole second may leave the fraction out.                      *)

\* Timestamps are compared as text: at one time, the short text comes first.
TextAtMost(a, b) == a.at < b.at \/ (a.at = b.at /\ (a.short \/ ~b.short))

\* Every row is parsed: the counts are positive and the texts in order.
Inspects(file) ==
    /\ file.rows # <<>>
    /\ \A i \in DOMAIN file.rows :
          /\ file.rows[i].prompt > 0 /\ file.rows[i].output > 0
          /\ i > 1 => TextAtMost(file.rows[i - 1].stamp, file.rows[i].stamp)

Inspection(file) ==
    [digest |-> file.digest, rows |-> Len(file.rows),
     first |-> Head(file.rows).stamp, last |-> Last(file.rows).stamp]

Span(inspected) == (inspected.last.at - inspected.first.at) \div Second

\* The window starts a number of seconds, taken from the digest, after the start.
OffsetSeconds(inspected) == inspected.digest % Span(inspected)
Target(inspected) == inspected.first.at + OffsetSeconds(inspected) * Second

\* The row at the target's own time is passed over (BundlesWhole).
WrongReached(stamp, target) == stamp.at > target

\* Rows whose text is below the target's are passed over, the target's text is long.
Reached(stamp, target) == stamp.at > target \/ (stamp.at = target /\ ~stamp.short)

Hits(rows, target) == {i \in DOMAIN rows : Reached(rows[i].stamp, target)}

\* The k-th number of a set.
Below(S, m) == {i \in S : i < m}
Nth(S, k) == CHOOSE i \in S : Cardinality(Below(S, i)) = k - 1

\* The first rows after the target, timed from the first of them.
SelectRows(rows, target, size) ==
    LET taken == [k \in 1..size |-> Nth(Hits(rows, target), k)]
        start == rows[taken[1]].stamp.at
    IN  [i \in 1..size |->
            [arrival |-> rows[taken[i]].stamp.at - start, stamp |-> rows[taken[i]].stamp,
             output |-> rows[taken[i]].output, prompt |-> rows[taken[i]].prompt, row |-> taken[i] - 1]]

\* The manifest: the registered source, the selection and the hash of the file.
ManifestPayload(inspected, selected) ==
    [source |-> inspected,
     offset |-> OffsetSeconds(inspected), target |-> Target(inspected),
     firstRow |-> Head(selected).row, lastRow |-> Last(selected).row,
     first |-> Head(selected).stamp, last |-> Last(selected).stamp,
     span |-> Last(selected).stamp.at - Head(selected).stamp.at,
     rows |-> Len(selected), derivative |-> selected]

----------------------------------------------------------------------------
(* The verification.                                                       *)

\* The replay loader takes the file.
LoadsTrace(rows) == \A i \in DOMAIN rows : rows[i].arrival >= 0 /\ rows[i].output > 0 /\ rows[i].prompt >= 0

\* Times count from the first row, token counts are positive, row numbers are
\* consecutive, and both ends are those of the manifest.
DerivativeRows(rows, m) ==
    /\ \A i \in DOMAIN rows :
          /\ rows[i].arrival = rows[i].stamp.at - Head(rows).stamp.at
          /\ rows[i].output > 0 /\ rows[i].prompt > 0
          /\ i > 1 => rows[i].arrival >= rows[i - 1].arrival /\ rows[i].row = rows[i - 1].row + 1
    /\ Head(rows).stamp = m.first /\ Last(rows).stamp = m.last
    /\ Head(rows).row = m.firstRow /\ Last(rows).row = m.lastRow
    /\ Last(rows).arrival = m.span

Verifies(size) ==
    /\ trace # <<>> /\ provenance # <<>>
    /\ LET m == provenance[1]  rows == trace[1]
       IN  /\ m.source = Inspection(contract)
           /\ m.rows = size /\ m.derivative = rows /\ Len(rows) = size
           /\ LoadsTrace(rows) /\ Head(rows).arrival = 0
           /\ DerivativeRows(rows, m)

----------------------------------------------------------------------------
(* A freeze.                                                               *)

Idle == [step |-> "idle", force |-> FALSE, size |-> 0, inspected |-> <<>>, derived |-> <<>>, before |-> <<>>]
Raise == freezing' = [freezing EXCEPT !.step = "raised", !.inspected = <<>>, !.derived = <<>>]
Exists == trace # <<>> \/ provenance # <<>>

Init ==
    /\ contract \in {r \in RawTraces : Inspects(r)} /\ raw = contract
    /\ trace = <<>> /\ provenance = <<>> /\ mixed = FALSE /\ freezing = Idle

Start(force, size) ==
    /\ freezing.step \in {"idle", "raised", "rejected", "done"}
    /\ freezing' = [Idle EXCEPT !.step = "inspect", !.force = force, !.size = size, !.before = <<trace, provenance>>]
    /\ UNCHANGED <<contract, raw, trace, provenance, mixed>>

\* The file is hashed and must be the registered one.
InspectSource ==
    /\ freezing.step = "inspect"
    /\ IF Inspects(raw) /\ Inspection(raw) = Inspection(contract) /\ Span(Inspection(raw)) >= 1
       THEN freezing' = [freezing EXCEPT !.step = "select", !.inspected = <<Inspection(raw)>>]
       ELSE Raise
    /\ UNCHANGED <<contract, raw, trace, provenance, mixed>>

\* The file is opened again.
Select ==
    /\ freezing.step = "select"
    /\ LET inspected == freezing.inspected[1]
           target == Target(inspected)
       IN  IF Cardinality(Hits(raw.rows, target)) < freezing.size THEN Raise /\ UNCHANGED mixed
           ELSE /\ freezing' = [freezing EXCEPT !.step = "trace",
                                    !.derived = <<SelectRows(raw.rows, target, freezing.size)>>]
                /\ mixed' = (mixed \/ raw.digest # inspected.digest)
    /\ UNCHANGED <<contract, raw, trace, provenance>>

\* Without --force no existing file is replaced.
WriteTrace ==
    /\ freezing.step = "trace"
    /\ IF Exists /\ ~freezing.force THEN Raise /\ UNCHANGED trace
       ELSE trace' = freezing.derived /\ freezing' = [freezing EXCEPT !.step = "manifest"]
    /\ UNCHANGED <<contract, raw, provenance, mixed>>

WriteManifest ==
    /\ freezing.step = "manifest"
    /\ provenance' = <<ManifestPayload(freezing.inspected[1], freezing.derived[1])>>
    /\ freezing' = [freezing EXCEPT !.step = "verify"]
    /\ UNCHANGED <<contract, raw, trace, mixed>>

\* A write fails; a trace that is new is removed with its manifest.
WriteFails ==
    /\ freezing.step \in {"trace", "manifest"}
    /\ trace' = IF freezing.step = "manifest" /\ ~freezing.force THEN <<>> ELSE trace
    /\ Raise
    /\ UNCHANGED <<contract, raw, provenance, mixed>>

VerifyFrozen ==
    /\ freezing.step = "verify"
    /\ freezing' = [freezing EXCEPT !.step = IF Verifies(freezing.size) THEN "done" ELSE "rejected",
                                    !.inspected = <<>>, !.derived = <<>>]
    /\ UNCHANGED <<contract, raw, trace, provenance, mixed>>

Kill ==
    /\ freezing.step # "idle"
    /\ freezing' = Idle
    /\ UNCHANGED <<contract, raw, trace, provenance, mixed>>

ReplaceRaw(r) ==
    /\ r # raw
    /\ raw' = r
    /\ UNCHANGED <<contract, trace, provenance, mixed, freezing>>

Next ==
    \/ \E force \in BOOLEAN, size \in WindowSizes : Start(force, size)
    \/ InspectSource \/ Select \/ WriteTrace \/ WriteManifest \/ WriteFails \/ VerifyFrozen \/ Kill
    \/ \E r \in RawTraces : ReplaceRaw(r)

Spec == Init /\ [][Next]_vars

----------------------------------------------------------------------------
(* Properties.                                                             *)

\* The rows i, i + 1, ... of a file, timed from row i.
Excerpt(rows, i, size) ==
    [k \in 1..size |->
        [arrival |-> rows[i + k - 1].stamp.at - rows[i].stamp.at, stamp |-> rows[i + k - 1].stamp,
         output |-> rows[i + k - 1].output, prompt |-> rows[i + k - 1].prompt, row |-> i + k - 2]]

\* The earliest row at or after time t; a short text at t itself is passed over.
StartsAt(rows, i, t) ==
    /\ rows[i].stamp.at >= t
    /\ \A j \in 1..(i - 1) : rows[j].stamp.at < t \/ (rows[j].stamp.at = t /\ rows[j].stamp.short)

\* What verifies is an unbroken stretch of some raw trace, timed from its own
\* start; and it is the registered stretch of the registered trace, whatever
\* kills, failed writes and forced repetitions with other sizes came before,
\* unless the raw file was replaced between its inspection and its selection.
ReplayRegistered ==
    \A size \in WindowSizes : Verifies(size) =>
        \E r \in IF mixed THEN RawTraces ELSE {contract} :
            \E i \in 1..(Len(r.rows) - size + 1) :
                /\ trace[1] = Excerpt(r.rows, i, size)
                /\ mixed \/ StartsAt(r.rows, i, Target(Inspection(contract)))

\* A freeze that is not forced and fails before its own verification leaves
\* the two files as it found them, and one that is not disturbed passes it.
FailureLeavesNothing ==
    /\ freezing.step = "raised" /\ ~freezing.force => freezing.before = <<trace, provenance>>
    /\ freezing.step = "rejected" => mixed

=============================================================================
