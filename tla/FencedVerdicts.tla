---------------------------- MODULE FencedVerdicts ----------------------------
(***************************************************************************)
(* What the protocol promises its coordinator about verification, with no  *)
(* process, transport or crash in sight: attempts are issued with fresh,   *)
(* growing versions, and only the newest attempt of a request can be       *)
(* judged, at most once.                                                   *)
(***************************************************************************)
EXTENDS Integers

CONSTANT Requests

VARIABLES
    issued,   \* tags of every attempt ever issued
    judged    \* tags whose verdict took effect

vars == <<issued, judged>>

Attempt == [req : Requests, round : Nat, version : Nat \ {0}]

Init == issued = {} /\ judged = {}

Newer(t, u) == u.req = t.req => u.version < t.version

Issue(t) ==
    /\ t \in Attempt \ issued
    /\ \A u \in issued : Newer(t, u)
    /\ issued' = issued \cup {t}
    /\ judged' = judged

Judge(t) ==
    /\ t \in issued \ judged
    /\ \A u \in issued \ {t} : Newer(t, u)
    /\ judged' = judged \cup {t}
    /\ issued' = issued

\* The attempt issued is the one that issued' gains.
Next ==
    \/ \E t \in issued' : Issue(t)
    \/ \E t \in issued : Judge(t)

Spec == Init /\ [][Next]_vars

=============================================================================
