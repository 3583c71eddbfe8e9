--------------------------- MODULE FissionProtocol ---------------------------
(***************************************************************************)
(* The per-request protocol object of fissionspec/protocol.py as pure      *)
(* operators on its five fields.  A method that checks a condition and     *)
(* then assigns is split in two: Can... / Matches... is the condition (an  *)
(* early return or an InvalidTransitionError otherwise), and the operator  *)
(* named after the method is the object after the assignments.  The object *)
(* lock makes each method one atomic step, so a caller uses both halves in *)
(* one action.                                                             *)
(*                                                                         *)
(* An operator named Wrong... is a plausible mistake in the operator that  *)
(* follows it.  Nothing uses it: it is what the property named beside it   *)
(* must be able to catch.                                                  *)
(***************************************************************************)
EXTENDS Integers

CONSTANTS
    Requests,   \* request identifiers
    NoTag       \* active_tag = None

\* Identity carried by every command and by every asynchronous reply.
Tag == [req : Requests, round : Nat, version : Nat \ {0}]

ASSUME NoTagAssumption == NoTag \notin Tag

ReadyStates == {"ready", "ready_hit", "ready_backup"}
InFlightStates == {"verifying", "recovering"}
ProtocolStates == ReadyStates \cup InFlightStates \cup {"finished"}

Protocol ==
    [state : ProtocolStates, round : Nat \cup {-1}, version : Nat,
     active : Tag \cup {NoTag}, accepted : Nat]

NewProtocol ==
    [state |-> "ready", round |-> -1, version |-> 0,
     active |-> NoTag, accepted |-> 0]

TagAt(r, round, version) == [req |-> r, round |-> round, version |-> version]

-----------------------------------------------------------------------------
(* Local transitions. *)

CanStartVerification(p, round) == p.state \in ReadyStates /\ round > p.round

\* The tag is built before the version is bumped (TypeOK).
WrongStartVerification(p, r, round) ==
    [state |-> "verifying", round |-> round, version |-> p.version + 1,
     active |-> TagAt(r, round, p.version), accepted |-> 0]

\* Versions start over in every round (ImplementsFencedVerdicts).
WrongRestartVersions(p, r, round) ==
    [state |-> "verifying", round |-> round, version |-> 1,
     active |-> TagAt(r, round, 1), accepted |-> 0]

StartVerification(p, r, round) ==
    [state |-> "verifying", round |-> round, version |-> p.version + 1,
     active |-> TagAt(r, round, p.version + 1), accepted |-> 0]

CanRetryVerification(p) == p.state = "verifying"

RetryVerification(p, r) ==
    [state |-> p.state, round |-> p.round, version |-> p.version + 1,
     active |-> TagAt(r, p.round, p.version + 1), accepted |-> 0]

CanInvalidateInflight(p) == p.state \in InFlightStates

\* The timed-out command keeps its identity (CommandsNeverReissued).
WrongInvalidateInflight(p, r) ==
    [state |-> "recovering", round |-> p.round, version |-> p.version,
     active |-> TagAt(r, p.round, p.version), accepted |-> p.accepted]

\* Keeps the prefix accepted so far; only the identity changes.
InvalidateInflight(p, r) ==
    [state |-> "recovering", round |-> p.round, version |-> p.version + 1,
     active |-> TagAt(r, p.round, p.version + 1), accepted |-> p.accepted]

CanFinish(p) == p.state \in ReadyStates

FinishProtocol(p) ==
    [state |-> "finished", round |-> p.round, version |-> p.version + 1,
     active |-> NoTag, accepted |-> p.accepted]

-----------------------------------------------------------------------------
(* Reply handlers: a reply that does not match is stale and changes nothing. *)

\* A reply is matched on its round alone (OnlyNewestCommandMatches).
WrongMatchesVerify(p, tag) ==
    p.state = "verifying" /\ tag.req = p.active.req /\ tag.round = p.round

MatchesVerify(p, tag) == p.state = "verifying" /\ p.active = tag

\* A miss forgets the identity of the recovery it starts (CheckpointNeverRejected).
WrongHandleVerifyReply(p, hit, accepted) ==
    [state |-> IF hit THEN "ready_hit" ELSE "recovering",
     round |-> p.round, version |-> p.version,
     active |-> NoTag, accepted |-> accepted]

\* A miss keeps the tag: the recovery it starts has the identity of the round.
HandleVerifyReply(p, hit, accepted) ==
    [state |-> IF hit THEN "ready_hit" ELSE "recovering",
     round |-> p.round, version |-> p.version,
     active |-> IF hit THEN NoTag ELSE p.active, accepted |-> accepted]

\* Versions are taken to advance with rounds (EveryAttemptSettles).
WrongMatchesRecovery(p, tag) ==
    p.state = "recovering" /\ p.active = tag /\ tag.version = p.round + 1

MatchesRecovery(p, tag) == p.state = "recovering" /\ p.active = tag

HandleRecoveryReply(p, finished) ==
    [state |-> IF finished THEN "finished" ELSE "ready_backup",
     round |-> p.round, version |-> p.version,
     active |-> NoTag, accepted |-> p.accepted]

-----------------------------------------------------------------------------
(* Checkpoints. *)

\* What snapshot() and from_snapshot() insist on; both raise otherwise.
ValidSnapshot(p, r) ==
    /\ IF p.state \in InFlightStates
       THEN p.round >= 0 /\ p.active = TagAt(r, p.round, p.version)
       ELSE p.active = NoTag
    /\ IF p.state = "ready"
       THEN p.round = -1 /\ p.version = 0 /\ p.accepted = 0
       ELSE /\ p.state = "finished" \/ p.round >= 0
            /\ p.version >= 1

\* The attempt in flight is resumed as if it were still awaited
\* (LostRepliesFenced, VerdictOnce).
WrongResumeAfterCrash(p, r) == p

\* In-flight work is fenced; a ready or finished checkpoint is returned as is.
ResumeAfterCrash(p, r) ==
    IF p.state \in InFlightStates THEN InvalidateInflight(p, r) ELSE p

=============================================================================
