--------------------------- MODULE ProtocolSession ---------------------------
(***************************************************************************)
(* Protocol objects (FissionProtocol) used by a process that can die, over *)
(* an at-least-once transport.                                             *)
(*                                                                         *)
(* commands holds every command that ever left the process and is never    *)
(* emptied, so a worker may answer a command never, late, twice, in any    *)
(* order and with different answers.  A reply that is stale changes        *)
(* nothing in the code and is a stuttering step here.                      *)
(*                                                                         *)
(* Crash is process death: the objects of all requests are rebuilt by      *)
(* resume_after_crash from their last published snapshot.  life numbers    *)
(* the address spaces and is stamped on a command when it leaves; the code *)
(* has no such number and no guard reads it.                               *)
(*                                                                         *)
(* PublishBeforeEmit says when the caller publishes a snapshot: TRUE means *)
(* a command leaves only once the state that names it is durable, FALSE    *)
(* means snapshots are taken at any time (the Publish action alone).       *)
(***************************************************************************)
EXTENDS FissionProtocol

CONSTANTS
    PublishBeforeEmit,  \* BOOLEAN, see above
    MaxRound,           \* bound on explicit round numbers
    MaxVersion,         \* bound on local version bumps
    MaxLife,            \* bound on the number of crashes
    MaxAccepted         \* bound on the prefix a reply may report

ASSUME SessionAssumption ==
    /\ PublishBeforeEmit \in BOOLEAN
    /\ MaxRound \in Nat /\ MaxVersion \in Nat
    /\ MaxLife \in Nat /\ MaxAccepted \in Nat

VARIABLES
    proto,      \* proto[r]: the live protocol object of request r
    durable,    \* durable[r]: the last snapshot published for r
    commands,   \* every command emitted: [kind, tag, life]
    life,       \* number of the current address space
    verdicts    \* history: tags whose verify reply took effect

vars == <<proto, durable, commands, life, verdicts>>

Command == [kind : {"verify", "recovery"}, tag : Tag, life : Nat]

Init ==
    /\ proto = [r \in Requests |-> NewProtocol]
    /\ durable = proto
    /\ commands = {}
    /\ life = 0
    /\ verdicts = {}

-----------------------------------------------------------------------------
\* The command (kind, tag of p) leaves the process that now holds p for r.
Emit(r, p, kind) ==
    /\ commands' = commands \cup {[kind |-> kind, tag |-> p.active, life |-> life]}
    /\ durable' = IF PublishBeforeEmit THEN [durable EXCEPT ![r] = p] ELSE durable

\* start_verification, with the default next round or an explicit later one.
Start(r, round) ==
    LET p == StartVerification(proto[r], r, round)
    IN  /\ CanStartVerification(proto[r], round)
        /\ proto[r].version < MaxVersion
        /\ proto' = [proto EXCEPT ![r] = p]
        /\ Emit(r, p, "verify")
        /\ UNCHANGED <<life, verdicts>>

\* retry_verification: the caller gave up on the attempt in flight.
Retry(r) ==
    LET p == RetryVerification(proto[r], r)
    IN  /\ CanRetryVerification(proto[r])
        /\ proto[r].version < MaxVersion
        /\ proto' = [proto EXCEPT ![r] = p]
        /\ Emit(r, p, "verify")
        /\ UNCHANGED <<life, verdicts>>

\* invalidate_inflight_for_recovery: the timeout escape hatch.
Invalidate(r) ==
    LET p == InvalidateInflight(proto[r], r)
    IN  /\ CanInvalidateInflight(proto[r])
        /\ proto[r].version < MaxVersion
        /\ proto' = [proto EXCEPT ![r] = p]
        /\ Emit(r, p, "recovery")
        /\ UNCHANGED <<life, verdicts>>

Finish(r) ==
    /\ CanFinish(proto[r])
    /\ proto[r].version < MaxVersion
    /\ proto' = [proto EXCEPT ![r] = FinishProtocol(proto[r])]
    /\ UNCHANGED <<durable, commands, life, verdicts>>

\* A verify reply with the tag of c reaches the object of r.
VerifyReply(r, c, hit, accepted) ==
    LET p == HandleVerifyReply(proto[r], hit, accepted)
    IN  /\ c.kind = "verify"
        /\ MatchesVerify(proto[r], c.tag)
        /\ proto' = [proto EXCEPT ![r] = p]
        /\ IF hit THEN UNCHANGED <<durable, commands>> ELSE Emit(r, p, "recovery")
        /\ verdicts' = verdicts \cup {c.tag}
        /\ UNCHANGED life

\* A recovery reply with the tag of c reaches the object of r.
RecoveryReply(r, c, finished) ==
    /\ c.kind = "recovery"
    /\ MatchesRecovery(proto[r], c.tag)
    /\ proto' = [proto EXCEPT ![r] = HandleRecoveryReply(proto[r], finished)]
    /\ UNCHANGED <<durable, commands, life, verdicts>>

\* snapshot() of r, published.
Publish(r) ==
    /\ durable' = [durable EXCEPT ![r] = proto[r]]
    /\ UNCHANGED <<proto, commands, life, verdicts>>

\* The process dies; every object resumes from its snapshot, and the recovery
\* commands that resume_after_crash returns leave under the new life.
Crash ==
    LET resumed == [r \in Requests |-> ResumeAfterCrash(durable[r], r)]
        fenced  == {r \in Requests : durable[r].state \in InFlightStates}
    IN  /\ life < MaxLife
        /\ life' = life + 1
        /\ proto' = resumed
        /\ commands' = commands \cup
               {[kind |-> "recovery", tag |-> resumed[r].active, life |-> life + 1] :
                    r \in fenced}
        /\ durable' = IF PublishBeforeEmit THEN resumed ELSE durable
        /\ UNCHANGED verdicts

Next ==
    \/ \E r \in Requests :
          \/ \E round \in 0..MaxRound : Start(r, round)
          \/ Retry(r) \/ Invalidate(r) \/ Finish(r) \/ Publish(r)
          \/ \E c \in commands :
                \/ \E hit \in BOOLEAN, accepted \in 0..MaxAccepted :
                      VerifyReply(r, c, hit, accepted)
                \/ \E finished \in BOOLEAN : RecoveryReply(r, c, finished)
    \/ Crash

Spec == Init /\ [][Next]_vars

-----------------------------------------------------------------------------
TypeOK ==
    /\ proto \in [Requests -> Protocol]
    /\ durable \in [Requests -> Protocol]
    /\ commands \subseteq Command
    /\ life \in Nat
    /\ verdicts \subseteq Tag

Matches(r, c) ==
    \/ c.kind = "verify" /\ MatchesVerify(proto[r], c.tag)
    \/ c.kind = "recovery" /\ MatchesRecovery(proto[r], c.tag)

(* No sequence of legal calls, replies and crashes builds an object that   *)
(* snapshot() would refuse to save or from_snapshot() to restore: a        *)
(* request can always be checkpointed (_validate_snapshot).                *)
CheckpointNeverRejected ==
    \A r \in Requests :
        ValidSnapshot(proto[r], r) /\ ValidSnapshot(durable[r], r)

(* Every command is the only one of its kind, request and version, in all  *)
(* lives: a version a command left with is never handed out again.         *)
CommandsNeverReissued ==
    \A c, d \in commands :
        /\ c.kind = d.kind
        /\ c.tag.req = d.tag.req
        /\ c.tag.version = d.tag.version
        => c = d

(* A reply to a command of an address space that is gone matches nothing   *)
(* in the restored objects, whatever it says and whenever it arrives       *)
(* (resume_after_crash: "fence messages that predate the crash").          *)
LostRepliesFenced ==
    \A c \in commands, r \in Requests : c.life < life => ~Matches(r, c)

(* A verify command whose reply took effect is spent: no duplicate of the  *)
(* reply can take effect again, in this life or after any crash.           *)
VerdictOnce ==
    \A r \in Requests, t \in verdicts : ~MatchesVerify(proto[r], t)

(* Once a request was retried or fenced, only a reply to its newest        *)
(* command can still take effect.                                          *)
OnlyNewestCommandMatches ==
    \A c, d \in commands, r \in Requests :
        Matches(r, c) /\ d.tag.req = r => d.tag.version <= c.tag.version

(* Verification seen from outside: attempts and verdicts refine the        *)
(* abstract FencedVerdicts, crashes and duplicated replies included.       *)
Verdicts ==
    INSTANCE FencedVerdicts WITH
        issued <- {c.tag : c \in {d \in commands : d.kind = "verify"}},
        judged <- verdicts

ImplementsFencedVerdicts == Verdicts!Spec

-----------------------------------------------------------------------------
(* The inductive invariant behind the four fencing properties.  It holds   *)
(* when commands leave only after publication.                             *)

\* Nothing that left is newer than what is durable, and the live object is
\* at least as new as its snapshot.
DurableCoversCommands ==
    /\ \A c \in commands : c.life <= life /\ c.tag.version <= durable[c.tag.req].version
    /\ \A r \in Requests : durable[r].version <= proto[r].version

\* An in-flight object is strictly newer than every command of an older life.
OlderLivesAreOlder ==
    \A c \in commands :
        c.life < life /\ proto[c.tag.req].state \in InFlightStates
            => c.tag.version < proto[c.tag.req].version

\* While a verdict is awaited its version has produced no recovery command.
RecoveryFollowsVerdict ==
    \A c \in commands :
        c.kind = "recovery" /\ proto[c.tag.req].state = "verifying"
            => c.tag.version < proto[c.tag.req].version

\* Every verdict answers a command and leaves its object out of "verifying".
VerdictsSpent ==
    /\ \A t \in verdicts : \E c \in commands : c.kind = "verify" /\ c.tag = t
    /\ \A t \in verdicts :
          proto[t.req].state = "verifying" => t.version < proto[t.req].version

IInv ==
    /\ TypeOK
    /\ CheckpointNeverRejected
    /\ CommandsNeverReissued
    /\ DurableCoversCommands
    /\ OlderLivesAreOlder
    /\ RecoveryFollowsVerdict
    /\ VerdictsSpent

=============================================================================
