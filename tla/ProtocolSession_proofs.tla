------------------------ MODULE ProtocolSession_proofs ------------------------
(***************************************************************************)
(* Proofs about ProtocolSession, for every set of requests and every value *)
(* of the bounds.  Typing and the checkpoint property hold whenever        *)
(* snapshots are published; fencing needs PublishBeforeEmit.               *)
(***************************************************************************)
EXTENDS ProtocolSession, FissionProtocol_proofs

USE DEF ReadyStates, InFlightStates, ProtocolStates

-----------------------------------------------------------------------------
(* Typing and checkpoints. *)

Local == TypeOK /\ CheckpointNeverRejected

LEMMA LocalSound ==
  ASSUME Local, NEW r \in Requests
  PROVE  Sound(proto[r], r) /\ Sound(durable[r], r)
  BY DEF Local, TypeOK, CheckpointNeverRejected, Sound

\* A step that installs a sound object p for r and may emit its command.
LEMMA EmitLocal ==
  ASSUME Local, NEW r \in Requests, NEW p, Sound(p, r), p.state \in InFlightStates,
         NEW kind \in {"verify", "recovery"},
         proto' = [proto EXCEPT ![r] = p], Emit(r, p, kind),
         life' = life, verdicts' \subseteq Tag
  PROVE  Local'
  <1>1. [kind |-> kind, tag |-> p.active, life |-> life] \in Command
    BY ActiveTag DEF Command, Local, TypeOK
  <1>2. TypeOK'
    BY <1>1 DEF Emit, Local, TypeOK, Sound
  <1>3. CheckpointNeverRejected'
    BY DEF Emit, Local, TypeOK, CheckpointNeverRejected, Sound
  <1> QED BY <1>2, <1>3 DEF Local

LEMMA LocalInvariant == Local /\ [Next]_vars => Local'
  <1> SUFFICES ASSUME Local, [Next]_vars PROVE Local'
    OBVIOUS
  <1> USE SessionAssumption
  <1>1. ASSUME NEW r \in Requests, NEW round \in 0..MaxRound, Start(r, round)
        PROVE  Local'
    <2> DEFINE p == StartVerification(proto[r], r, round)
    <2>1. Sound(p, r) /\ p.state \in InFlightStates
      BY <1>1, LocalSound, StartSound DEF Start, StartVerification
    <2> QED BY <1>1, <2>1, EmitLocal DEF Start, Local, TypeOK
  <1>2. ASSUME NEW r \in Requests, Retry(r)
        PROVE  Local'
    <2> DEFINE p == RetryVerification(proto[r], r)
    <2>1. Sound(p, r) /\ p.state \in InFlightStates
      BY <1>2, LocalSound, RetrySound DEF Retry, RetryVerification, CanRetryVerification
    <2> QED BY <1>2, <2>1, EmitLocal DEF Retry, Local, TypeOK
  <1>3. ASSUME NEW r \in Requests, Invalidate(r)
        PROVE  Local'
    <2> DEFINE p == InvalidateInflight(proto[r], r)
    <2>1. Sound(p, r) /\ p.state \in InFlightStates
      BY <1>3, LocalSound, InvalidateSound DEF Invalidate, InvalidateInflight
    <2> QED BY <1>3, <2>1, EmitLocal DEF Invalidate, Local, TypeOK
  <1>4. ASSUME NEW r \in Requests, Finish(r)
        PROVE  Local'
    <2>1. Sound(FinishProtocol(proto[r]), r)
      BY <1>4, LocalSound, FinishSound DEF Finish
    <2> QED BY <1>4, <2>1 DEF Finish, Local, TypeOK, CheckpointNeverRejected, Sound
  <1>5. ASSUME NEW r \in Requests, NEW c \in commands, NEW hit \in BOOLEAN,
               NEW accepted \in 0..MaxAccepted, VerifyReply(r, c, hit, accepted)
        PROVE  Local'
    <2> DEFINE p == HandleVerifyReply(proto[r], hit, accepted)
    <2>1. Sound(p, r)
      BY <1>5, LocalSound, VerifySound DEF VerifyReply
    <2>2. c.tag \in Tag
      BY DEF Local, TypeOK, Command
    <2>3. CASE hit
      BY <1>5, <2>1, <2>2, <2>3
      DEF VerifyReply, Local, TypeOK, CheckpointNeverRejected, Sound
    <2>4. CASE ~hit
      <3>1. p.state \in InFlightStates
        BY <2>4 DEF HandleVerifyReply
      <3> QED BY <1>5, <2>1, <2>2, <2>4, <3>1, EmitLocal DEF VerifyReply, Local, TypeOK
    <2> QED BY <2>3, <2>4
  <1>6. ASSUME NEW r \in Requests, NEW c \in commands, NEW finished \in BOOLEAN,
               RecoveryReply(r, c, finished)
        PROVE  Local'
    <2>1. Sound(HandleRecoveryReply(proto[r], finished), r)
      BY <1>6, LocalSound, RecoverySound DEF RecoveryReply
    <2> QED BY <1>6, <2>1 DEF RecoveryReply, Local, TypeOK, CheckpointNeverRejected, Sound
  <1>7. ASSUME NEW r \in Requests, Publish(r)
        PROVE  Local'
    BY <1>7, LocalSound DEF Publish, Local, TypeOK, CheckpointNeverRejected, Sound
  <1>8. CASE Crash
    <2> DEFINE resumed == [r \in Requests |-> ResumeAfterCrash(durable[r], r)]
    <2>1. \A r \in Requests : Sound(resumed[r], r)
      BY LocalSound, ResumeSound
    <2>2. \A r \in Requests :
            durable[r].state \in InFlightStates => resumed[r].state \in InFlightStates
      BY DEF ResumeAfterCrash, InvalidateInflight
    <2>3. \A r \in Requests :
            durable[r].state \in InFlightStates =>
              [kind |-> "recovery", tag |-> resumed[r].active, life |-> life + 1] \in Command
      BY <2>1, <2>2, ActiveTag DEF Command, Local, TypeOK
    <2>4. commands' \subseteq Command
      BY <1>8, <2>3 DEF Crash, Local, TypeOK
    <2>5. proto' = resumed /\ (durable' = resumed \/ durable' = durable)
      BY <1>8 DEF Crash
    <2>6. TypeOK'
      BY <1>8, <2>1, <2>4, <2>5 DEF Crash, Local, TypeOK, Sound
    <2>7. CheckpointNeverRejected'
      BY <2>1, <2>5 DEF Local, CheckpointNeverRejected, Sound
    <2> QED BY <2>6, <2>7 DEF Local
  <1>9. CASE UNCHANGED vars
    BY <1>9 DEF vars, Local, TypeOK, CheckpointNeverRejected
  <1> QED
    BY <1>1, <1>2, <1>3, <1>4, <1>5, <1>6, <1>7, <1>8, <1>9 DEF Next

LEMMA LocalInit == Init => Local
  <1> SUFFICES ASSUME Init PROVE Local
    OBVIOUS
  <1> QED BY NewSound DEF Init, Local, TypeOK, CheckpointNeverRejected, Sound

\* The objects, the snapshots and everything in transit stay well typed.
THEOREM TypeCorrect == Spec => []TypeOK
  <1>1. Local => TypeOK
    BY DEF Local
  <1> QED BY LocalInit, LocalInvariant, <1>1, PTL DEF Spec

\* No sequence of calls, replies and crashes leads to an object that the
\* snapshot validation of protocol.py rejects, however snapshots are published.
THEOREM CheckpointsAccepted == Spec => []CheckpointNeverRejected
  <1>1. Local => CheckpointNeverRejected
    BY DEF Local
  <1> QED BY LocalInit, LocalInvariant, <1>1, PTL DEF Spec

-----------------------------------------------------------------------------
(* Fencing: commands leave only once the state that names them is durable. *)

Fence ==
    /\ CommandsNeverReissued
    /\ DurableCoversCommands
    /\ OlderLivesAreOlder
    /\ RecoveryFollowsVerdict
    /\ VerdictsSpent

LEMMA IInvSplit == IInv <=> Local /\ Fence
  BY DEF IInv, Local, Fence

\* Typing facts the steps below use.
LEMMA FenceTypes ==
  ASSUME Local
  PROVE  /\ \A c \in commands : /\ c.tag \in Tag /\ c.tag.req \in Requests
                                /\ c.tag.version \in Nat /\ c.life \in Nat
                                /\ c.kind \in {"verify", "recovery"}
                                /\ c = [kind |-> c.kind, tag |-> c.tag, life |-> c.life]
         /\ \A t \in verdicts : t.req \in Requests /\ t.version \in Nat
         /\ \A r \in Requests : proto[r].version \in Nat /\ durable[r].version \in Nat
         /\ life \in Nat
  BY DEF Local, TypeOK, Command, Tag, Protocol

\* A step to a fresh version whose command leaves published.
LEMMA EmitFresh ==
  ASSUME PublishBeforeEmit, Local, Fence, NEW r \in Requests, NEW p, Sound(p, r),
         p.version = proto[r].version + 1,
         NEW kind \in {"verify", "recovery"},
         p.state = IF kind = "verify" THEN "verifying" ELSE "recovering",
         proto' = [proto EXCEPT ![r] = p], Emit(r, p, kind),
         life' = life, verdicts' = verdicts
  PROVE  Fence'
  <1> DEFINE new == [kind |-> kind, tag |-> p.active, life |-> life]
  <1>1. p.active.req = r /\ p.active.version = p.version
    BY ActiveTag
  <1>2. commands' = commands \cup {new} /\ durable' = [durable EXCEPT ![r] = p]
    BY DEF Emit
  <1>3. \A c \in commands : c.tag.req = r => c.tag.version < p.version
    BY FenceTypes DEF Fence, DurableCoversCommands
  <1>4. proto'[r] = p /\ durable'[r] = p
    BY <1>2 DEF Local, TypeOK
  <1>5. \A s \in Requests : s # r => proto'[s] = proto[s] /\ durable'[s] = durable[s]
    BY <1>2 DEF Local, TypeOK
  <1>6. CommandsNeverReissued'
    BY <1>1, <1>2, <1>3, FenceTypes DEF Fence, CommandsNeverReissued
  <1>7. DurableCoversCommands'
    <2>1. \A c \in commands : c.life <= life
      BY DEF Fence, DurableCoversCommands
    <2>2. \A c \in commands : c.tag.version <= durable'[c.tag.req].version
      BY <1>3, <1>4, <1>5, FenceTypes DEF Fence, DurableCoversCommands
    <2>3. \A s \in Requests : durable'[s].version <= proto'[s].version
      BY <1>4, <1>5, FenceTypes DEF Fence, DurableCoversCommands
    <2>4. new.life <= life /\ new.tag.version <= durable'[new.tag.req].version
      BY <1>1, <1>4, FenceTypes
    <2> QED BY <1>2, <2>1, <2>2, <2>3, <2>4 DEF DurableCoversCommands
  <1>8. OlderLivesAreOlder'
    BY <1>2, <1>3, <1>4, <1>5, FenceTypes DEF Fence, OlderLivesAreOlder
  <1>9. RecoveryFollowsVerdict'
    BY <1>1, <1>2, <1>3, <1>4, <1>5, FenceTypes DEF Fence, RecoveryFollowsVerdict
  <1>10. VerdictsSpent'
    BY <1>2, <1>3, <1>4, <1>5, FenceTypes DEF Fence, VerdictsSpent
  <1> QED BY <1>6, <1>7, <1>8, <1>9, <1>10 DEF Fence

LEMMA FenceVerifyReply ==
  ASSUME PublishBeforeEmit, Local, Fence, NEW r \in Requests, NEW c \in commands,
         NEW hit \in BOOLEAN, NEW accepted \in 0..MaxAccepted,
         VerifyReply(r, c, hit, accepted)
  PROVE  Fence'
  <1> USE SessionAssumption
  <1> DEFINE p == HandleVerifyReply(proto[r], hit, accepted)
             new == [kind |-> "recovery", tag |-> p.active, life |-> life]
  <1>1. /\ c.kind = "verify" /\ proto[r].state = "verifying" /\ proto[r].active = c.tag
        /\ c.tag.req = r /\ c.tag.version = proto[r].version
    BY LocalSound, ActiveTag DEF VerifyReply, MatchesVerify
  <1>2. proto'[r] = p /\ p.version = proto[r].version /\ p.state # "verifying"
    BY DEF VerifyReply, HandleVerifyReply, Local, TypeOK
  <1>3. \A s \in Requests : s # r => proto'[s] = proto[s]
    BY DEF VerifyReply, Local, TypeOK
  <1>4. verdicts' = verdicts \cup {c.tag} /\ life' = life
    BY DEF VerifyReply
  <1>5. \A d \in commands : d.tag.req = r => d.tag.version <= proto[r].version
    BY FenceTypes DEF Fence, DurableCoversCommands
  <1>6. c.life = life
    BY <1>1, FenceTypes DEF Fence, OlderLivesAreOlder, DurableCoversCommands
  <1>7. \A d \in commands : d.tag.req = r /\ d.life < life => d.tag.version < proto[r].version
    BY <1>1, FenceTypes DEF Fence, OlderLivesAreOlder
  <1>8. /\ \A d \in commands : d \in commands'
        /\ \A d \in commands' : d \in commands \/ (~hit /\ d = new)
        /\ durable' = IF hit THEN durable ELSE [durable EXCEPT ![r] = p]
    BY DEF VerifyReply, Emit
  <1>9. ~hit => new.tag = c.tag
    BY <1>1 DEF HandleVerifyReply
  <1>10. \A d \in commands : d.kind = "recovery" /\ d.tag.req = r
            => d.tag.version < proto[r].version
    BY <1>1, FenceTypes DEF Fence, RecoveryFollowsVerdict
  <1>11. CommandsNeverReissued'
    BY <1>1, <1>8, <1>9, <1>10, FenceTypes DEF Fence, CommandsNeverReissued
  <1>12. \A s \in Requests : durable'[s].version = durable[s].version
                          \/ (s = r /\ durable'[s].version = proto[r].version)
    BY <1>2, <1>8 DEF Local, TypeOK
  <1>13. DurableCoversCommands'
    <2>1. \A s \in Requests : durable[s].version <= durable'[s].version
                           /\ durable'[s].version <= proto'[s].version
      BY <1>2, <1>3, <1>12, FenceTypes DEF Fence, DurableCoversCommands
    <2>2. \A d \in commands : d.life <= life /\ d.tag.version <= durable'[d.tag.req].version
      BY <1>12, <2>1, FenceTypes DEF Fence, DurableCoversCommands
    <2>3. ~hit => durable'[r] = p
      BY <1>8 DEF Local, TypeOK
    <2>4. ~hit => new.life <= life /\ new.tag.version <= durable'[new.tag.req].version
      BY <1>1, <1>2, <1>9, <2>3, FenceTypes
    <2> QED BY <1>4, <1>8, <2>1, <2>2, <2>4 DEF DurableCoversCommands
  <1>14. OlderLivesAreOlder'
    BY <1>1, <1>2, <1>3, <1>4, <1>7, <1>8, FenceTypes DEF Fence, OlderLivesAreOlder
  <1>15. RecoveryFollowsVerdict'
    BY <1>1, <1>2, <1>3, <1>8, <1>9, FenceTypes DEF Fence, RecoveryFollowsVerdict
  <1>16. VerdictsSpent'
    BY <1>1, <1>2, <1>3, <1>4, <1>8, FenceTypes DEF Fence, VerdictsSpent
  <1> QED BY <1>11, <1>13, <1>14, <1>15, <1>16 DEF Fence

LEMMA FenceCrash ==
  ASSUME PublishBeforeEmit, Local, Fence, Crash
  PROVE  Fence'
  <1> DEFINE resumed == [r \in Requests |-> ResumeAfterCrash(durable[r], r)]
             fenced == {r \in Requests : durable[r].state \in InFlightStates}
             new(r) == [kind |-> "recovery", tag |-> resumed[r].active, life |-> life + 1]
  <1>1. /\ proto' = resumed /\ durable' = resumed /\ life' = life + 1
        /\ verdicts' = verdicts /\ commands' = commands \cup {new(r) : r \in fenced}
    BY DEF Crash
  <1>2. \A r \in fenced : /\ r \in Requests
                          /\ resumed[r].state = "recovering"
                          /\ resumed[r].version = durable[r].version + 1
                          /\ resumed[r].active.req = r
                          /\ resumed[r].active.version = resumed[r].version
    BY DEF ResumeAfterCrash, InvalidateInflight, TagAt
  <1>3. \A r \in Requests \ fenced : resumed[r] = durable[r] /\ durable[r].state \notin InFlightStates
    BY DEF ResumeAfterCrash
  <1>4. \A r \in fenced : /\ new(r).tag = resumed[r].active
                          /\ new(r).life = life + 1 /\ new(r).kind = "recovery"
    OBVIOUS
  <1>5. life + 1 \in Nat
    BY FenceTypes
  <1>6. \A c \in {new(r) : r \in fenced} : \E r \in fenced : c = new(r)
    OBVIOUS
  <1> HIDE DEF resumed, fenced, new
  <1>7. \A c \in commands : /\ c.tag.version <= durable[c.tag.req].version
                            /\ c.life < life + 1
    BY FenceTypes DEF Fence, DurableCoversCommands
  <1>8. ASSUME NEW r \in Requests
        PROVE  resumed[r].version \in Nat /\ durable[r].version <= resumed[r].version
    <2>1. CASE r \in fenced
      BY <1>2, <2>1, FenceTypes
    <2> QED
      BY <1>3, <2>1, FenceTypes
  <1>9. CommandsNeverReissued'
    <2>1. ASSUME NEW c \in commands, NEW r \in fenced,
                 c.tag.req = new(r).tag.req, c.tag.version = new(r).tag.version
          PROVE  FALSE
      <3>1. c.tag.req = r /\ c.tag.version = durable[r].version + 1
        BY <1>2, <1>4, <2>1
      <3>2. c.tag.version <= durable[r].version /\ durable[r].version \in Nat
        BY <1>2, <1>7, <3>1, FenceTypes
      <3> QED BY <3>1, <3>2
    <2>2. \A r, s \in fenced : new(r).tag.req = new(s).tag.req => r = s
      BY <1>2, <1>4
    <2> QED BY <1>1, <1>6, <2>1, <2>2 DEF Fence, CommandsNeverReissued
  <1>10. DurableCoversCommands'
    <2>1. \A c \in commands : c.tag.version <= resumed[c.tag.req].version
      BY <1>7, <1>8, FenceTypes
    <2>2. \A r \in fenced : new(r).tag.version <= resumed[new(r).tag.req].version
      <3> SUFFICES ASSUME NEW r \in fenced
                   PROVE  new(r).tag.version <= resumed[new(r).tag.req].version
        OBVIOUS
      <3>1. new(r).tag.req = r /\ new(r).tag.version = resumed[r].version
        BY <1>2, <1>4
      <3> QED BY <1>2, <1>8, <3>1
    <2>3. \A c \in commands : c.life <= life + 1
      BY <1>7, FenceTypes
    <2>4. \A r \in fenced : new(r).life <= life + 1
      BY <1>4, <1>5
    <2> QED BY <1>1, <1>8, <1>4, <1>6, <2>1, <2>2, <2>3, <2>4 DEF DurableCoversCommands
  <1>11. OlderLivesAreOlder'
    <2>1. \A c \in commands : resumed[c.tag.req].state \in InFlightStates
            => c.tag.version < resumed[c.tag.req].version
      BY <1>2, <1>7, <1>8, <1>3, FenceTypes
    <2>2. \A r \in fenced : ~(new(r).life < life + 1)
      BY <1>4, <1>5
    <2> QED BY <1>1, <1>4, <1>6, <2>1, <2>2 DEF OlderLivesAreOlder
  <1>12. \A r \in Requests : resumed[r].state # "verifying"
    BY <1>2, <1>3
  <1>13. RecoveryFollowsVerdict'
    <2>1. \A r \in fenced : new(r).tag.req \in Requests
      BY <1>2, <1>4
    <2> QED BY <1>1, <1>12, <1>4, <1>6, <2>1, FenceTypes DEF RecoveryFollowsVerdict
  <1>14. VerdictsSpent'
    BY <1>1, <1>12, FenceTypes DEF Fence, VerdictsSpent
  <1> QED BY <1>9, <1>10, <1>11, <1>13, <1>14 DEF Fence

LEMMA FenceInvariant == PublishBeforeEmit /\ Local /\ Fence /\ [Next]_vars => Fence'
  <1> SUFFICES ASSUME PublishBeforeEmit, Local, Fence, [Next]_vars PROVE Fence'
    OBVIOUS
  <1> USE SessionAssumption
  <1>1. ASSUME NEW r \in Requests, NEW round \in 0..MaxRound, Start(r, round)
        PROVE  Fence'
    <2> DEFINE p == StartVerification(proto[r], r, round)
    <2>1. Sound(p, r) /\ p.state = "verifying" /\ p.version = proto[r].version + 1
      BY <1>1, LocalSound, StartSound DEF Start, StartVerification
    <2> QED BY <1>1, <2>1, EmitFresh DEF Start
  <1>2. ASSUME NEW r \in Requests, Retry(r)
        PROVE  Fence'
    <2> DEFINE p == RetryVerification(proto[r], r)
    <2>1. Sound(p, r) /\ p.state = "verifying" /\ p.version = proto[r].version + 1
      BY <1>2, LocalSound, RetrySound DEF Retry, RetryVerification, CanRetryVerification
    <2> QED BY <1>2, <2>1, EmitFresh DEF Retry
  <1>3. ASSUME NEW r \in Requests, Invalidate(r)
        PROVE  Fence'
    <2> DEFINE p == InvalidateInflight(proto[r], r)
    <2>1. Sound(p, r) /\ p.state = "recovering" /\ p.version = proto[r].version + 1
      BY <1>3, LocalSound, InvalidateSound DEF Invalidate, InvalidateInflight
    <2> QED BY <1>3, <2>1, EmitFresh DEF Invalidate
  <1>4. ASSUME NEW r \in Requests, NEW p, p.state \notin InFlightStates,
               p.version \in Nat, proto[r].version <= p.version,
               proto' = [proto EXCEPT ![r] = p],
               UNCHANGED <<durable, commands, life, verdicts>>
        PROVE  Fence'
    BY <1>4, FenceTypes DEF Local, TypeOK, Fence, CommandsNeverReissued,
       DurableCoversCommands, OlderLivesAreOlder, RecoveryFollowsVerdict, VerdictsSpent
  <1>5. ASSUME NEW r \in Requests, Finish(r)
        PROVE  Fence'
    <2> DEFINE p == FinishProtocol(proto[r])
    <2>1. /\ p.state \notin InFlightStates /\ p.version \in Nat /\ proto[r].version <= p.version
          /\ proto' = [proto EXCEPT ![r] = p] /\ UNCHANGED <<durable, commands, life, verdicts>>
      BY <1>5, FenceTypes DEF Finish, FinishProtocol
    <2> HIDE DEF p
    <2> QED BY <1>4, <2>1
  <1>6. ASSUME NEW r \in Requests, NEW c \in commands, NEW finished \in BOOLEAN,
               RecoveryReply(r, c, finished)
        PROVE  Fence'
    <2> DEFINE p == HandleRecoveryReply(proto[r], finished)
    <2>1. /\ p.state \notin InFlightStates /\ p.version \in Nat /\ proto[r].version <= p.version
          /\ proto' = [proto EXCEPT ![r] = p] /\ UNCHANGED <<durable, commands, life, verdicts>>
      BY <1>6, FenceTypes DEF RecoveryReply, HandleRecoveryReply
    <2> HIDE DEF p
    <2> QED BY <1>4, <2>1
  <1>7. ASSUME NEW r \in Requests, Publish(r)
        PROVE  Fence'
    <2>1. \A s \in Requests : /\ durable'[s].version <= proto[s].version
                              /\ durable[s].version <= durable'[s].version
                              /\ durable'[s].version \in Nat
      BY <1>7, FenceTypes DEF Publish, Local, TypeOK, Fence, DurableCoversCommands
    <2> QED BY <1>7, <2>1, FenceTypes DEF Publish, Fence, CommandsNeverReissued,
            DurableCoversCommands, OlderLivesAreOlder, RecoveryFollowsVerdict, VerdictsSpent
  <1>8. CASE UNCHANGED vars
    BY <1>8 DEF vars, Fence, CommandsNeverReissued,
       DurableCoversCommands, OlderLivesAreOlder, RecoveryFollowsVerdict, VerdictsSpent
  <1> QED
    BY <1>1, <1>2, <1>3, <1>5, <1>6, <1>7, <1>8, FenceVerifyReply, FenceCrash DEF Next

LEMMA FenceInit == Init => Fence
  BY DEF Init, NewProtocol, Fence, CommandsNeverReissued,
     DurableCoversCommands, OlderLivesAreOlder, RecoveryFollowsVerdict, VerdictsSpent

\* The inductive invariant holds when commands leave only after publication.
THEOREM FencingInvariant == ASSUME PublishBeforeEmit PROVE Spec => []IInv
  <1>1. Local /\ Fence /\ [Next]_vars => (Local /\ Fence)'
    BY LocalInvariant, FenceInvariant
  <1>2. Init => Local /\ Fence
    BY LocalInit, FenceInit
  <1>3. Local /\ Fence => IInv
    BY IInvSplit
  <1> QED BY <1>1, <1>2, <1>3, PTL DEF Spec

-----------------------------------------------------------------------------
(* What the inductive invariant gives a reader of the protocol. *)

\* No version is handed out twice to commands of one kind, in any life.
THEOREM UniqueCommands == ASSUME PublishBeforeEmit PROVE Spec => []CommandsNeverReissued
  <1>1. IInv => CommandsNeverReissued
    BY DEF IInv
  <1> QED BY <1>1, FencingInvariant, PTL

\* A command that can still be answered has the version of its object.
LEMMA MatchingVersion ==
  ASSUME Local, NEW r \in Requests, NEW c \in commands, Matches(r, c)
  PROVE  /\ proto[r].state \in InFlightStates
         /\ c.tag.req = r /\ c.tag.version = proto[r].version
  BY LocalSound, ActiveTag DEF Matches, MatchesVerify, MatchesRecovery

\* Replies to commands of a dead address space match nothing, for every number
\* of crashes, rounds and requests.
THEOREM LostReplies == ASSUME PublishBeforeEmit PROVE Spec => []LostRepliesFenced
  <1>1. Local /\ Fence => LostRepliesFenced
    BY MatchingVersion, FenceTypes DEF Fence, OlderLivesAreOlder, LostRepliesFenced
  <1> QED BY <1>1, IInvSplit, FencingInvariant, PTL

\* A verify reply that took effect can never take effect again.
THEOREM SpentVerdicts == ASSUME PublishBeforeEmit PROVE Spec => []VerdictOnce
  <1>1. Local /\ Fence => VerdictOnce
    <2> SUFFICES ASSUME Local, Fence, NEW r \in Requests, NEW t \in verdicts,
                        MatchesVerify(proto[r], t)
                 PROVE  FALSE
      BY DEF VerdictOnce
    <2>1. t.req = r /\ t.version = proto[r].version /\ proto[r].state = "verifying"
      BY LocalSound, ActiveTag DEF MatchesVerify
    <2> QED BY <2>1, FenceTypes DEF Fence, VerdictsSpent
  <1> QED BY <1>1, IInvSplit, FencingInvariant, PTL

\* Only a reply to the newest command of its request can still take effect.
THEOREM NewestCommand == ASSUME PublishBeforeEmit PROVE Spec => []OnlyNewestCommandMatches
  <1>1. Local /\ Fence => OnlyNewestCommandMatches
    <2> SUFFICES ASSUME Local, Fence, NEW c \in commands, NEW d \in commands,
                        NEW r \in Requests, Matches(r, c), d.tag.req = r
                 PROVE  d.tag.version <= c.tag.version
      BY DEF OnlyNewestCommandMatches
    <2>1. c.tag.version = proto[r].version
      BY MatchingVersion
    <2> QED BY <2>1, FenceTypes DEF Fence, DurableCoversCommands
  <1> QED BY <1>1, IInvSplit, FencingInvariant, PTL

-----------------------------------------------------------------------------
(* Refinement of FencedVerdicts. *)

IssuedTags == {c.tag : c \in {d \in commands : d.kind = "verify"}}

\* An attempt with a version above all that left is an abstract Issue.
LEMMA IssueStep ==
  ASSUME Local, Fence, NEW r \in Requests, NEW p, Sound(p, r), p.state = "verifying",
         p.version = proto[r].version + 1, Emit(r, p, "verify"), verdicts' = verdicts
  PROVE  Verdicts!Next
  <1> DEFINE new == [kind |-> "verify", tag |-> p.active, life |-> life]
  <1>1. p.active \in Tag /\ p.active.req = r /\ p.active.version = p.version
    BY ActiveTag DEF Sound
  <1>2. commands' = commands \cup {new}
    BY DEF Emit
  <1>3. IssuedTags' = IssuedTags \cup {p.active}
    <2>1. \A c \in commands' : c \in commands \/ c = new
      BY <1>2
    <2>2. new \in commands' /\ \A c \in commands : c \in commands'
      BY <1>2
    <2>3. new.kind = "verify" /\ new.tag = p.active
      OBVIOUS
    <2> HIDE DEF new
    <2> QED BY <2>1, <2>2, <2>3 DEF IssuedTags
  <1>4. \A u \in IssuedTags : u.req = r => u.version < p.active.version
    BY <1>1, FenceTypes DEF IssuedTags, Fence, DurableCoversCommands
  <1>5. p.active \notin IssuedTags
    BY <1>1, <1>4, FenceTypes
  <1>6. Verdicts!Issue(p.active)
    BY <1>1, <1>3, <1>4, <1>5
       DEF Verdicts!Issue, Verdicts!Attempt, Verdicts!Newer, Tag, IssuedTags
  <1> QED BY <1>3, <1>6 DEF Verdicts!Next, IssuedTags

\* A verify reply that takes effect is an abstract Judge.
LEMMA JudgeStep ==
  ASSUME Local, Fence, NEW r \in Requests, NEW c \in commands,
         NEW hit \in BOOLEAN, NEW accepted \in 0..MaxAccepted,
         VerifyReply(r, c, hit, accepted)
  PROVE  Verdicts!Next
  <1>1. /\ c.kind = "verify" /\ proto[r].state = "verifying"
        /\ c.tag.req = r /\ c.tag.version = proto[r].version
    BY LocalSound, ActiveTag DEF VerifyReply, MatchesVerify
  <1>2. c.tag \in IssuedTags /\ c.tag \notin verdicts
    BY <1>1, FenceTypes DEF IssuedTags, Fence, VerdictsSpent
  <1>3. \A u \in IssuedTags \ {c.tag} : u.req = r => u.version < c.tag.version
    <2> SUFFICES ASSUME NEW d \in commands, d.kind = "verify", d.tag # c.tag, d.tag.req = r
                 PROVE  d.tag.version < c.tag.version
      BY DEF IssuedTags
    <2>1. d.tag.version # c.tag.version
      BY <1>1 DEF Fence, CommandsNeverReissued
    <2> QED BY <1>1, <2>1, FenceTypes DEF Fence, DurableCoversCommands
  <1>4. IssuedTags' = IssuedTags
    BY DEF VerifyReply, Emit, IssuedTags
  <1>5. Verdicts!Judge(c.tag)
    BY <1>1, <1>2, <1>3, <1>4 DEF Verdicts!Judge, Verdicts!Newer, VerifyReply, IssuedTags
  <1> QED BY <1>2, <1>5 DEF Verdicts!Next, IssuedTags

\* Every other step leaves the attempts and the verdicts alone.
LEMMA VerdictsStutter ==
  ASSUME PublishBeforeEmit, Local, Fence,
         \/ \E r \in Requests : Invalidate(r) \/ Finish(r) \/ Publish(r)
         \/ \E r \in Requests, c \in commands, finished \in BOOLEAN :
               RecoveryReply(r, c, finished)
         \/ Crash
         \/ UNCHANGED vars
  PROVE  IssuedTags' = IssuedTags /\ verdicts' = verdicts
  <1>1. verdicts' = verdicts
    BY DEF Invalidate, Finish, Publish, RecoveryReply, Crash, vars
  <1>2. /\ \A c \in commands : c \in commands'
        /\ \A c \in commands' : c \in commands \/ c.kind = "recovery"
    BY DEF Invalidate, Finish, Publish, RecoveryReply, Crash, vars, Emit
  <1> QED BY <1>1, <1>2 DEF IssuedTags

LEMMA VerdictsStep ==
  ASSUME PublishBeforeEmit, Local, Fence, [Next]_vars
  PROVE  [Verdicts!Next]_(Verdicts!vars)
  <1> USE SessionAssumption
  <1>1. ASSUME NEW r \in Requests, NEW round \in 0..MaxRound, Start(r, round)
        PROVE  Verdicts!Next
    <2> DEFINE p == StartVerification(proto[r], r, round)
    <2>1. Sound(p, r) /\ p.state = "verifying" /\ p.version = proto[r].version + 1
      BY <1>1, LocalSound, StartSound DEF Start, StartVerification
    <2> QED BY <1>1, <2>1, IssueStep DEF Start
  <1>2. ASSUME NEW r \in Requests, Retry(r)
        PROVE  Verdicts!Next
    <2> DEFINE p == RetryVerification(proto[r], r)
    <2>1. Sound(p, r) /\ p.state = "verifying" /\ p.version = proto[r].version + 1
      BY <1>2, LocalSound, RetrySound DEF Retry, RetryVerification, CanRetryVerification
    <2> QED BY <1>2, <2>1, IssueStep DEF Retry
  <1>3. ASSUME IssuedTags' = IssuedTags /\ verdicts' = verdicts
        PROVE  UNCHANGED Verdicts!vars
    BY <1>3 DEF Verdicts!vars, IssuedTags
  <1> QED
    BY <1>1, <1>2, <1>3, JudgeStep, VerdictsStutter DEF Next

\* With publication before emission the protocol objects, crashes and duplicated
\* replies included, implement "fresh attempts, the newest judged at most once".
THEOREM Refinement == ASSUME PublishBeforeEmit PROVE Spec => ImplementsFencedVerdicts
  <1>1. Init => Verdicts!Init
    BY DEF Init, Verdicts!Init
  <1>2. Local /\ Fence /\ [Next]_vars => [Verdicts!Next]_(Verdicts!vars)
    BY VerdictsStep
  <1>3. Spec => [](Local /\ Fence)
    BY FencingInvariant, IInvSplit, PTL
  <1> QED BY <1>1, <1>2, <1>3, PTL DEF Spec, ImplementsFencedVerdicts, Verdicts!Spec

=============================================================================
