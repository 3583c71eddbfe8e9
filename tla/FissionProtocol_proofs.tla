----------------------- MODULE FissionProtocol_proofs -----------------------
(***************************************************************************)
(* Lemmas about the operators of FissionProtocol, which carry the proofs   *)
(* about ProtocolSession and about Coordinator: every transition keeps an  *)
(* object well typed and fit to be checkpointed.                           *)
(***************************************************************************)
EXTENDS FissionProtocol, TLAPS

USE DEF ReadyStates, InFlightStates, ProtocolStates

Sound(p, r) == p \in Protocol /\ ValidSnapshot(p, r)

LEMMA NewSound == \A r \in Requests : Sound(NewProtocol, r)
  BY DEF Sound, NewProtocol, Protocol, ValidSnapshot, TagAt

LEMMA StartSound ==
  ASSUME NEW r \in Requests, NEW p, Sound(p, r), NEW round \in Nat,
         CanStartVerification(p, round)
  PROVE  Sound(StartVerification(p, r, round), r)
  BY DEF Sound, StartVerification, CanStartVerification, Protocol, ValidSnapshot, TagAt, Tag

LEMMA RetrySound ==
  ASSUME NEW r \in Requests, NEW p, Sound(p, r), CanRetryVerification(p)
  PROVE  Sound(RetryVerification(p, r), r)
  BY DEF Sound, RetryVerification, CanRetryVerification, Protocol, ValidSnapshot, TagAt, Tag

LEMMA InvalidateSound ==
  ASSUME NEW r \in Requests, NEW p, Sound(p, r), CanInvalidateInflight(p)
  PROVE  Sound(InvalidateInflight(p, r), r)
  BY DEF Sound, InvalidateInflight, CanInvalidateInflight, Protocol, ValidSnapshot, TagAt, Tag

LEMMA FinishSound ==
  ASSUME NEW r \in Requests, NEW p, Sound(p, r), CanFinish(p)
  PROVE  Sound(FinishProtocol(p), r)
  BY DEF Sound, FinishProtocol, CanFinish, Protocol, ValidSnapshot, TagAt, Tag

LEMMA VerifySound ==
  ASSUME NEW r \in Requests, NEW p, Sound(p, r), NEW tag, MatchesVerify(p, tag),
         NEW hit \in BOOLEAN, NEW accepted \in Nat
  PROVE  Sound(HandleVerifyReply(p, hit, accepted), r)
  BY DEF Sound, HandleVerifyReply, MatchesVerify, Protocol, ValidSnapshot, TagAt, Tag

LEMMA RecoverySound ==
  ASSUME NEW r \in Requests, NEW p, Sound(p, r), NEW tag, MatchesRecovery(p, tag),
         NEW finished \in BOOLEAN
  PROVE  Sound(HandleRecoveryReply(p, finished), r)
  BY DEF Sound, HandleRecoveryReply, MatchesRecovery, Protocol, ValidSnapshot, TagAt, Tag

LEMMA ResumeSound ==
  ASSUME NEW r \in Requests, NEW p, Sound(p, r)
  PROVE  Sound(ResumeAfterCrash(p, r), r)
  BY InvalidateSound DEF ResumeAfterCrash, CanInvalidateInflight

\* The tag of an in-flight object names its request and its version.
LEMMA ActiveTag ==
  ASSUME NEW r \in Requests, NEW p, Sound(p, r), p.state \in InFlightStates
  PROVE  p.active \in Tag /\ p.active.req = r /\ p.active.version = p.version
  BY NoTagAssumption DEF Sound, Protocol, ValidSnapshot, TagAt, Tag

=============================================================================
