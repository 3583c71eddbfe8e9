--------------------------- MODULE ReferenceOracles ---------------------------
(***************************************************************************)
(* The exact oracles that the repository checks its own algorithms with:   *)
(* the semantics of speculative decoding over rational distributions, and  *)
(* the solver of dispatch schedules with its campaign.  They share no      *)
(* state with anything either, so they stand beside IndependentParts; they *)
(* are recursive, which is why they are not among its parts.               *)
(***************************************************************************)
EXTENDS IndependentParts, OracleCampaign

CONSTANTS Vocabulary, Pairs, Prompts, MaxNewTokens, SpeculationLength, DrawRange \* TokenSemantics

VARIABLE session

Semantics == INSTANCE TokenSemantics

ASSUME OraclesAssumption == Semantics!SemanticsConstants /\ UnitConstant /\ CampaignConstants

allVars == <<vars, session, case>>

----------------------------------------------------------------------------

PartsIdle ==
    LedgerIdle /\ PagesIdle /\ ControllerIdle /\ StoppingIdle /\ BundleIdle /\ HandoffIdle /\ ReplayIdle

\* One part runs, one session is decoded, or one case of the campaign is solved.
AllInit ==
    \/ Init /\ session = <<>> /\ case = <<>>
    \/ part = "semantics" /\ PartsIdle /\ Semantics!Init /\ case = <<>>
    \/ part = "campaign" /\ PartsIdle /\ session = <<>> /\ CaseInit

AllNext ==
    \/ Next /\ UNCHANGED <<session, case>>
    \/ part = "semantics" /\ Semantics!Next /\ UNCHANGED <<vars, case>>
    \/ part = "campaign" /\ CaseNext /\ UNCHANGED <<vars, session>>

AllSpec == AllInit /\ [][AllNext]_allVars

----------------------------------------------------------------------------
(* What the oracles promise, stated in their own modules.                  *)

\* Speculation samples the target's distribution from every committed prefix,
\* and a cached continuation is what the session would have drafted; every
\* certificate of the schedule oracle is optimal, what follows from a change of
\* a problem holds, and no policy leaves the action space or beats the optimum.
OraclesExact ==
    /\ part = "semantics" => Semantics!SpeculationExact /\ Semantics!ContinuationsFaithful
    /\ part = "campaign" => CertificatesExact /\ PoliciesInActionSpace

=============================================================================
