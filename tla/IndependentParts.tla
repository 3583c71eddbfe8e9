--------------------------- MODULE IndependentParts ---------------------------
(***************************************************************************)
(* The parts of the repository that share no state with the serving path:  *)
(* the campaign's spend ledger, its stopping rule, its evidence bundles    *)
(* and the tools that freeze its handoff and its public replay, and the    *)
(* page slots and the admission controller of the Rust crate.  A behaviour *)
(* is a behaviour of one part; the variables of the others stay idle.      *)
(***************************************************************************)
EXTENDS Integers, Sequences

CONSTANTS
    StageCount, Seconds, ReplayCounts,                                          \* SpendGate
    Capacity, MaxGeneration, Pool, Foreign, Branches, Epochs,              \* PageSlots
    Profile, MaxDelay, Guard, MaxUnits, MaxTime, Arrivals,                 \* AdmissionController
    Hypotheses, MinimumBlocks, MaximumBlocks, LookEvery, Bound,
    Worthwhile, TargetHalfWidth, Effects, Means, Radii,
    RunsPerBlock, ReplayCap,                                               \* SequentialGate
    Studies, DataFiles, Modes, MaxEdits,                                   \* EvidenceBundle
    Versions, MaxDisturbances, MaxCommits,                                 \* CampaignFreeze
    RawTraces, Second, WindowSizes                                         \* ReplayFreeze

VARIABLES
    part,
    budgets, records, document,
    slotAt, freeHead, issued, released, branch,
    clock, lane, queue, status, alarm, left, promised,
    effect, blocks, endpoints, family,
    study, source, disk, manifest, temporary, run,
    tree, commits, folder, litter, disturbances, task,
    contract, raw, trace, provenance, mixed, freezing

Ledger == INSTANCE SpendGate
Pages == INSTANCE PageSlots
Controller == INSTANCE AdmissionController
Stopping == INSTANCE SequentialGate
Bundle == INSTANCE EvidenceBundle
Handoff == INSTANCE CampaignFreeze
Replay == INSTANCE ReplayFreeze

ASSUME PartsAssumption ==
    /\ Ledger!GateConstants /\ Pages!SlotsConstants /\ Controller!ControllerConstants
    /\ Stopping!GateDeclaration /\ Bundle!BundleConstants
    /\ Handoff!FreezeConstants /\ Replay!ReplayConstants

ledgerVars == <<budgets, records, document>>
pagesVars == <<slotAt, freeHead, issued, released, branch>>
controllerVars == <<clock, lane, queue, status, alarm, left, promised>>
stoppingVars == <<effect, blocks, endpoints, family>>
bundleVars == <<study, source, disk, manifest, temporary, run>>
handoffVars == <<tree, commits, folder, litter, disturbances, task>>
replayVars == <<contract, raw, trace, provenance, mixed, freezing>>
vars == <<part, ledgerVars, pagesVars, controllerVars, stoppingVars, bundleVars,
          handoffVars, replayVars>>

----------------------------------------------------------------------------

LedgerIdle == budgets = <<>> /\ records = <<>> /\ document = <<>>
PagesIdle == slotAt = <<>> /\ freeHead = 0 /\ issued = {} /\ released = {} /\ branch = <<>>
ControllerIdle ==
    /\ clock = 0 /\ lane = <<>> /\ queue = <<>> /\ status = "off" /\ alarm = 0 /\ left = <<>> /\ promised = {}
StoppingIdle == effect = <<>> /\ blocks = 0 /\ endpoints = <<>> /\ family = "off"
BundleIdle ==
    study = "off" /\ source = 0 /\ disk = <<>> /\ manifest = {} /\ temporary = {} /\ run = <<>>
HandoffIdle ==
    tree = <<>> /\ commits = <<>> /\ folder = <<>> /\ litter = {} /\ disturbances = 0 /\ task = <<>>
ReplayIdle ==
    contract = <<>> /\ raw = <<>> /\ trace = <<>> /\ provenance = <<>> /\ mixed = FALSE /\ freezing = <<>>

\* Part p is the one that runs.
Init ==
    \E p \in {"ledger", "pages", "controller", "stopping", "bundle", "handoff", "replay"} :
        /\ part = p
        /\ IF p = "ledger" THEN Ledger!Init ELSE LedgerIdle
        /\ IF p = "pages" THEN Pages!Init ELSE PagesIdle
        /\ IF p = "controller" THEN Controller!Init ELSE ControllerIdle
        /\ IF p = "stopping" THEN Stopping!Init ELSE StoppingIdle
        /\ IF p = "bundle" THEN Bundle!Init ELSE BundleIdle
        /\ IF p = "handoff" THEN Handoff!Init ELSE HandoffIdle
        /\ IF p = "replay" THEN Replay!Init ELSE ReplayIdle

\* Nothing changes but the variables of part p.
Only(p) ==
    /\ part = p /\ UNCHANGED part
    /\ p # "ledger" => UNCHANGED ledgerVars
    /\ p # "pages" => UNCHANGED pagesVars
    /\ p # "controller" => UNCHANGED controllerVars
    /\ p # "stopping" => UNCHANGED stoppingVars
    /\ p # "bundle" => UNCHANGED bundleVars
    /\ p # "handoff" => UNCHANGED handoffVars
    /\ p # "replay" => UNCHANGED replayVars

Next ==
    \/ part = "ledger" /\ Ledger!Next /\ Only("ledger")
    \/ part = "pages" /\ Pages!Next /\ Only("pages")
    \/ part = "controller" /\ Controller!Next /\ Only("controller")
    \/ part = "stopping" /\ Stopping!Next /\ Only("stopping")
    \/ part = "bundle" /\ Bundle!Next /\ Only("bundle")
    \/ part = "handoff" /\ Handoff!Next /\ Only("handoff")
    \/ part = "replay" /\ Replay!Next /\ Only("replay")

Spec == Init /\ [][Next]_vars

----------------------------------------------------------------------------
(* What each part promises, stated in its own module.                      *)

\* Accelerator time is authorised and spent in the stage order only.
SpendAuthorized == part = "ledger" => Ledger!SpendAuthorized

\* No page leaks, and no copy of a released handle is live again.
PagesSound == part = "pages" => Pages!PagesSound

\* What the admission controller planned comes true.
DecisionsKept == part = "controller" => Controller!DecisionsKept

\* While the intervals cover, no stop of the campaign is a wrong one.
VerdictsTrue == part = "stopping" => Stopping!VerdictsTrue

\* A bundle that verifies is the output of one run of its study; a public
\* replay that verifies is the registered window of the registered trace, and
\* a freeze of it that fails leaves the files as it found them.
BundlesWhole ==
    /\ part = "bundle" => Bundle!BundlesWhole
    /\ part = "replay" => Replay!ReplayRegistered /\ Replay!FailureLeavesNothing

\* A handoff that verifies is the one of the commit it names, and a freeze
\* that nothing disturbs does not refuse its own files.
HandoffBound == part = "handoff" => Handoff!BoundToCommit /\ Handoff!FreezeRepairs

=============================================================================
