----------------------------- MODULE CampaignFreeze -----------------------------
(***************************************************************************)
(* tools/freeze_gpu_campaign.py: the handoff of the accelerator campaign.  *)
(* A freeze checks the working tree against a commit, reads its inputs one *)
(* by one, replaces the seven documents one by one and verifies them; a    *)
(* verification derives every document again and checks the commit last.   *)
(* Inputs may be edited, and commits and merges made, between any two of   *)
(* those steps, and the tool may be killed there.                          *)
(***************************************************************************)
EXTENDS Naturals, Sequences, FiniteSets, SequencesExt

CONSTANTS
    Versions,        \* contents of an input
    MaxDisturbances, \* bound on edits, merges and clearances
    MaxCommits       \* bound on commits

\* Assumed of the constants.
FreezeConstants == 0 \in Versions /\ Versions \subseteq Nat /\ MaxDisturbances \in Nat /\ MaxCommits \in Nat

VARIABLES
    tree,         \* the working tree: a version of each input
    commits,      \* the committed trees; the last one is HEAD
    folder,       \* the output directory: its documents by file name
    litter,       \* temporary files left in the output directory
    disturbances,
    task          \* the freeze or the verification

vars == <<tree, commits, folder, litter, disturbances, task>>

----------------------------------------------------------------------------
(* The commands as sequences of steps [op, on], an operation and the file  *)
(* it is on; the actions below say what each operation does.               *)

\* The files the tool reads: the protocol, the anchor sources (generators and
\* the replay's trace) and the evidence, the replay's manifest apart.
Inputs == <<"protocol", "generators", "trace", "manifest", "evidence">>

Anchors == <<"v1", "v2", "v3">>
Derived == Anchors \o <<"index", "plan", "ledger">>
OutputFiles == Derived \o <<"bundle">>

Do(op, names) == [i \in DOMAIN names |-> [op |-> op, on |-> names[i]]]

\* The trace is read again, to be compared with its manifest.
AnchorReads == Do("read", <<"generators", "trace", "manifest">>) \o Do("match", <<"trace">>)
IndexReads == Do("read", <<"protocol", "manifest", "evidence">>)
PlanReads == Do("read", <<"protocol">>)

\* A file is written under a temporary name and renamed.
Replace(names) ==
    [i \in 1..(2 * Len(names)) |->
        [op |-> IF i % 2 = 1 THEN "stage" ELSE "rename", on |-> names[(i + 1) \div 2]]]

ValidateCommit == Do("committed", Inputs)

\* A document is loaded before the inputs it is derived from again.
Rederive(names, reads) == Do("load", names) \o reads \o Do("derive", names)

VerifyScript ==
    Do("inventory", <<"bundle">>) \o Rederive(Anchors, AnchorReads) \o Rederive(<<"index">>, IndexReads)
        \o Rederive(<<"plan">>, PlanReads) \o Rederive(<<"ledger">>, <<>>) \o ValidateCommit

FreezeScript ==
    Do("clean", <<"tree">>) \o ValidateCommit \o Do("closed", <<"folder">>)
        \o AnchorReads \o Replace(Anchors) \o IndexReads \o Replace(<<"index">>)
        \o PlanReads \o Replace(<<"plan", "ledger", "bundle">>) \o VerifyScript

----------------------------------------------------------------------------
(* The documents.  A hash is the content it is of.                         *)

\* The three workload templates; the third names the public replay.
Anchor(a, saw) ==
    [anchor |-> a, generators |-> saw["generators"], trace |-> saw["trace"],
     replay |-> IF a = "v3" THEN <<saw["manifest"]>> ELSE <<>>]

EvidenceIndex(commit, saw, docs) ==
    [commit |-> commit, protocol |-> saw["protocol"], anchors |-> [a \in ToSet(Anchors) |-> docs[a]],
     artifacts |-> <<saw["manifest"], saw["evidence"]>>]

CampaignPlan(commit, saw, docs) ==
    [commit |-> commit, protocol |-> saw["protocol"], evidence |-> docs["index"],
     traces |-> [a \in ToSet(Anchors) |-> docs[a]]]

\* One passing record of the CPU release; no budget, so no GPU time.
LedgerF0(docs) ==
    [plan |-> docs["plan"],
     records |-> <<[verdict |-> "pass", seconds |-> 0, replays |-> 0, evidence |-> docs["index"]]>>]

Document(f, commit, saw, docs) ==
    CASE f \in ToSet(Anchors) -> Anchor(f, saw)
      [] f = "index" -> EvidenceIndex(commit, saw, docs)
      [] f = "plan" -> CampaignPlan(commit, saw, docs)
      [] f = "ledger" -> LedgerF0(docs)

\* The inventory hashes the files it finds in the directory.
BundleManifest(commit, files) == [commit |-> commit, files |-> [f \in ToSet(Derived) |-> files[f]]]

----------------------------------------------------------------------------
(* The freeze or verification that runs.                                   *)

Script(job) == IF job = "freeze" THEN FreezeScript ELSE VerifyScript

Idle == [job |-> "none", at |-> 0, commit |-> 0, saw |-> <<>>, docs |-> <<>>, disturbed |-> "no", result |-> "none"]

Running == task.job # "none" /\ task.result = "none"
Step == Script(task.job)[task.at]
Verifying == task.at > Len(Script(task.job)) - Len(VerifyScript)

\* The next step, or the end.
Advance(t) ==
    task' = IF t.at = Len(Script(t.job)) THEN [t EXCEPT !.result = "verified", !.saw = <<>>, !.docs = <<>>]
            ELSE [t EXCEPT !.at = @ + 1]

Refuse == task' = [task EXCEPT !.result = "refused", !.saw = <<>>, !.docs = <<>>]
Require(condition, t) == IF condition THEN Advance(t) ELSE Refuse

Extended(f, x, v) == [y \in DOMAIN f \cup {x} |-> IF y = x THEN v ELSE f[y]]
At(op) == Running /\ Step.op = op

----------------------------------------------------------------------------

Init ==
    /\ tree = [i \in ToSet(Inputs) |-> 0]
    /\ commits = <<tree>>
    /\ folder = <<>> /\ litter = {} /\ disturbances = 0 /\ task = Idle

\* freeze --code-commit names any commit, a verification takes the bundle's.
Start(job, commit) ==
    /\ ~Running
    /\ task' = [Idle EXCEPT !.job = job, !.at = 1, !.commit = IF job = "freeze" THEN commit ELSE 0]
    /\ UNCHANGED <<tree, commits, folder, litter, disturbances>>

\* git status: nothing outside the output directory differs from HEAD.
CheckClean ==
    /\ At("clean")
    /\ Require(tree = Last(commits), task)
    /\ UNCHANGED <<tree, commits, folder, litter, disturbances>>

CheckCommitted ==
    /\ At("committed")
    /\ Require(tree[Step.on] = commits[task.commit][Step.on], task)
    /\ UNCHANGED <<tree, commits, folder, litter, disturbances>>

\* Temporary files in the directory are not counted (HandoffBound).
WrongClosed == DOMAIN folder = ToSet(OutputFiles)

Closed == DOMAIN folder = ToSet(OutputFiles) /\ litter = {}

\* An empty directory, or a whole bundle, valid or not.
CheckFolder ==
    /\ At("closed")
    /\ Require(Closed \/ (folder = <<>> /\ litter = {}), task)
    /\ UNCHANGED <<tree, commits, folder, litter, disturbances>>

ReadInput ==
    /\ At("read")
    /\ Advance([task EXCEPT !.saw = Extended(@, Step.on, tree[Step.on])])
    /\ UNCHANGED <<tree, commits, folder, litter, disturbances>>

\* The replay's trace is the one its manifest is of.
MatchReplay ==
    /\ At("match")
    /\ Require(tree["trace"] = task.saw["manifest"], task)
    /\ UNCHANGED <<tree, commits, folder, litter, disturbances>>

Stage ==
    /\ At("stage")
    /\ litter' = litter \cup {Step.on}
    /\ Advance([task EXCEPT !.docs = Extended(@, Step.on,
           IF Step.on = "bundle" THEN BundleManifest(task.commit, folder)
           ELSE Document(Step.on, task.commit, task.saw, task.docs))])
    /\ UNCHANGED <<tree, commits, folder, disturbances>>

Rename ==
    /\ At("rename")
    /\ folder' = Extended(folder, Step.on, task.docs[Step.on])
    /\ litter' = litter \ {Step.on}
    /\ Advance(task)
    /\ UNCHANGED <<tree, commits, disturbances>>

\* The directory has the seven files and the hashes are those of its inventory.
CheckInventory ==
    /\ At("inventory")
    /\ Require(/\ Closed
               /\ \A f \in ToSet(Derived) : folder["bundle"].files[f] = folder[f],
               [task EXCEPT !.commit = IF Closed THEN folder["bundle"].commit ELSE @,
                            !.saw = <<>>, !.docs = <<>>])
    /\ UNCHANGED <<tree, commits, folder, litter, disturbances>>

LoadDocument ==
    /\ At("load")
    /\ Advance([task EXCEPT !.docs = Extended(@, Step.on, folder[Step.on])])
    /\ UNCHANGED <<tree, commits, folder, litter, disturbances>>

\* A document must be the one that the inputs give now.
Reproduces(f) == task.docs[f] = Document(f, task.commit, task.saw, task.docs)

Derive ==
    /\ At("derive")
    /\ Require(Reproduces(Step.on), task)
    /\ UNCHANGED <<tree, commits, folder, litter, disturbances>>

----------------------------------------------------------------------------
(* The surroundings.  What a finished task has said is of the time when it *)
(* finished, and forgotten once something changes.                         *)

Disturb ==
    /\ disturbances < MaxDisturbances
    /\ disturbances' = disturbances + 1
    /\ task' = IF Running THEN [task EXCEPT !.disturbed = IF Verifying THEN "during" ELSE "before"] ELSE Idle

\* Some input is edited, or an edit taken back.
Edit(i, v) ==
    /\ v # tree[i]
    /\ tree' = [tree EXCEPT ![i] = v]
    /\ Disturb
    /\ UNCHANGED <<commits, folder, litter>>

Commit ==
    /\ Len(commits) < MaxCommits /\ tree # Last(commits)
    /\ commits' = Append(commits, tree)
    /\ task' = IF Running THEN task ELSE Idle
    /\ UNCHANGED <<tree, folder, litter, disturbances>>

\* The documents of a bundle of commit c.
BundleOf(c) ==
    LET saw == commits[c]
        anchors == [a \in ToSet(Anchors) |-> Anchor(a, saw)]
        indexed == Extended(anchors, "index", EvidenceIndex(c, saw, anchors))
        planned == Extended(indexed, "plan", CampaignPlan(c, saw, indexed))
        derived == Extended(planned, "ledger", LedgerF0(planned))
    IN  Extended(derived, "bundle", BundleManifest(c, derived))

\* A merge takes one file of the bundle that belongs to another commit.
Merge(f, c) ==
    /\ Disturb
    /\ f \in DOMAIN folder
    /\ folder' = [folder EXCEPT ![f] = BundleOf(c)[f]]
    /\ folder' # folder
    /\ UNCHANGED <<tree, commits, litter>>

Kill ==
    /\ Running
    /\ task' = Idle
    /\ UNCHANGED <<tree, commits, folder, litter, disturbances>>

\* The operator empties the output directory.
Clear ==
    /\ ~Running /\ (folder # <<>> \/ litter # {})
    /\ folder' = <<>> /\ litter' = {} /\ task' = Idle
    /\ UNCHANGED <<tree, commits, disturbances>>

Next ==
    \/ \E job \in {"freeze", "verify"}, c \in DOMAIN commits : Start(job, c)
    \/ CheckClean \/ CheckCommitted \/ CheckFolder \/ ReadInput \/ MatchReplay
    \/ Stage \/ Rename \/ CheckInventory \/ LoadDocument \/ Derive
    \/ \E i \in ToSet(Inputs), v \in Versions : Edit(i, v)
    \/ \E f \in ToSet(OutputFiles), c \in DOMAIN commits : Merge(f, c)
    \/ Commit \/ Kill \/ Clear

Spec == Init /\ [][Next]_vars

----------------------------------------------------------------------------
(* Properties.                                                             *)

\* A bundle that a verification accepts is, in each of its documents, the one
\* of the commit it names: whatever edits, commits, merges and kills came
\* before, unless something changed while the verification itself ran.
BoundToCommit ==
    task.result = "verified" /\ task.disturbed # "during" => folder = BundleOf(task.commit) /\ litter = {}

\* Left alone, a freeze of the clean tree of a commit succeeds, also over a
\* bundle of another commit or a mixture that an earlier kill has left; only
\* a directory that is neither empty nor closed makes it refuse.
FreezeRepairs ==
    task.job = "freeze" /\ task.result = "refused" /\ task.disturbed = "no" =>
        \/ tree # Last(commits) \/ tree # commits[task.commit]
        \/ tree["trace"] # tree["manifest"]
        \/ ~Closed /\ ~(folder = <<>> /\ litter = {})

=============================================================================
