---------------------------- MODULE EvidenceBundle ----------------------------
(***************************************************************************)
(* The evidence bundles of the CPU studies: a directory of data files and  *)
(* a manifest with their hashes.  The oracle campaign and the mechanism    *)
(* study write in place and hash what they read back; the completion study *)
(* replaces file by file and hashes what it holds in memory.  A study may  *)
(* be killed between any two writes and started again, in another mode or  *)
(* after an edit of the sources, in the same directory.                    *)
(***************************************************************************)
EXTENDS Naturals, Sequences, FiniteSets, SequencesExt, Functions

CONSTANTS
    Studies,      \* the studies that are run: "oracle", "mechanism", "completion"
    DataFiles,    \* the data files, as a sequence in the order they are written
    Modes,
    MaxEdits      \* bound on edits of the sources

\* Assumed of the constants.
BundleConstants ==
    /\ Studies \subseteq {"oracle", "mechanism", "completion"} /\ MaxEdits \in Nat
    /\ DataFiles \in Seq(STRING) \ {<<>>} /\ IsInjective(DataFiles)

VARIABLES
    study,
    source,       \* the version of the implementation files
    disk,         \* the data files: what run wrote them, or Torn
    manifest,     \* the manifest in the directory, as a set of at most one
    temporary,    \* files that a replacement has written and not yet renamed
    run           \* [step, mode, version, hashed, todo] of the process

vars == <<study, source, disk, manifest, temporary, run>>

Names == ToSet(DataFiles)
Written(mode, version) == [mode |-> mode, version |-> version]
Torn == Written("torn", 0)

Idle == [step |-> "idle", mode |-> "none", version |-> 0, hashed |-> 0, todo |-> <<>>]
InPlace == study # "completion"

----------------------------------------------------------------------------
(* Verification of the directory, as the study itself and --verify do it.  *)

\* Only the byte counts of the files are compared (BundlesWhole).
WrongMatches(record, content) == record.mode = content.mode

Matches(record, content) == record = content

\* The manifest is whole, the directory has the recorded files, and in the
\* two studies that write in place also the sources are those of now.
Verifies(m) ==
    /\ m.files # <<>> /\ DOMAIN m.files \subseteq DOMAIN disk
    /\ \A f \in DOMAIN m.files : Matches(m.files[f], disk[f])
    /\ InPlace => DOMAIN disk = Names /\ DOMAIN m.files = Names /\ temporary = {} /\ m.version = source

Verified == \E m \in manifest : Verifies(m)

----------------------------------------------------------------------------
(* One run of a study.                                                     *)

Init ==
    /\ study \in Studies
    /\ source = 0 /\ disk = <<>> /\ manifest = {} /\ temporary = {} /\ run = Idle

\* The implementation is loaded; the completion study hashes it here.
Start(mode) ==
    /\ run.step = "idle"
    /\ run' = [step |-> "data", mode |-> mode, version |-> source, hashed |-> source, todo |-> DataFiles]
    /\ UNCHANGED <<study, source, disk, manifest, temporary>>

File == Head(run.todo)
Put(content) == disk' = [f \in DOMAIN disk \cup {File} |-> IF f = File THEN content ELSE disk[f]]

\* A file that is written in place is first truncated, a replacement is
\* first written under a temporary name.
BeginFile ==
    /\ run.step = "data" /\ run.todo # <<>>
    /\ run' = [run EXCEPT !.step = "file"]
    /\ IF InPlace THEN Put(Torn) /\ UNCHANGED temporary
       ELSE temporary' = temporary \cup {File} /\ UNCHANGED disk
    /\ UNCHANGED <<study, source, manifest>>

WriteFile ==
    /\ run.step = "file"
    /\ Put(Written(run.mode, run.version))
    /\ temporary' = temporary \ {File}
    /\ run' = [run EXCEPT !.step = "data", !.todo = Tail(@)]
    /\ UNCHANGED <<study, source, manifest>>

\* In place, the manifest is truncated too; its hashes are of what was read
\* back, and of the sources as they are now.
BeginManifest ==
    /\ run.step = "data" /\ run.todo = <<>>
    /\ manifest' = IF InPlace THEN {} ELSE manifest
    /\ temporary' = IF InPlace THEN temporary ELSE temporary \cup {"manifest"}
    /\ run' = [run EXCEPT !.step = "manifest", !.hashed = IF InPlace THEN source ELSE @]
    /\ UNCHANGED <<study, source, disk>>

Recorded == IF InPlace THEN disk ELSE [f \in Names |-> Written(run.mode, run.version)]

WriteManifest ==
    /\ run.step = "manifest"
    /\ manifest' = {[mode |-> run.mode, version |-> run.hashed, files |-> Recorded]}
    /\ temporary' = temporary \ {"manifest"}
    /\ run' = [run EXCEPT !.step = "verify"]
    /\ UNCHANGED <<study, source, disk>>

\* The study verifies what it wrote; it returns or raises.
Return ==
    /\ run.step = "verify"
    /\ run' = Idle
    /\ UNCHANGED <<study, source, disk, manifest, temporary>>

Crash ==
    /\ run.step # "idle"
    /\ run' = Idle
    /\ UNCHANGED <<study, source, disk, manifest, temporary>>

EditSources ==
    /\ source < MaxEdits
    /\ source' = source + 1
    /\ UNCHANGED <<study, disk, manifest, temporary, run>>

Next ==
    \/ \E mode \in Modes : Start(mode)
    \/ BeginFile \/ WriteFile \/ BeginManifest \/ WriteManifest
    \/ Return \/ Crash \/ EditSources

Spec == Init /\ [][Next]_vars

----------------------------------------------------------------------------
(* Properties.                                                             *)

\* A directory that verifies holds one run: every file of it was written in
\* the mode of the manifest by the same sources, whatever earlier runs, in
\* other modes or killed half way, have left behind.  And a run that reaches
\* its own verification passes it, unless the sources changed under it.
BundlesWhole ==
    /\ \A m \in manifest : Verifies(m) =>
          \E v \in 0..source : \A f \in Names : disk[f] = Written(m.mode, v)
    /\ run.step = "verify" => Verified \/ (InPlace /\ run.hashed # source)

=============================================================================
