--------------------------- MODULE CaseWorkspace ----------------------------
(***************************************************************************)
(* tools/workspace.py and tools/assets.py: the case directory and who owns *)
(* its files, the transaction that makes a bundle of texts visible with    *)
(* its preflight and its rollback, single edits, imports of the user's     *)
(* files, and the archive that a confirmed revision makes of the outputs   *)
(* before its first edit.                                                  *)
(*                                                                         *)
(* The workspace is an object: a caller whose call raised may call again   *)
(* (post-processing does).  The texts that validate_candidate_text refuses *)
(* for their content are not offered; a content is its size.               *)
(***************************************************************************)
EXTENDS Integers, FiniteSets, FiniteSetsExt, Functions

CONSTANTS
    Files,
    MaxContent,
    MaxTotal,
    Outputs,       \* time directories, postProcessing, logs
    MaxRevisions,  \* bound: revisions of a run
    NoRevision     \* pending_revision_archive_path is None

ASSUME WorkspaceAssumption ==
    /\ MaxContent \in Nat \ {0}
    /\ MaxTotal \in Nat
    /\ MaxRevisions \in Nat
    /\ NoRevision \notin Nat

VARIABLES
    disk,         \* the case directory
    authored,     \* _authored_paths
    assets,       \* _asset_paths
    registry,     \* asset-registry.json: the bytes of each recorded asset
    at,           \* where the current call is: idle, writing, restoring, ...
    tx,           \* the transaction in progress
    torn,         \* history: a transaction stopped half way
    phase,        \* the caller: preparing, review, ready, revising, failed
    history,      \* len(state.revision_history)
    pending,      \* pending_revision_archive_path
    archives,     \* the directories of revision-history
    place,        \* where each output is
    unrecorded    \* history: a revised case was sealed without a RevisionRecord

files == <<disk, authored, assets, registry>>
revision == <<phase, history, pending, archives, place, unrecorded>>
vars == <<files, at, tx, torn, revision>>

Contents == 0..MaxContent
Existing == {f \in Files : disk[f] # 0}
Total(owned, d) == MapThenSumSet(LAMBDA f : d[f], owned)

Idle == at = "idle"
NoTransaction == [changes |-> <<>>, drops |-> {}, before |-> <<>>, owned |-> {}, todo |-> {}]
Touched(t) == DOMAIN t.changes \cup t.drops

Changes == UNION {[s -> 1..MaxContent] : s \in SUBSET Files}

PreflightWithoutOwners(changes, drops) == drops \subseteq authored \cap Existing

\* validate_candidate_bundle and the checks of the drops.
Preflight(changes, drops) ==
    /\ DOMAIN changes \cap assets = {}
    /\ drops \subseteq (authored \cap Existing) \ assets
    /\ LET kept == (authored \cap Existing) \ (DOMAIN changes \cup drops)
       IN  Total(kept, disk) + Total(DOMAIN changes, changes) <= MaxTotal

CommitAnyTime == Idle /\ phase \in {"preparing", "revising"}

\* The delta of a revision is committed after its archive only.
MayCommit ==
    /\ Idle
    /\ (phase = "preparing") \/ (phase = "revising" /\ pending # NoRevision)

Begin(changes, drops) ==
    /\ MayCommit
    /\ Preflight(changes, drops)
    /\ at' = "writing"
    /\ tx' = [changes |-> changes, drops |-> drops, before |-> disk, owned |-> authored,
              todo |-> DOMAIN changes \cup drops]
    /\ UNCHANGED <<files, torn, revision>>

WriteOne(f) ==
    /\ at = "writing"
    /\ f \in tx.todo \cap DOMAIN tx.changes
    /\ disk' = [disk EXCEPT ![f] = tx.changes[f]]
    /\ authored' = authored \cup {f}
    /\ tx' = [tx EXCEPT !.todo = @ \ {f}]
    /\ UNCHANGED <<assets, registry, at, torn, revision>>

DropOne(f) ==
    /\ at = "writing"
    /\ tx.todo \cap DOMAIN tx.changes = {}
    /\ f \in tx.todo
    /\ disk' = [disk EXCEPT ![f] = 0]
    /\ authored' = authored \ {f}
    /\ tx' = [tx EXCEPT !.todo = @ \ {f}]
    /\ UNCHANGED <<assets, registry, at, torn, revision>>

WithinLimit == Total(authored \cap Existing, disk) <= MaxTotal

Committed ==
    /\ at = "writing" /\ tx.todo = {}
    /\ WithinLimit
    /\ at' = "idle"
    /\ tx' = NoTransaction
    /\ UNCHANGED <<files, torn, revision>>

\* A write, an unlink or the size check raises: the authored set is restored at
\* once, the files one by one.
OwnedAgain(t) == t.owned

CommitRaises ==
    /\ at = "writing"
    /\ at' = "restoring"
    /\ authored' = OwnedAgain(tx)
    /\ tx' = [tx EXCEPT !.todo = Touched(tx)]
    /\ UNCHANGED <<disk, assets, registry, torn, revision>>

SnapshotUnlinks(t, f) == IF f \in DOMAIN t.changes THEN 0 ELSE t.before[f]

Snapshot(t, f) == t.before[f]

RestoreOne(f) ==
    /\ at = "restoring"
    /\ f \in tx.todo
    /\ disk' = [disk EXCEPT ![f] = Snapshot(tx, f)]
    /\ tx' = [tx EXCEPT !.todo = @ \ {f}]
    /\ UNCHANGED <<authored, assets, registry, at, torn, revision>>

\* The exception goes on: a preparation ends in FAILED, and so does a revision
\* whose archive exists.
Restored ==
    /\ at = "restoring" /\ tx.todo = {}
    /\ at' = "idle"
    /\ tx' = NoTransaction
    /\ phase' \in {phase, "failed"}
    /\ UNCHANGED <<files, torn, history, pending, archives, place, unrecorded>>

\* The restore of a file raises, or a KeyboardInterrupt passes the handler.
Torn ==
    /\ at \in {"writing", "restoring"}
    /\ at' = "idle"
    /\ tx' = NoTransaction
    /\ torn' = TRUE
    /\ UNCHANGED <<files, revision>>

\* write_text and patch_text_once: the file is on disk before the size of the
\* whole case is looked at, so that a call that raises has written.
WriteText(f, c) ==
    /\ MayCommit
    /\ f \notin assets
    /\ disk' = [disk EXCEPT ![f] = c]
    /\ authored' = authored \cup {f}
    /\ UNCHANGED <<assets, registry, at, tx, torn, revision>>

Delete(f) ==
    /\ MayCommit
    /\ f \in Existing \ assets
    /\ disk' = [disk EXCEPT ![f] = 0]
    /\ authored' = authored \ {f}
    /\ UNCHANGED <<assets, registry, at, tx, torn, revision>>

\* AssetRegistry.import_file, at the start of a session.
Importable(f) == Idle /\ phase = "preparing" /\ authored = {} /\ ~torn /\ f \notin Existing

ImportFile(f, c) ==
    /\ Importable(f)
    /\ disk' = [disk EXCEPT ![f] = c]
    /\ assets' = assets \cup {f}
    /\ registry' = [registry EXCEPT ![f] = c]
    /\ UNCHANGED <<authored, at, tx, torn, revision>>

\* The session ends between the replacement of the target and the record: the
\* next one finds a file that nobody owns, and imports it no more.
ImportUnrecorded(f, c) ==
    /\ Importable(f)
    /\ disk' = [disk EXCEPT ![f] = c]
    /\ UNCHANGED <<authored, assets, registry, at, tx, torn, revision>>

\* The case is solved and reviewed: its outputs are in the case directory.
Solved ==
    /\ Idle /\ phase = "preparing" /\ Existing # {}
    /\ phase' = "ready"
    /\ UNCHANGED <<files, at, tx, torn, history, pending, archives, place, unrecorded>>

\* /confirm of a revision proposal, the first time or again.
ConfirmRevision ==
    /\ Idle /\ phase = "ready" /\ history < MaxRevisions
    /\ phase' = "revising"
    /\ UNCHANGED <<files, at, tx, torn, history, pending, archives, place, unrecorded>>

RevisionId == history + 1

\* archive_revision_outputs: the directory, then a copy of the inputs, then one
\* output after the other.
ArchiveStart ==
    /\ Idle /\ phase = "revising" /\ pending = NoRevision
    /\ RevisionId \notin archives
    /\ archives' = archives \cup {RevisionId}
    /\ at' = "archiving"
    /\ UNCHANGED <<files, tx, torn, phase, history, pending, place, unrecorded>>

Unmoved == {o \in Outputs : place[o] = "case"}

Move(o) ==
    /\ at = "archiving"
    /\ o \in Unmoved
    /\ place' = [place EXCEPT ![o] = "archive"]
    /\ UNCHANGED <<files, at, tx, torn, phase, history, pending, archives, unrecorded>>

Archived ==
    /\ at = "archiving" /\ Unmoved = {}
    /\ at' = "idle"
    /\ pending' = RevisionId
    /\ UNCHANGED <<files, tx, torn, phase, history, archives, place, unrecorded>>

\* A copy or a move raises, or the directory exists: no archive path has been
\* recorded, so the proposal goes back to where it was.
ArchiveRaises ==
    /\ \/ at = "archiving"
       \/ (Idle /\ phase = "revising" /\ pending = NoRevision /\ RevisionId \in archives)
    /\ at' = "idle"
    /\ phase' = "ready"
    /\ UNCHANGED <<files, tx, torn, history, pending, archives, place, unrecorded>>

\* The revised case is sealed, solved and reviewed.  A revision whose members
\* have cleared the seal leaves no record, and its archive path stays set.
RevisionSolved ==
    /\ Idle /\ phase = "revising" /\ pending # NoRevision /\ Existing # {}
    /\ phase' = "ready"
    /\ place' = [o \in Outputs |-> "case"]
    /\ \/ /\ history' = history + 1
          /\ pending' = NoRevision
          /\ UNCHANGED unrecorded
       \/ /\ unrecorded' = TRUE
          /\ UNCHANGED <<history, pending>>
    /\ UNCHANGED <<files, at, tx, torn, archives>>

Init ==
    /\ disk = [f \in Files |-> 0]
    /\ authored = {}
    /\ assets = {}
    /\ registry = [f \in Files |-> 0]
    /\ at = "idle"
    /\ tx = NoTransaction
    /\ torn = FALSE
    /\ phase = "preparing"
    /\ history = 0
    /\ pending = NoRevision
    /\ archives = {}
    /\ place = [o \in Outputs |-> "case"]
    /\ unrecorded = FALSE

Commit ==
    \/ \E changes \in Changes : \E drops \in SUBSET (Files \ DOMAIN changes) : Begin(changes, drops)
    \/ \E f \in Files : WriteOne(f) \/ DropOne(f) \/ RestoreOne(f)
    \/ Committed \/ CommitRaises \/ Restored \/ Torn

Edit == \E f \in Files : Delete(f) \/ \E c \in 1..MaxContent : WriteText(f, c)

Import == \E f \in Files, c \in 1..MaxContent : ImportFile(f, c) \/ ImportUnrecorded(f, c)

Revise ==
    \/ Solved \/ ConfirmRevision
    \/ ArchiveStart \/ Archived \/ ArchiveRaises \/ RevisionSolved
    \/ \E o \in Outputs : Move(o)

Next == Commit \/ Edit \/ Import \/ Revise
Spec == Init /\ [][Next]_vars

----------------------------------------------------------------------------
\* The files of the user keep the bytes they were imported with, whatever
\* bundle is committed, rolled back or cut short.
AssetsKept == \A f \in assets : disk[f] = registry[f] /\ f \notin authored

\* Between two calls the agent's own record names exactly the files it put
\* there: what the size limit counts and the seal calls "agent" is on disk.
RecordsMatchDisk == Idle /\ ~torn => authored \subseteq Existing

\* Every file has the owner the records name, through every bundle and rollback.
OwnersKept == AssetsKept /\ RecordsMatchDisk

\* The first edit of a revision finds every earlier output in its archive, so
\* that no result of the old case is read as one of the new case; unless an
\* earlier revision has left its archive path set.
EditsAfterArchive ==
    [][phase = "revising" /\ disk' # disk /\ ~unrecorded => \A o \in Outputs : place[o] = "archive"]_vars

\* A call on the workspace is one step of AtomicCommit.
Visible == IF at \in {"writing", "restoring"} THEN tx.before ELSE disk
Asked == [texts |-> tx.changes, drops |-> tx.drops]
Owned == IF at \in {"writing", "restoring"} THEN tx.owned ELSE authored
Atomic == INSTANCE AtomicCommit
    WITH SizeOf <- Total, case <- Visible, users <- assets, agents <- Owned, asked <- Asked
ImplementsAtomicCommit == Atomic!AtomicSpec
=============================================================================
