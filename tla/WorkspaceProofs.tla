-------------------------- MODULE WorkspaceProofs ---------------------------
(***************************************************************************)
(* The case directory, for every set of files and outputs and every limit: *)
(* the owners of the files are the recorded ones, a revision edits nothing *)
(* before its archive, and a bundle is committed as a whole or not at all. *)
(***************************************************************************)
EXTENDS CaseWorkspace, TLAPS

InBundle == at \in {"writing", "restoring"}

Transactions == [changes : Changes,
                 drops   : SUBSET Files,
                 before  : [Files -> Contents],
                 owned   : SUBSET Files,
                 todo    : SUBSET Files]

TypeOK ==
    /\ disk \in [Files -> Contents]
    /\ authored \subseteq Files
    /\ assets \subseteq Files
    /\ registry \in [Files -> Contents]
    /\ at \in {"idle", "writing", "restoring", "archiving"}
    /\ torn \in BOOLEAN

\* A bundle names no file of the user, and knows the case it found.
BundleHolds ==
    /\ tx \in Transactions
    /\ tx.drops \cap DOMAIN tx.changes = {}
    /\ tx.drops \subseteq tx.owned
    /\ tx.todo \subseteq Touched(tx)
    /\ (Touched(tx) \cup tx.owned) \cap assets = {}
    /\ torn \/ \A f \in tx.owned : tx.before[f] # 0
    /\ \A f \in Files \ Touched(tx) : disk[f] = tx.before[f]

\* What is left to do has not been done, and nothing else.
WritingHolds ==
    /\ authored = (tx.owned \cup (DOMAIN tx.changes \ tx.todo)) \ (tx.drops \ tx.todo)
    /\ \A f \in DOMAIN tx.changes \ tx.todo : disk[f] = tx.changes[f]
    /\ \A f \in tx.drops \ tx.todo : disk[f] = 0

RestoringHolds ==
    /\ authored = tx.owned
    /\ \A f \in Touched(tx) \ tx.todo : disk[f] = tx.before[f]

OwnersHold ==
    /\ authored \cap assets = {}
    /\ \A f \in assets : disk[f] = registry[f] /\ disk[f] # 0
    /\ ~InBundle /\ ~torn => \A f \in authored : disk[f] # 0

FInv ==
    /\ TypeOK
    /\ InBundle => BundleHolds
    /\ ~InBundle => tx = NoTransaction
    /\ at = "writing" => WritingHolds
    /\ at = "restoring" => RestoringHolds
    /\ OwnersHold

(***************************************************************************)
(* The files and their owners.                                             *)
(***************************************************************************)
LEMMA ChangesType ==
    ASSUME NEW c \in Changes
    PROVE  /\ DOMAIN c \subseteq Files
           /\ \A f \in DOMAIN c : c[f] \in Contents /\ c[f] # 0
<1>1. PICK s \in SUBSET Files : c \in [s -> 1 .. MaxContent]
  BY DEF Changes
<1> QED
  BY <1>1, WorkspaceAssumption DEF Contents

LEMMA TodoOnly ==
    ASSUME tx \in Transactions, NEW S \in SUBSET Files, tx' = [tx EXCEPT !.todo = S]
    PROVE  /\ tx' \in Transactions /\ tx'.todo = S
           /\ tx'.changes = tx.changes /\ tx'.drops = tx.drops
           /\ tx'.before = tx.before /\ tx'.owned = tx.owned
           /\ Touched(tx') = Touched(tx)
BY DEF Transactions, Touched

LEMMA InitFiles == Init => FInv
<1>1. 0 \in Contents
  BY WorkspaceAssumption DEF Contents
<1> QED
  BY <1>1 DEF Init, FInv, TypeOK, OwnersHold, InBundle

LEMMA BeginFiles ==
    ASSUME FInv, NEW changes \in Changes, NEW drops \in SUBSET (Files \ DOMAIN changes),
           Begin(changes, drops)
    PROVE  FInv'
<1>1. /\ ~InBundle /\ at' = "writing" /\ UNCHANGED <<disk, authored, assets, registry, torn>>
      /\ DOMAIN changes \cap assets = {} /\ drops \subseteq (authored \cap Existing) \ assets
  BY DEF Begin, MayCommit, Idle, InBundle, Preflight, files
<1>2. /\ tx'.changes = changes /\ tx'.drops = drops /\ tx'.before = disk
      /\ tx'.owned = authored /\ tx'.todo = DOMAIN changes \cup drops
      /\ Touched(tx') = DOMAIN changes \cup drops
  BY DEF Begin, Touched
<1>3. DOMAIN changes \subseteq Files
  BY ChangesType
<1>4. tx' \in Transactions
  BY <1>3 DEF Begin, Transactions, FInv, TypeOK
<1>5. BundleHolds'
  BY <1>1, <1>2, <1>3, <1>4 DEF BundleHolds, FInv, TypeOK, OwnersHold
<1>6. WritingHolds'
  BY <1>1, <1>2 DEF WritingHolds
<1> QED
  BY <1>1, <1>5, <1>6 DEF FInv, TypeOK, OwnersHold, InBundle

LEMMA WriteOneFiles ==
    ASSUME FInv, NEW f \in Files, WriteOne(f)
    PROVE  FInv'
<1>1. /\ BundleHolds /\ WritingHolds /\ at = "writing" /\ at' = "writing"
      /\ f \in tx.todo /\ f \in DOMAIN tx.changes /\ f \notin tx.drops
      /\ disk' = [disk EXCEPT ![f] = tx.changes[f]] /\ authored' = authored \cup {f}
      /\ UNCHANGED <<assets, registry, torn>>
  BY DEF WriteOne, FInv, InBundle, BundleHolds
<1>2. /\ tx' \in Transactions /\ tx'.todo = tx.todo \ {f}
      /\ tx'.changes = tx.changes /\ tx'.drops = tx.drops
      /\ tx'.before = tx.before /\ tx'.owned = tx.owned
      /\ Touched(tx') = Touched(tx)
  <2>1. tx.todo \ {f} \in SUBSET Files /\ tx' = [tx EXCEPT !.todo = tx.todo \ {f}]
    BY <1>1 DEF WriteOne, BundleHolds, Transactions
  <2> QED
    BY <1>1, <2>1, TodoOnly DEF BundleHolds
<1>3. f \in Touched(tx) /\ f \notin assets /\ tx.changes[f] \in Contents
  BY <1>1, ChangesType DEF Touched, BundleHolds, Transactions
<1>4. TypeOK'
  BY <1>1, <1>3 DEF FInv, TypeOK
<1>5. BundleHolds'
  BY <1>1, <1>2, <1>3 DEF FInv, TypeOK, BundleHolds
<1>6. WritingHolds'
  BY <1>1, <1>2, ChangesType DEF FInv, TypeOK, WritingHolds, BundleHolds, Transactions
<1>7. OwnersHold'
  BY <1>1, <1>3 DEF FInv, TypeOK, OwnersHold, InBundle
<1> QED
  BY <1>1, <1>4, <1>5, <1>6, <1>7 DEF FInv, InBundle

LEMMA DropOneFiles ==
    ASSUME FInv, NEW f \in Files, DropOne(f)
    PROVE  FInv'
<1>1. /\ BundleHolds /\ WritingHolds /\ at = "writing" /\ at' = "writing"
      /\ f \in tx.todo /\ f \notin DOMAIN tx.changes
      /\ disk' = [disk EXCEPT ![f] = 0] /\ authored' = authored \ {f}
      /\ UNCHANGED <<assets, registry, torn>>
  BY DEF DropOne, FInv, InBundle
<1>2. f \in tx.drops /\ f \in Touched(tx) /\ f \notin assets
  BY <1>1 DEF BundleHolds, Touched
<1>3. /\ tx' \in Transactions /\ tx'.todo = tx.todo \ {f}
      /\ tx'.changes = tx.changes /\ tx'.drops = tx.drops
      /\ tx'.before = tx.before /\ tx'.owned = tx.owned
      /\ Touched(tx') = Touched(tx)
  <2>1. tx.todo \ {f} \in SUBSET Files /\ tx' = [tx EXCEPT !.todo = tx.todo \ {f}]
    BY <1>1 DEF DropOne, BundleHolds, Transactions
  <2> QED
    BY <1>1, <2>1, TodoOnly DEF BundleHolds
<1>4. TypeOK'
  BY <1>1, WorkspaceAssumption DEF FInv, TypeOK, Contents
<1>5. BundleHolds'
  BY <1>1, <1>2, <1>3 DEF FInv, TypeOK, BundleHolds
<1>6. WritingHolds'
  BY <1>1, <1>2, <1>3, ChangesType DEF FInv, TypeOK, WritingHolds, BundleHolds, Transactions
<1>7. OwnersHold'
  BY <1>1, <1>2 DEF FInv, TypeOK, OwnersHold, InBundle
<1> QED
  BY <1>1, <1>4, <1>5, <1>6, <1>7 DEF FInv, InBundle

LEMMA CommittedFiles ==
    ASSUME FInv, Committed
    PROVE  FInv'
<1>1. /\ BundleHolds /\ WritingHolds /\ tx.todo = {} /\ at' = "idle" /\ tx' = NoTransaction
      /\ UNCHANGED <<disk, authored, assets, registry, torn>>
  BY DEF Committed, FInv, InBundle, files
<1>2. ~torn => \A f \in authored : disk[f] # 0
  <2> SUFFICES ASSUME ~torn, NEW f \in authored PROVE disk[f] # 0
    OBVIOUS
  <2>1. CASE f \in DOMAIN tx.changes
    BY <1>1, <2>1, ChangesType DEF WritingHolds, BundleHolds, Transactions
  <2>2. CASE f \notin DOMAIN tx.changes
    <3>1. f \in tx.owned /\ f \notin Touched(tx) /\ f \in Files
      BY <1>1, <2>2 DEF WritingHolds, BundleHolds, Transactions, Touched
    <3> QED
      BY <1>1, <3>1 DEF BundleHolds
  <2> QED
    BY <2>1, <2>2
<1> QED
  BY <1>1, <1>2 DEF FInv, TypeOK, OwnersHold, InBundle

LEMMA CommitRaisesFiles ==
    ASSUME FInv, CommitRaises
    PROVE  FInv'
<1>1. /\ BundleHolds /\ at = "writing" /\ at' = "restoring" /\ authored' = tx.owned
      /\ UNCHANGED <<disk, assets, registry, torn>>
  BY DEF CommitRaises, OwnedAgain, FInv, InBundle
<1>2. /\ tx' \in Transactions /\ tx'.todo = Touched(tx)
      /\ tx'.changes = tx.changes /\ tx'.drops = tx.drops
      /\ tx'.before = tx.before /\ tx'.owned = tx.owned
      /\ Touched(tx') = Touched(tx)
  <2>1. Touched(tx) \in SUBSET Files /\ tx' = [tx EXCEPT !.todo = Touched(tx)]
    BY <1>1, ChangesType DEF CommitRaises, BundleHolds, Transactions, Touched
  <2> QED
    BY <1>1, <2>1, TodoOnly DEF BundleHolds
<1>3. TypeOK' /\ OwnersHold'
  BY <1>1 DEF FInv, TypeOK, OwnersHold, BundleHolds, Transactions, InBundle
<1>4. BundleHolds' /\ RestoringHolds'
  BY <1>1, <1>2 DEF BundleHolds, RestoringHolds
<1> QED
  BY <1>1, <1>3, <1>4 DEF FInv, InBundle

LEMMA RestoreOneFiles ==
    ASSUME FInv, NEW f \in Files, RestoreOne(f)
    PROVE  FInv'
<1>1. /\ BundleHolds /\ RestoringHolds /\ at = "restoring" /\ at' = "restoring"
      /\ f \in tx.todo /\ disk' = [disk EXCEPT ![f] = tx.before[f]]
      /\ UNCHANGED <<authored, assets, registry, torn>>
  BY DEF RestoreOne, Snapshot, FInv, InBundle
<1>2. /\ tx' \in Transactions /\ tx'.todo = tx.todo \ {f}
      /\ tx'.changes = tx.changes /\ tx'.drops = tx.drops
      /\ tx'.before = tx.before /\ tx'.owned = tx.owned
      /\ Touched(tx') = Touched(tx)
  <2>1. tx.todo \ {f} \in SUBSET Files /\ tx' = [tx EXCEPT !.todo = tx.todo \ {f}]
    BY <1>1 DEF RestoreOne, BundleHolds, Transactions
  <2> QED
    BY <1>1, <2>1, TodoOnly DEF BundleHolds
<1>3. f \in Touched(tx) /\ f \notin assets /\ tx.before[f] \in Contents
  BY <1>1 DEF BundleHolds, Transactions
<1>4. TypeOK' /\ OwnersHold'
  BY <1>1, <1>3 DEF FInv, TypeOK, OwnersHold, InBundle
<1>5. BundleHolds' /\ RestoringHolds'
  <2>1. Touched(tx) \subseteq Files
    BY <1>1, ChangesType DEF BundleHolds, Transactions, Touched
  <2> QED
    BY <1>1, <1>2, <1>3, <2>1 DEF FInv, TypeOK, BundleHolds, RestoringHolds
<1> QED
  BY <1>1, <1>4, <1>5 DEF FInv, InBundle

\* After a complete rollback the case is the one the bundle found.
LEMMA RolledBack ==
    ASSUME FInv, at = "restoring", tx.todo = {}
    PROVE  disk = tx.before /\ authored = tx.owned
<1>1. BundleHolds /\ RestoringHolds
  BY DEF FInv, InBundle
<1>2. \A f \in Files : disk[f] = tx.before[f]
  BY <1>1 DEF BundleHolds, RestoringHolds
<1>3. disk \in [Files -> Contents] /\ tx.before \in [Files -> Contents]
  BY <1>1 DEF FInv, TypeOK, BundleHolds, Transactions
<1> QED
  BY <1>1, <1>2, <1>3 DEF RestoringHolds

LEMMA RestoredFiles ==
    ASSUME FInv, Restored
    PROVE  FInv'
<1>1. /\ BundleHolds /\ disk = tx.before /\ authored = tx.owned
      /\ at' = "idle" /\ tx' = NoTransaction
      /\ UNCHANGED <<disk, authored, assets, registry, torn>>
  BY RolledBack DEF Restored, FInv, InBundle, files
<1> QED
  BY <1>1 DEF FInv, TypeOK, BundleHolds, OwnersHold, InBundle

LEMMA TornFiles ==
    ASSUME FInv, Torn
    PROVE  FInv'
BY DEF Torn, FInv, TypeOK, OwnersHold, InBundle, files

LEMMA EditFiles ==
    ASSUME FInv, NEW f \in Files,
           Delete(f) \/ \E c \in 1 .. MaxContent : WriteText(f, c)
    PROVE  FInv'
<1>1. /\ ~InBundle /\ ~InBundle' /\ tx = NoTransaction /\ f \notin assets
      /\ UNCHANGED <<assets, registry, at, tx, torn>>
  BY DEF Delete, WriteText, MayCommit, Idle, InBundle, FInv
<1>2. \E c \in Contents : /\ disk' = [disk EXCEPT ![f] = c]
                          /\ c = 0 => authored' = authored \ {f}
                          /\ c # 0 => authored' = authored \cup {f}
  BY WorkspaceAssumption DEF Delete, WriteText, Contents
<1> QED
  BY <1>1, <1>2 DEF FInv, TypeOK, OwnersHold, InBundle

LEMMA ImportFiles ==
    ASSUME FInv, NEW f \in Files, NEW c \in 1 .. MaxContent,
           ImportFile(f, c) \/ ImportUnrecorded(f, c)
    PROVE  FInv'
<1>1. /\ ~InBundle /\ ~InBundle' /\ tx = NoTransaction /\ authored = {} /\ c \in Contents
      /\ UNCHANGED <<authored, at, tx, torn>>
      /\ disk' = [disk EXCEPT ![f] = c] /\ disk[f] = 0 /\ c # 0
  BY WorkspaceAssumption
     DEF ImportFile, ImportUnrecorded, Importable, Existing, Idle, InBundle, FInv, Contents
<1> QED
  BY <1>1
     DEF ImportFile, ImportUnrecorded, FInv, TypeOK, OwnersHold, InBundle

LEMMA CallFiles ==
    ASSUME FInv, ~InBundle, ~InBundle', at' \in {"idle", "archiving"},
           UNCHANGED <<files, tx, torn>>
    PROVE  FInv'
BY DEF FInv, TypeOK, OwnersHold, files, InBundle

LEMMA FilesStep ==
    ASSUME FInv, [Next]_vars
    PROVE  FInv'
<1>1. CASE Commit
  BY <1>1, BeginFiles, WriteOneFiles, DropOneFiles, CommittedFiles, CommitRaisesFiles,
     RestoreOneFiles, RestoredFiles, TornFiles
     DEF Commit
<1>2. CASE Edit
  BY <1>2, EditFiles DEF Edit
<1>3. CASE Import
  BY <1>3, ImportFiles DEF Import
<1>4. CASE Revise
  <2>1. /\ UNCHANGED <<files, tx, torn>>
        /\ at \in {"idle", "archiving"} /\ at' \in {"idle", "archiving"}
    BY <1>4
       DEF Revise, Solved, ConfirmRevision, ArchiveStart, Archived, ArchiveRaises,
           RevisionSolved, Move, Idle
  <2> QED
    BY <2>1, CallFiles DEF InBundle
<1>5. CASE UNCHANGED vars
  BY <1>5
     DEF vars, files, FInv, TypeOK, OwnersHold, InBundle, BundleHolds, WritingHolds,
         RestoringHolds, Touched
<1> QED
  BY <1>1, <1>2, <1>3, <1>4, <1>5 DEF Next

LEMMA FilesInvariance == Spec => []FInv
<1>1. FInv /\ [Next]_vars => FInv'
  BY FilesStep
<1> QED
  BY InitFiles, <1>1, PTL DEF Spec

\* Every file of the case has the owner the records name, through every bundle,
\* every rollback that fails, every edit and import: the user's files keep their
\* bytes, and between two calls what the agent is recorded to own is on disk
\* (tools/workspace.py, tools/assets.py).
THEOREM OwnersKeptCorrect == Spec => []OwnersKept
<1>1. FInv => OwnersKept
  BY DEF FInv, TypeOK, OwnersHold, OwnersKept, AssetsKept, RecordsMatchDisk, Existing, Idle,
         InBundle
<1> QED
  BY <1>1, FilesInvariance, PTL

(***************************************************************************)
(* The archive of a revision.                                              *)
(***************************************************************************)
AInv ==
    /\ place \in [Outputs -> {"case", "archive"}]
    /\ at = "archiving" => phase = "revising" /\ pending = NoRevision
    /\ InBundle => phase = "preparing" \/ (phase = "revising" /\ pending # NoRevision)
    /\ ~unrecorded /\ pending # NoRevision =>
           /\ phase \in {"revising", "failed"}
           /\ \A o \in Outputs : place[o] = "archive"

\* A bundle leaves the archive alone.
Aside ==
    /\ UNCHANGED <<history, pending, archives, place, unrecorded>>
    /\ at # "archiving" /\ at' # "archiving"
    /\ phase' # phase => phase' = "failed" /\ ~InBundle'
    /\ InBundle' => InBundle \/ MayCommit

LEMMA ArchiveStep ==
    ASSUME AInv, [Next]_vars
    PROVE  AInv'
<1>1. CASE Commit
  <2>1. ASSUME NEW changes \in Changes, NEW drops \in SUBSET (Files \ DOMAIN changes),
               Begin(changes, drops)
        PROVE  Aside
    BY <2>1 DEF Begin, MayCommit, Idle, revision, Aside
  <2>2. ASSUME NEW f \in Files, WriteOne(f) \/ DropOne(f) \/ RestoreOne(f)
        PROVE  Aside
    BY <2>2 DEF WriteOne, DropOne, RestoreOne, InBundle, revision, Aside
  <2>3. ASSUME Committed \/ CommitRaises \/ Torn
        PROVE  Aside
    BY <2>3 DEF Committed, CommitRaises, Torn, InBundle, revision, Aside
  <2>4. ASSUME Restored
        PROVE  Aside
    BY <2>4 DEF Restored, InBundle, Aside
  <2>5. Aside
    BY <1>1, <2>1, <2>2, <2>3, <2>4 DEF Commit
  <2> QED
    BY <2>5 DEF AInv, MayCommit, Aside
<1>2. CASE Edit \/ Import \/ UNCHANGED vars
  BY <1>2
     DEF Edit, Import, Delete, WriteText, ImportFile, ImportUnrecorded, vars, revision, AInv,
         InBundle
<1>3. CASE Revise
  BY <1>3
     DEF Revise, Solved, ConfirmRevision, ArchiveStart, Archived, ArchiveRaises, RevisionSolved,
         Move, Unmoved, Idle, AInv, InBundle
<1> QED
  BY <1>1, <1>2, <1>3 DEF Next

LEMMA ArchiveInvariance == Spec => []AInv
<1>1. Init => AInv
  BY DEF Init, AInv, InBundle
<1>2. AInv /\ [Next]_vars => AInv'
  BY ArchiveStep
<1> QED
  BY <1>1, <1>2, PTL DEF Spec

\* No byte of a revised case is written before every output of the old case is
\* in the archive of that revision, unless an earlier one has left its archive
\* path set (tools/workspace.py, engineering/phases/revision_controller.py).
THEOREM EditsAfterArchiveCorrect == Spec => EditsAfterArchive
<1>1. AInv /\ [Next]_vars =>
        [phase = "revising" /\ disk' # disk /\ ~unrecorded =>
            \A o \in Outputs : place[o] = "archive"]_vars
  <2> SUFFICES ASSUME AInv, Next, phase = "revising", disk' # disk, ~unrecorded
               PROVE  \A o \in Outputs : place[o] = "archive"
    OBVIOUS
  <2>1. pending # NoRevision
    <3>1. CASE Commit
      BY <3>1
         DEF Commit, Begin, WriteOne, DropOne, Committed, CommitRaises, RestoreOne, Restored,
             Torn, InBundle, AInv, files
    <3>2. CASE Edit \/ Import
      BY <3>2
         DEF Edit, Import, Delete, WriteText, MayCommit, ImportFile, ImportUnrecorded, Importable
    <3>3. CASE Revise
      BY <3>3
         DEF Revise, Solved, ConfirmRevision, ArchiveStart, Archived, ArchiveRaises,
             RevisionSolved, Move, files
    <3> QED
      BY <3>1, <3>2, <3>3 DEF Next
  <2> QED
    BY <2>1 DEF AInv
<1> QED
  BY <1>1, ArchiveInvariance, PTL DEF Spec, EditsAfterArchive

(***************************************************************************)
(* The bundle as one step: what a caller of the workspace sees.            *)
(***************************************************************************)
LEMMA StartRefines == Init => Atomic!Start
BY DEF Init, Atomic!Start, Atomic!Nothing, Visible, Owned, Asked, NoTransaction

LEMMA BeginRefines ==
    ASSUME FInv, NEW changes \in Changes, NEW drops \in SUBSET (Files \ DOMAIN changes),
           Begin(changes, drops)
    PROVE  Atomic!Ask
<1>1. /\ at = "idle" /\ at' = "writing" /\ tx = NoTransaction
      /\ UNCHANGED <<disk, authored, assets, torn>>
  BY DEF Begin, MayCommit, Idle, FInv, InBundle, files
<1>2. tx'.changes = changes /\ tx'.drops = drops /\ tx'.before = disk /\ tx'.owned = authored
  BY DEF Begin
<1>3. Visible = disk /\ Visible' = disk /\ Owned = authored /\ Owned' = authored
  BY <1>1, <1>2 DEF Visible, Owned
<1>4. Asked = Atomic!Nothing /\ Asked'.texts = changes /\ Asked'.drops = drops
  BY <1>1, <1>2 DEF Asked, Atomic!Nothing, NoTransaction
<1>5. DOMAIN changes \subseteq Files \ assets /\ drops \subseteq authored
  BY ChangesType DEF Begin, Preflight
<1> QED
  BY <1>1, <1>3, <1>4, <1>5 DEF Atomic!Ask

LEMMA WithinRefines ==
    ASSUME FInv, NEW f \in Files,
           WriteOne(f) \/ DropOne(f) \/ RestoreOne(f)
    PROVE  UNCHANGED <<Visible, assets, Owned, Asked, torn>>
<1>1. /\ InBundle /\ InBundle' /\ UNCHANGED <<assets, torn>>
      /\ \E S : tx' = [tx EXCEPT !.todo = S]
  BY DEF WriteOne, DropOne, RestoreOne, InBundle
<1>2. BundleHolds
  BY <1>1 DEF FInv
<1>3. /\ tx'.before = tx.before /\ tx'.owned = tx.owned
      /\ tx'.changes = tx.changes /\ tx'.drops = tx.drops
  BY <1>1, <1>2 DEF BundleHolds, Transactions
<1> QED
  BY <1>1, <1>3 DEF Visible, Owned, Asked, InBundle

LEMMA CommittedRefines ==
    ASSUME FInv, Committed
    PROVE  Atomic!Grant
<1>1. /\ at = "writing" /\ at' = "idle" /\ tx' = NoTransaction /\ tx.todo = {}
      /\ UNCHANGED <<disk, authored, assets, torn>> /\ BundleHolds /\ WritingHolds
  BY DEF Committed, FInv, InBundle, files
<1>2. Visible = tx.before /\ Visible' = disk /\ Owned = tx.owned /\ Owned' = authored
  BY <1>1 DEF Visible, Owned
<1>3. Asked.texts = tx.changes /\ Asked.drops = tx.drops /\ Asked' = Atomic!Nothing
  BY <1>1 DEF Asked, Atomic!Nothing, NoTransaction
<1>4. disk = [f \in Files |-> IF f \in tx.drops THEN 0
                              ELSE IF f \in DOMAIN tx.changes THEN tx.changes[f]
                              ELSE tx.before[f]]
  <2>1. disk \in [Files -> Contents]
    BY DEF FInv, TypeOK
  <2>2. ASSUME NEW f \in Files
        PROVE  disk[f] = IF f \in tx.drops THEN 0
                         ELSE IF f \in DOMAIN tx.changes THEN tx.changes[f]
                         ELSE tx.before[f]
    BY <1>1, <2>2 DEF BundleHolds, WritingHolds, Touched
  <2> QED
    BY <2>1, <2>2
<1>5. authored = (tx.owned \cup DOMAIN tx.changes) \ tx.drops
  BY <1>1 DEF WritingHolds
<1>6. {f \in authored : disk[f] # 0} = authored \cap Existing
  BY DEF Existing, FInv, TypeOK
<1>7. Total({f \in Owned' : Visible'[f] # 0}, Visible') <= MaxTotal
  BY <1>2, <1>1, <1>6 DEF Committed, WithinLimit
<1> QED
  BY <1>1, <1>2, <1>3, <1>4, <1>5, <1>7 DEF Atomic!Grant

LEMMA RestoredRefines ==
    ASSUME FInv, Restored
    PROVE  Atomic!Refuse
<1>1. /\ disk = tx.before /\ authored = tx.owned /\ at = "restoring" /\ at' = "idle"
      /\ tx' = NoTransaction /\ UNCHANGED <<disk, authored, assets, torn>>
  BY RolledBack DEF Restored, files
<1> QED
  BY <1>1 DEF Atomic!Refuse, Atomic!Nothing, Visible, Owned, Asked, NoTransaction

LEMMA TornRefines ==
    ASSUME FInv, Torn
    PROVE  Atomic!Tear
<1>1. /\ InBundle /\ at' = "idle" /\ tx' = NoTransaction /\ torn' = TRUE
      /\ UNCHANGED <<disk, assets>> /\ BundleHolds
  BY DEF Torn, FInv, InBundle, files
<1>2. Visible = tx.before /\ Visible' = disk /\ Asked' = Atomic!Nothing
  BY <1>1 DEF Visible, Asked, InBundle, Atomic!Nothing, NoTransaction
<1>3. Asked.texts = tx.changes /\ Asked.drops = tx.drops
  BY DEF Asked
<1>4. \A f \in Files \ (DOMAIN tx.changes \cup tx.drops) : disk[f] = tx.before[f]
  BY <1>1 DEF BundleHolds, Touched
<1> QED
  BY <1>1, <1>2, <1>3, <1>4 DEF Atomic!Tear

LEMMA EditRefines ==
    ASSUME FInv, NEW f \in Files,
           Delete(f) \/ \E c \in 1 .. MaxContent : WriteText(f, c)
    PROVE  Atomic!Single(f)
<1>1. /\ at = "idle" /\ tx = NoTransaction /\ f \notin assets /\ disk \in [Files -> Contents]
      /\ UNCHANGED <<assets, at, tx, torn>>
  BY DEF Delete, WriteText, MayCommit, Idle, InBundle, FInv, TypeOK
<1>2. \E c \in Contents : /\ disk' = [disk EXCEPT ![f] = c]
                          /\ authored' = IF c = 0 THEN authored \ {f} ELSE authored \cup {f}
  BY WorkspaceAssumption DEF Delete, WriteText, Contents
<1>3. /\ \A g \in Files \ {f} : disk'[g] = disk[g]
      /\ authored' = IF disk'[f] = 0 THEN authored \ {f} ELSE authored \cup {f}
  BY <1>1, <1>2
<1>4. Visible = disk /\ Visible' = disk' /\ Owned = authored /\ Owned' = authored'
  BY <1>1 DEF Visible, Owned
<1>5. Asked = Atomic!Nothing /\ Asked' = Asked
  BY <1>1 DEF Asked, Atomic!Nothing, NoTransaction
<1> QED
  BY <1>1, <1>3, <1>4, <1>5 DEF Atomic!Single

LEMMA ImportRefines ==
    ASSUME FInv, NEW f \in Files, NEW c \in 1 .. MaxContent,
           ImportFile(f, c) \/ ImportUnrecorded(f, c)
    PROVE  Atomic!Take(f)
<1>1. /\ at = "idle" /\ disk \in [Files -> Contents] /\ disk[f] = 0 /\ c # 0
      /\ disk' = [disk EXCEPT ![f] = c] /\ assets' \in {assets, assets \cup {f}}
      /\ UNCHANGED <<authored, at, tx, torn>>
  BY WorkspaceAssumption
     DEF ImportFile, ImportUnrecorded, Importable, Existing, Idle, FInv, TypeOK
<1>2. disk'[f] # 0 /\ \A g \in Files \ {f} : disk'[g] = disk[g]
  BY <1>1
<1>3. /\ Visible = disk /\ Visible' = disk' /\ UNCHANGED <<Owned, Asked>>
  BY <1>1 DEF Visible, Owned, Asked
<1> QED
  BY <1>1, <1>2, <1>3 DEF Atomic!Take

LEMMA AsideRefines ==
    ASSUME FInv, Revise \/ UNCHANGED vars
    PROVE  UNCHANGED <<Visible, assets, Owned, Asked, torn>>
<1>1. CASE Revise
  <2>1. /\ UNCHANGED <<disk, authored, assets, tx, torn>>
        /\ at \notin {"writing", "restoring"} /\ at' \notin {"writing", "restoring"}
    BY <1>1
       DEF Revise, Solved, ConfirmRevision, ArchiveStart, Archived, ArchiveRaises,
           RevisionSolved, Move, Idle, files
  <2> QED
    BY <2>1 DEF Visible, Owned, Asked
<1>2. CASE UNCHANGED vars
  BY <1>2 DEF vars, files, Visible, Owned, Asked
<1> QED
  BY <1>1, <1>2

LEMMA StepRefines ==
    ASSUME FInv, [Next]_vars
    PROVE  [Atomic!AtomicNext]_(Atomic!abstractVars)
<1>1. CASE Commit
  <2>1. ASSUME NEW f \in Files, WriteOne(f) \/ DropOne(f) \/ RestoreOne(f)
        PROVE  UNCHANGED Atomic!abstractVars
    BY <2>1, WithinRefines DEF Atomic!abstractVars
  <2>2. ASSUME CommitRaises
        PROVE  UNCHANGED Atomic!abstractVars
    <3>1. /\ InBundle /\ InBundle' /\ UNCHANGED <<assets, torn>> /\ BundleHolds
          /\ tx' = [tx EXCEPT !.todo = Touched(tx)]
      BY <2>2 DEF CommitRaises, InBundle, FInv
    <3>2. /\ tx'.before = tx.before /\ tx'.owned = tx.owned
          /\ tx'.changes = tx.changes /\ tx'.drops = tx.drops
      BY <3>1 DEF BundleHolds, Transactions
    <3> QED
      BY <3>1, <3>2 DEF Visible, Owned, Asked, InBundle, Atomic!abstractVars
  <2>3. ASSUME NEW changes \in Changes, NEW drops \in SUBSET (Files \ DOMAIN changes),
               Begin(changes, drops)
        PROVE  Atomic!Ask
    BY <2>3, BeginRefines
  <2> QED
    BY <1>1, <2>1, <2>2, <2>3, CommittedRefines, RestoredRefines, TornRefines
       DEF Commit, Atomic!AtomicNext
<1>2. CASE Edit
  BY <1>2, EditRefines DEF Edit, Atomic!AtomicNext
<1>3. CASE Import
  BY <1>3, ImportRefines DEF Import, Atomic!AtomicNext
<1>4. CASE Revise \/ UNCHANGED vars
  BY <1>4, AsideRefines DEF Atomic!abstractVars
<1> QED
  BY <1>1, <1>2, <1>3, <1>4 DEF Next

\* A bundle of texts and drops becomes visible as a whole, within the limit, or
\* not at all, and no call touches a file of the user; a rollback that fails
\* leaves files of its own bundle behind only (CaseWorkspace.commit_bundle and the
\* single edits of tools/workspace.py).
THEOREM ImplementsAtomicCommitCorrect == Spec => ImplementsAtomicCommit
<1>1. FInv /\ [Next]_vars => [Atomic!AtomicNext]_(Atomic!abstractVars)
  BY StepRefines
<1> QED
  BY StartRefines, FilesInvariance, <1>1, PTL
     DEF Spec, ImplementsAtomicCommit, Atomic!AtomicSpec
=============================================================================
