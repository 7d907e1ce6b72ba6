\* Three paths, bundles that exceed the limit, two outputs, two revisions.
SPECIFICATION Spec
CONSTANTS
    Files = {"a", "b", "c"}
    MaxContent = 2
    MaxTotal = 3
    Outputs = {"100", "logs"}
    MaxRevisions = 2
    NoRevision = NoRevision
INVARIANTS
    OwnersKept
PROPERTIES
    EditsAfterArchive
    ImplementsAtomicCommit
CHECK_DEADLOCK FALSE
