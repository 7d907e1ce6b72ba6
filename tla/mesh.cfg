\* Two regions, two edits of one file each, one member that fails.
SPECIFICATION MeshSpec
CONSTANTS
    ScopeOrder <- MCScopeOrder
    fluid = fluid
    solid = solid
    v1 = v1
    v2 = v2
    Versions = {v1, v2}
    Required <- MCRequired
    Hints <- MCHints
    Bundles <- MCBundles
    Absent = Absent
    Broken = Broken
    MaxDeltas = 2
    MaxFaults = 1
    MaxChanges = 1
INVARIANTS
    EvidenceIsCurrent
    MeshFollowsFiles
    ReusedStaysCurrent
SYMMETRY VersionSymmetry
CHECK_DEADLOCK FALSE
