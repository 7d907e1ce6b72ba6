\* Two attempts, ranks that outlive the first.
SPECIFICATION SolverSpec
CONSTANTS
    Watched = {"p"}
    MaxAttempts = 2
    Samples = 2
    MinimumSteps = 2
    MaxTime = 2
    MaxChanges = 2
INVARIANTS
    OldFieldIsNoEvidence
CHECK_DEADLOCK FALSE
