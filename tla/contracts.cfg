\* Every numerical entry may change; two attempts of two changes of time; two
\* batches of two gaps.
SPECIFICATION MCSpec
CONSTANTS
    MaxValue = 2
    Frozen = {}
    MaxEdits = 1
    Watched = {"p"}
    MaxAttempts = 2
    Samples = 2
    MinimumSteps = 2
    MaxTime = 2
    MaxChanges = 3
    CycleLimit = 2
    Proposed = 2
    MaxGaps = 4
    MaxBatch = 2
INVARIANTS
    ResultIsOfThisAttempt
    QualityIsSustained
PROPERTIES
    GapsServedOnce
    RepairsStayWithinApproval
CHECK_DEADLOCK FALSE
