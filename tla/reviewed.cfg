\* Two statements of feedback, no foreign edits.
SPECIFICATION Spec
CONSTANTS
    Inputs = {"blockMeshDict", "fvSolution"}
    MaxContent = 2
    Plans = {"p0", "p1"}
    ContractOf <- MCContractOf
    None = None
    MaxTurns = 3
    MaxFinalTurns = 1
    MaxRepairTurns = 2
    MaxAttempts = 2
    MaxFeedback = 2
    MaxTampers = 0
INVARIANTS
    TypeOK
    ReviewedResultIsSealed
    NoStaleResult
    RevisionReadyBaseline
    SealedAtGate
PROPERTIES
    SettledStays
CHECK_DEADLOCK FALSE
