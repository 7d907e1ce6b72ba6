\* Every kind of file, a plan outside the approved contract, a foreign edit.
SPECIFICATION FairSpec
CONSTANTS
    Inputs = {"blockMeshDict", "controlDict", "fvSolution"}
    MaxContent = 2
    Plans = {"p0", "p2"}
    ContractOf <- MCContractOf
    None = None
    MaxTurns = 1
    MaxFinalTurns = 1
    MaxRepairTurns = 2
    MaxAttempts = 2
    MaxFeedback = 1
    MaxTampers = 1
INVARIANTS
    Authority
PROPERTIES
    Approved
    RunSettles
CHECK_DEADLOCK FALSE
