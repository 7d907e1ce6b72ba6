\* Four turns, a fifth by extension, one death of the session.
SPECIFICATION FairSpec
CONSTANTS
    Plans = {p1, p2}
    None = None
    MaxAgentSteps = 4
    HardMaxAgentSteps = 5
    StepExtension = 2
    MaxFinalizationSteps = 1
    ProgressWindow = 3
    MaxToolActions = 7
    MaxAuthoringRetries = 2
    MaxRetrievalCycles = 1
    MaxTasks = 2
    MaxCrashes = 1
INVARIANTS
    ShownIsUsed
    TurnsBounded
PROPERTIES
    LoopEnds
CHECK_DEADLOCK FALSE
