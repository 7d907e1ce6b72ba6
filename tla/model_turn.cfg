SPECIFICATION Spec
CONSTANTS
    Repairs = 1
    Retries = 2
    IntakeRepairs = 1
    MaxPlan = 2
    MaxTurns = 3
    MaxResumes = 1
    MaxEvents = 3
INVARIANTS
    CostsOfThisTurn
    OnlyCleanAnswers
    DeltaIsKnown
PROPERTIES
    BlockedAfterRetries
    CallsEnd
\* A run that is over stops.
CHECK_DEADLOCK FALSE
