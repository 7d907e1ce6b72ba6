\* Three native processes, three writes, sessions that die at any step.
SPECIFICATION Spec
CONSTANTS
    Parallel = TRUE
    MaxRows = 3
    MaxCase = 3
    MaxSessions = 4
    NoAction = NoAction
INVARIANTS
    NothingInDoubt
    ApprovedHere
    CleanIsResumable
CHECK_DEADLOCK FALSE
