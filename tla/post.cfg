\* Two turns, one revision, one change from outside.
SPECIFICATION FairSpec
CONSTANTS
    Configs = {c1}
    Contents = {v1, foreign}
    Authored = {v1}
    Coefficients = cd
    Quantities = {q}
    Checks = {balance}
    Bytes = {b1, b2}
    Contracts = {k1, k2}
    Passing <- MCPassing
    FirstPlan <- MCFirstPlan
    b1 = b1
    b2 = b2
    k1 = k1
    k2 = k2
    None = None
    MaxSteps = 2
    MaxNative = 1
    MaxRuns = 2
    MaxChanges = 1
INVARIANTS
    OnlyOwnEvidence
PROPERTIES
    ReportIsOfTheCase
    PostProcessingEnds
CHECK_DEADLOCK FALSE
