SPECIFICATION Spec
CONSTANTS
    Keys = {"a", "b"}
    Values = {1, 2}
    None = None
    Turns <- MCTurns
    SetTurns <- MCSetTurns
    Modes = {"easy", "strict"}
    MaxTurns = 3
    MaxRuns = 4
    Drafts <- MCDrafts
    Derived = Derived
    MaxSessions = 2
INVARIANTS
    
    WorkIsOfTheConversation
    OwnDirectory
\* The bounds on turns, attempts and sessions end a behaviour.
CHECK_DEADLOCK FALSE
