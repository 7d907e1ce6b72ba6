SPECIFICATION Spec
CONSTANTS
  Sessions = {s1, s2}
  Reconcilers = {s1, s2}
  ExclusiveLoads = TRUE
  Limit = 3
  TotalWall = 2
  MaxCrashes = 4
  None = None
  s1 = s1
  s2 = s2
INVARIANTS OnRecord BudgetKept
PROPERTIES LedgerIsHistory ExclusiveRuns
CHECK_DEADLOCK FALSE
