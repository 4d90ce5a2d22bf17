SPECIFICATION FairSpec
CONSTANTS
  p = p
  d = d
  Run = {p, d}
  Direct = {d}
  Finalized = {p}
  Guarded = {p}
  MaxTurns = 2
  MaxRestarts = 1
  MaxCancels = 1
  MaxFaults = 1
INVARIANTS
  ActiveIsDriven
  ResultIsProposed
  ToolIsCleared
PROPERTIES
  OutcomeIsKept
  ActiveRunEnds
CHECK_DEADLOCK FALSE
