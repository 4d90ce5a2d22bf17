SPECIFICATION FairSpec
CONSTANTS
  a = a
  b = b
  k1 = k1
  k2 = k2
  None = None
  Conv = {a, b}
  MaxRuns = 2
  Call = {k1}
  QueueChanges = FALSE
  MaxAsks = 1
  MaxUpsets = 1
INVARIANTS
  ActiveRunsAreDriven
  AnswerReachesItsAsker
  QuestionIsAnswerable
PROPERTIES
  ReviewedBeforeRelease
  LiveRunEnds
CHECK_DEADLOCK FALSE
