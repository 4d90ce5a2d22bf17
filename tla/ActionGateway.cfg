SPECIFICATION FairSpec
CONSTANTS
    a1 = a1
    a2 = a2
    r1 = r1
    Workflow = {w1, w2}
    Worker = {k1, k2}
    Action <- MCAction
    Wait <- MCAction
    Run <- MCRun
    None = None
    MaxAttempts = 2
INVARIANTS
    OpenAttemptIsCurrent
    EventsMatchState
    WaitingApprovalIsDecidable
PROPERTIES
    SettledIsFinal
    ImplementsDispatch
    ExecutionEnds
CHECK_DEADLOCK FALSE
