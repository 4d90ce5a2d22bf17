SPECIFICATION Spec
CONSTANTS
    j1 = j1
    j2 = j2
    r1 = r1
    r2 = r2
    r3 = r3
    Job <- TwoJobs
    Workflow <- TwoJobs
    Run <- ThreeRuns
    Wait <- ThreeRuns
    Task = {t1, t2}
    None = None
    MaxAttempts = 2
    MaxSync = 1
    MaxStops = 1
    MaxAborts = 1
SYMMETRY Symmetry
INVARIANTS
    
    RunRowsAgree
    CursorFollowsCompleted
    
