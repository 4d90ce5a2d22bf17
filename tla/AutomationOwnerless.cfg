SPECIFICATION FairSpec
CONSTANTS
    j1 = j1
    j2 = j2
    r1 = r1
    r2 = r2
    r3 = r3
    Job <- OneJob
    Workflow <- OneJob
    Run <- TwoRuns
    Wait <- TwoRuns
    Task = {t1}
    None = None
    MaxAttempts = 2
    MaxSync = 0
    MaxStops = 1
    MaxAborts = 0
PROPERTY OwnerlessIsRecovered
