SPECIFICATION FairSpec
CONSTANTS
    w1 = w1
    t1 = t1
    e1 = e1
    s1 = s1
    Workflow = {w1}
    Wait = {t1, e1, s1}
    Home <- AllHome
    Kind <- AllKind
    Standalone = {s1}
    Run = {r1, r2}
    None = None
    MaxAttempts = 2
    ScanLimit = 2
    MaxStops = 1
INVARIANTS
    RowsAgree
PROPERTIES
    ResumedOnlyWhenSatisfied
    
