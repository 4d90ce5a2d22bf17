SPECIFICATION FairSpec
CONSTANTS
    a = a
    b = b
    n = n
    NoDoc = NoDoc
    Doc <- MCDoc
    First = a
    Fresh = {n}
    Parent <- MCParent
    MaxInputs = 3
    MaxFaults = 1
INVARIANTS
    TextStaysInItsDocument
    DirtyIsScheduled
PROPERTIES
    TrashIsKept
    PagesPrecedeTheirParent
    ActionEnds
CHECK_DEADLOCK FALSE
