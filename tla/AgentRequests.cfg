SPECIFICATION Spec
CONSTANTS
    Request = {q1}
    Run = {r1, r2, r3}
    None = None
    MaxAttempts = 2
    MaxRevisions = 1
    MaxStops = 1
    MaxAborts = 1
SYMMETRY Symmetry
INVARIANTS
    ReviewedProposalIsOpen
    ApprovedIsWritten
    EndedRequestClosesSession
    
