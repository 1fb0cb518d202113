SPECIFICATION Spec
CONSTANTS
    m1 = m1
    p1 = p1
    p2 = p2
    Messages <- MCMessages
    Processes <- MCProcesses
    Nobody = Nobody
    NoMessage = NoMessage
    MaxUpdates = 2
    MaxAttempts = 2
    MaxRetries = 1
SYMMETRY Symmetry
INVARIANTS
    NewestIsKept
CHECK_DEADLOCK FALSE
