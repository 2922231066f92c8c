CONSTANTS
    Attempts = {p1, p2, p3}
    NoAttempt = NoAttempt
    MaxProcs = 2
    WarnAt = 2
    Protected = 1
    Managed = {p1}
    MaxWriting = 1
SPECIFICATION Spec
INVARIANTS
    EndOnce
    StoreBounded
    LiveReachable
    AttemptsReleased
CHECK_DEADLOCK FALSE
SYMMETRY Symmetry
