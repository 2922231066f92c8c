CONSTANTS
    Attempts = {p1, p2}
    NoAttempt = NoAttempt
    MaxProcs = 1
    WarnAt = 1
    Protected = 0
    Managed = {p1}
    MaxWriting = 2
SPECIFICATION FairSpec
PROPERTIES
    EndReported
    DenialKills
CHECK_DEADLOCK FALSE
