CONSTANTS
    a1 = a1
    a2 = a2
    c1 = c1
    c2 = c2
    Attempts = {a1, a2}
    NoAttempt = NoAttempt
    Requests = {r1, r2}
    NoRequest = NoRequest
    Hosts = {h1}
    CallOf <- TwoCalls
    MaxTurns = 2
SPECIFICATION FairSpec
INVARIANTS
    WaitingIsPending
    DenialKept
    AnswersStayWithCall
PROPERTY OrphansDecided
CHECK_DEADLOCK FALSE
