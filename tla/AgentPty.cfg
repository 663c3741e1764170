SPECIFICATION FairSpec
CONSTANTS
    Ptys = {p1, p2}
    MaxPtys = 1
    ReconnectDelay = 3
    MaxReconnectDelay = 10
    JitterPercent = 25
    MaxAttempts = 4
INVARIANTS
    OneLiveSocket
    ReportedTruth
    BackoffLaw
    EventsOnOwnConnection
    PtysEndWithConnection
    SessionsBounded
PROPERTIES
    AbortEndsAttempts
    KeepsConnecting
    NothingAfterExit
    ExitObserved
CHECK_DEADLOCK FALSE
