SPECIFICATION FairSpec
CONSTANTS
    Procs = {p1}
    MaxKeys = 3
    MaxCreds = 4
    MaxCrashes = 2
    MaxResets = 1
    CrashTears = TRUE
    Missing = Missing
    Empty = Empty
    NotRead = NotRead
INVARIANTS
    CredentialWhole
    EnrolledKeyKept
PROPERTIES
    ResetCleans
    ApprovedNodeConnects
CHECK_DEADLOCK FALSE
