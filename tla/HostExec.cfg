SPECIFICATION FairSpec
CONSTANTS
    Execs = {e1, e2, p1}
    Privileged = {p1}
    MaxConcurrentExecs = 1
    MaxStdout = 0
    MaxWrites = 1
    PersistsResults = TRUE
    NoResult = NoResult
INVARIANTS
    TypeOK
    StatusIsHonest
    SlotInv
    ConcurrencyBound
PROPERTIES
    ResultsAreFinal
    ImplementsContract
CHECK_DEADLOCK FALSE
