SPECIFICATION FairSpec
CONSTANTS
    Sessions = {s1}
    Writers = {w1, w2}
    LogLimit = 3
    PageSizes = {1, 2}
    MaxCursor = 6
INVARIANTS
    LogIsTail
    EndIsEnd
PROPERTIES
    CursorsStable
    ReaderSeesOnce
    ImplementsLogContract
    EntriesReachReader
CHECK_DEADLOCK FALSE
