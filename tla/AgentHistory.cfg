SPECIFICATION HistoryFairSpec
CONSTANTS
    e1 = e1
    j1 = j1
    Execs = {e1, s1}
    SessionExecs = {s1}
    Jobs = {j1}
    JobOf <- MCJobOf
    NoJob = NoJob
    MaxAborts = 2
    MaxSockets = 2
    Privileged = {s1}
    MaxConcurrentExecs = 2
    MaxStdout = 0
    MaxWrites = 0
    PersistsResults = TRUE
    NoResult = NoResult
    HistoryLimit = 2
    Earlier = {h1}
    Missing = Missing
    Empty = Empty
    Garbled = Garbled
INVARIANTS
    JobTableTracksRuns
    ErrorMeansNotRun
    ReplyFreesSlot
    HistoryTellsRuns
PROPERTIES
    AbortReachesRun
    EveryRequestAnswered
CHECK_DEADLOCK FALSE
