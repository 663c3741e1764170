SPECIFICATION Spec
CONSTANTS
    Execs = {e1}
    Privileged = {}
    MaxConcurrentExecs = 1
    MaxStdout = 2
    MaxWrites = 2
    PersistsResults = FALSE
    NoResult = NoResult
INVARIANT StdoutMatchesOutput
CHECK_DEADLOCK FALSE
