SPECIFICATION Spec
CONSTANTS
    ReconnectDelay = 3
    MaxReconnectDelay = 10
    JitterPercent = 25
    MaxAttempts = 3
    Missing = Missing
    Empty = Empty
    Garbled = Garbled
INVARIANT InfoTellsConnection
CHECK_DEADLOCK FALSE
