SPECIFICATION ConnSpec
CONSTANTS
    ReconnectDelay = 3
    MaxReconnectDelay = 10
    JitterPercent = 25
    MaxAttempts = 4
PROPERTIES
    DisconnectBacksOff
CHECK_DEADLOCK FALSE
