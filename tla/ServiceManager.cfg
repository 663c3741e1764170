SPECIFICATION FairSpec
CONSTANTS
    Services = {s1, s2, s3, s4}
    MaxConcurrentServices = 2
    Privileged = {s1}
INVARIANTS
    UnstoppedBounded
    ExitToldOnce
PROPERTY GoneIsTold
CHECK_DEADLOCK FALSE
