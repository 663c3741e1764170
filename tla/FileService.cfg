SPECIFICATION Spec
CONSTANTS
    Requests = {r1, r2, r3}
    Old = Old
    Huge = Huge
    Missing = Missing
    Empty = Empty
    Garbled = Garbled
    None = None
    MaxKills = 1
INVARIANTS
    TornMeansWriters
PROPERTIES
    IsolatedIsAtomic
    ExclusiveSparesOld
CHECK_DEADLOCK FALSE
