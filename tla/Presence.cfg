SPECIFICATION Spec
CONSTANTS
    None = None
    Start = 1
    End = 5
    EarlyJoin = 1
    LateJoin = 1
    NoShowTimeout = 2
    Horizon = 7
    MaxLoads = 2
    MaxLeaves = 1
INVARIANTS
    CountedAsSeen
    SteadyPresenceCounts
PROPERTIES
    CountFinal
\* The model stops when its clock does.
CHECK_DEADLOCK FALSE
