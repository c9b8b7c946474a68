SPECIFICATION InterviewFairSpec
CONSTANTS
    Idle = Idle
    Questions = 2
    MaxRetries = 1
    MaxFaults = 1
    MaxResets = 1
    MaxVisits = 2

    
PROPERTIES
    SuccessKept
    StuckRecovered
    
\* An interview ends for good.
CHECK_DEADLOCK FALSE
