SPECIFICATION InterviewFairSpec
CONSTANTS
    Idle = Idle
    Questions = 1
    MaxRetries = 3
    MaxFaults = 0
    MaxResets = 0
    MaxVisits = 1
PROPERTIES
    CompletionReported
\* An interview ends for good.
CHECK_DEADLOCK FALSE
