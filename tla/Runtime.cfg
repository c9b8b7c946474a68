SPECIFICATION FairSpec
CONSTANTS
    None = None
    Runtimes = {r1, r2}
    Planned = 2
    Lease = 1
    Horizon = 2
INVARIANTS
    OneLease
    

    
\* The model stops when its clock does.
CHECK_DEADLOCK FALSE
