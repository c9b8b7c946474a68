SPECIFICATION FairSpec
CONSTANTS
    None = None
    candidate = candidate
    interviewer = interviewer
    Admins = {a1}
    i1 = i1
    i2 = i2
    i3 = i3
    Issues <- MCIssueIds
    Raiser <- MCRaiser
    Cost = 2
    InitialBalance = 2
    Suspension = 1
    Horizon = 3
    MaxActions = 2
INVARIANTS
    OneActiveIssue
    BalancesExplained
    

    
\* The model stops when its clock does.
CHECK_DEADLOCK FALSE
