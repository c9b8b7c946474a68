SPECIFICATION StorySpec
CONSTANTS
    None = None
    s1 = s1
    s2 = s2
    i1 = i1
    i2 = i2
    i3 = i3
    Subs <- MCSubs
    Plan <- MCPlan
    Bundles = {o1}
    MaxAgain = 1
    MaxInvoices <- MCOnce
    Horizon = 2
    Monthly = 2
    Pack = 3
    StarterQuota = 1
    Starts <- MCStarts
    Cost <- MCCost
    Free = 1
    MaxBroken = 1
INVARIANTS
    
    
    LastStartServes
    
    
PROPERTIES
    PaidTakesEffect
    SubscriptionEnds
CHECK_DEADLOCK FALSE
