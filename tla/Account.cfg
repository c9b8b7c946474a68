SPECIFICATION AccountFairSpec
CONSTANTS
    Nothing = Nothing
    Tabs = {t1, t2}
    Admins = {a1, a2}
    Checkouts = {c1, c2}
    Flags = {public}
    Cycle = 1
    LastDay = 2
INVARIANTS
    AccountFollowsDecision
    PublicIsPaidFor
PROPERTIES
    SubscriptionTakesItsCourse
\* The clock stops, and nobody has to act.
CHECK_DEADLOCK FALSE
