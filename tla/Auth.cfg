SPECIFICATION FairSpec
CONSTANTS
    None = None
    t1 = t1
    t2 = t2
    a = a
    b = b
    Tabs = {t1, t2}
    Calls = {a, b}
    Plans <- MCPlans
    Expiring = 2
INVARIANTS
    SessionKept
PROPERTIES
    CallsSurvive
    CallsSettle
\* The users' plans come to an end.
CHECK_DEADLOCK FALSE
