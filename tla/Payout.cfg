SPECIFICATION Spec
CONSTANTS
    None = None
    interviewer = interviewer
    peer = peer
    Tabs = {t1, t2}
    Admins = {a1, a2}
    Requests = {r1, r2}
    Amounts = {2, 3}
    MinTokens = 2
    Booked = {b1}
    Hosted = {h1}
    Cost = 2
    InitialBalance = 4
INVARIANTS
    OneActivePayout
    TokensAccountedFor
PROPERTIES
    DecisionsFinal
SYMMETRY PageSymmetry
