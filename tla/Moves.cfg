SPECIFICATION Spec
CONSTANTS
    None = None
    candidate = candidate
    interviewer = interviewer
    other = other
    s1 = s1
    s2 = s2
    s3 = s3
    Users = {candidate, interviewer, other}
    Bookings = {b1, b2}
    Slots = {s1, s2, s3}
    Owner <- MCOwner
    Start <- MCStart
    End <- MCEnd
    ServerStart <- MCServerStart
    ServerEnd <- MCServerEnd
    MaxBookings <- MCMaxBookings
    Cost <- MCCost
    InitialBalance <- MCInitialBalance
    CancelNotice = 1
    RescheduleNotice = 1
    RequestNotice = 1
    RescheduleLimit = 1
    EarlyJoin = 0
    LateJoin = 1
    NoShowTimeout = 1
    EvaluationWindow = 1
    Horizon = 1
    MaxReschedules = 2
    MaxRequests = 2

    
PROPERTIES
    PlacesSpec
SYMMETRY BookingSymmetry
\* The model stops when its clock does.
CHECK_DEADLOCK FALSE
