SPECIFICATION FairSpec
CONSTANTS
    None = None
    candidate = candidate
    interviewer = interviewer
    SlotPlaces = 1
    Users = {candidate, interviewer}
    Bookings = {b1}
    Slots = {s1}
    Owner <- MCOwner
    Start <- MCStart
    End <- MCEnd
    ServerStart <- MCStart
    ServerEnd <- MCEnd
    MaxBookings <- MCMaxBookings
    Cost <- MCCost
    InitialBalance <- MCInitialBalance
    CancelNotice = 2
    RescheduleNotice = 2
    RequestNotice = 2
    RescheduleLimit = 1
    EarlyJoin = 1
    LateJoin = 1
    NoShowTimeout = 1
    EvaluationWindow = 1
    Horizon = 6
    MaxReschedules = 1
    MaxRequests = 3
INVARIANTS
    StatusMatchesRoom
    PaidForEvaluation
PROPERTIES
    RoomOutcomeFinal
    LiveRoomEnds
    AwaitingIsSettled
\* The model stops when its clock does.
CHECK_DEADLOCK FALSE
