-------------------------- MODULE BookingLifecycle --------------------------
(***************************************************************************)
(* The life of an interview booking: the candidate's tokens are locked     *)
(* when it is created, both sides meet in a room, and the tokens end with  *)
(* the interviewer or back with the candidate.                             *)
(*                                                                         *)
(* A handler that holds the booking's row lock from its first read to its  *)
(* commit is one action.  A handler that reads the booking before it locks *)
(* anything is two or three: the unlocked read leaves a record in          *)
(* "requests" with all the later steps still know of it.                   *)
(***************************************************************************)
EXTENDS TokenService, FiniteSets

CONSTANTS
    Bookings,        \* primary keys of InterviewBooking rows
    Slots,           \* InterviewerAvailability rows
    Users,           \* every user has one wallet
    None,            \* SQL NULL
    Owner,           \* slot -> its interviewer
    Start, End,      \* slot -> its hours, read in the slot's own timezone
    ServerStart,     \* slot -> its hours, read in the TIME_ZONE of the
    ServerEnd,       \*         server, as every reschedule does
    MaxBookings,     \* slot -> max_bookings
    Cost,            \* slot -> token_cost_for(base_session_rate)
    InitialBalance,  \* user -> tokens bought or granted beforehand
    CancelNotice,    \* candidates cancel up to 5 hours before the start
    RescheduleNotice,\* RESCHEDULE_LIMIT_HOURS (3)
    RequestNotice,   \* RESCHEDULE_MIN_HOURS_AHEAD (2)
    RescheduleLimit, \* RESCHEDULE_LIMIT (2)
    EarlyJoin,       \* EARLY_JOIN_MINUTES (10)
    LateJoin,        \* LATE_JOIN_MINUTES (15)
    NoShowTimeout,   \* NO_SHOW_TIMEOUT_MINUTES (15)
    EvaluationWindow,\* EVALUATION_DEADLINE_HOURS (24)
    Horizon,         \* bound: the clock stops here
    MaxReschedules,  \* bound: direct moves stop at this count
    MaxRequests      \* bound: requests between their read and their commit

Time == 0..Horizon
Roles == {"candidate", "interviewer"}

Status == {"ABSENT", "CONFIRMED", "LIVE", "COMPLETED",
           "CANCELLED_BY_CANDIDATE", "CANCELLED_BY_INTERVIEWER",
           "CANDIDATE_NO_SHOW", "INTERVIEWER_NO_SHOW"}

PaymentStatus == {"PENDING", "AWAITING_EVALUATION",
                  "PAID_TO_INTERVIEWER", "REFUNDED_TO_CANDIDATE"}

SessionStatus == {"ABSENT", "CREATED", "LIVE", "ENDED", "NO_SHOW"}

\* Kinds of TokenTransaction that settle a booking.  COMPLETE_EARN is the
\* SESSION_EARN row of the /complete/ endpoint, whose reference_id is
\* "booking_<id>"; the other SESSION_EARN and REFUND carry "<id>".
Entries == {"BOOKING_RELEASE", "BOOKING_CANCEL_INTERVIEWER",
            "COMPLETE_EARN", "SESSION_EARN", "REFUND"}

ASSUME ConfigAssumption ==
    /\ IsFiniteSet(Bookings)
    /\ None \notin Nat \cup Slots \cup Users
    /\ Owner \in [Slots -> Users]
    /\ Start \in [Slots -> Nat] /\ End \in [Slots -> Nat]
    /\ ServerStart \in [Slots -> Nat] /\ ServerEnd \in [Slots -> Nat]
    /\ MaxBookings \in [Slots -> Nat]
    /\ Cost \in [Slots -> Nat]
    /\ InitialBalance \in [Users -> Nat]

ASSUME TimingAssumption ==
    /\ CancelNotice \in Nat /\ RescheduleNotice \in Nat
    /\ RequestNotice \in Nat /\ RescheduleLimit \in Nat
    /\ EarlyJoin \in Nat /\ LateJoin \in Nat
    /\ NoShowTimeout \in Nat /\ EvaluationWindow \in Nat
    /\ Horizon \in Nat /\ MaxReschedules \in Nat /\ MaxRequests \in Nat
    /\ EarlyJoin < RequestNotice            \* 10 minutes, 2 hours,
    /\ RequestNotice <= RescheduleNotice    \* 3 hours,
    /\ RescheduleNotice <= CancelNotice     \* 5 hours

VARIABLES
    now,
    is_active,       \* slot -> not soft-deleted
    party,           \* booking -> its candidate, interviewer and token_cost
    status,
    availability,    \* booking -> slot
    payment_status,
    evaluation_deadline,
    cancelled_at,    \* booking -> was it ever cancelled
    reschedule,      \* booking -> [pending, proposed, count]
    evaluation,      \* booking -> created_at of its CandidateEvaluation
    session,         \* booking -> its InterviewSession row
    wallet,
    ledger,          \* booking -> how many entries of each kind name it
    requests         \* handlers that have read and not yet committed

bookingVars == <<party, status, availability, payment_status,
                 evaluation_deadline, cancelled_at, reschedule>>
moneyVars == <<wallet, ledger>>
vars == <<now, is_active, bookingVars, evaluation, session, moneyVars, requests>>

-----------------------------------------------------------------------------
(* Helpers *)

NoParty == [candidate |-> None, interviewer |-> None, token_cost |-> 0]
Party == [candidate : Users, interviewer : Users, token_cost : Nat]
Reschedule == [pending : BOOLEAN, proposed : Slots \cup {None}, count : Nat]
Session == [status : SessionStatus, connected : SUBSET Roles,
            interviewer_finished : BOOLEAN]

\* What each kind of request remembers of its unlocked read.
Requests ==
    [op : {"join"}, booking : Bookings, role : Roles]
    \cup [op : {"reschedule_request"}, booking : Bookings, slot : Slots]
    \cup [op : {"accept"}, booking : Bookings]
    \cup [op : {"evaluate"}, booking : Bookings, status : Status,
          payment_status : PaymentStatus, deadline : Nat \cup {None}]
    \cup [op : {"settle"}, booking : Bookings,
          outcome : {"skip", "refund", "pay"}, at : Nat]

\* start_datetime and end_datetime: Create localizes the slot's hours in the
\* slot's timezone, both ways of moving a booking use make_aware.
Moved(b) == reschedule[b].count > 0
StartOf(b) == IF Moved(b) THEN ServerStart[availability[b]] ELSE Start[availability[b]]
EndOf(b) == IF Moved(b) THEN ServerEnd[availability[b]] ELSE End[availability[b]]
Candidate(b) == party[b].candidate
TokenCost(b) == party[b].token_cost

Occupying == {"CONFIRMED", "COMPLETED", "LIVE"}
Occupants(s) == {b \in Bookings : availability[b] = s /\ status[b] \in Occupying}

HasCapacity(s) == Cardinality(Occupants(s)) < MaxBookings[s]

\* A handler reads, and leaves what it read behind.
Begin(r) ==
    /\ r \notin requests
    /\ Cardinality(requests) < MaxRequests
    /\ requests' = requests \cup {r}

Done(r) == requests' = requests \ {r}

Record(b, entry) == ledger' = [ledger EXCEPT ![b][entry] = @ + 1]

\* Unlock the candidate's tokens and write the ledger row.
Unlock(b, entry) ==
    /\ CanTakeLocked(wallet, Candidate(b), TokenCost(b))
    /\ wallet' = UnlockTokens(wallet, Candidate(b), TokenCost(b))
    /\ Record(b, entry)

\* Spend the candidate's locked tokens into the interviewer's wallet.
Transfer(b, entry) ==
    /\ CanTakeLocked(wallet, Candidate(b), TokenCost(b))
    /\ wallet' = TransferLockedTokens(wallet, Candidate(b),
                                      party[b].interviewer, TokenCost(b))
    /\ Record(b, entry)

-----------------------------------------------------------------------------
(* Handlers that lock the booking before they read it *)

\* POST create-booking/.  Nothing compares the slot's time with the clock,
\* and the subscription pre-check only narrows who may call.
Create(b, c, s) ==
    /\ status[b] = "ABSENT"
    /\ c # Owner[s]
    /\ is_active[s] /\ HasCapacity(s)
    /\ CanLock(wallet, c, Cost[s])
    /\ wallet' = LockTokens(wallet, c, Cost[s])
    /\ party' = [party EXCEPT ![b] = [candidate |-> c, interviewer |-> Owner[s],
                                      token_cost |-> Cost[s]]]
    /\ status' = [status EXCEPT ![b] = "CONFIRMED"]
    /\ availability' = [availability EXCEPT ![b] = s]
    /\ UNCHANGED <<now, is_active, payment_status, evaluation_deadline,
                   cancelled_at, reschedule, evaluation, session, ledger, requests>>

\* What both cancellations write; neither touches payment_status, the
\* pending reschedule request or the session.
Cancel(b, newStatus, entry) ==
    /\ Unlock(b, entry)
    /\ status' = [status EXCEPT ![b] = newStatus]
    /\ cancelled_at' = [cancelled_at EXCEPT ![b] = TRUE]
    /\ UNCHANGED <<now, is_active, party, availability, payment_status,
                   evaluation_deadline, reschedule, evaluation, session, requests>>

CancelByCandidate(b) ==
    /\ status[b] = "CONFIRMED"
    /\ now < StartOf(b)
    /\ now + CancelNotice <= StartOf(b)
    /\ Cancel(b, "CANCELLED_BY_CANDIDATE", "BOOKING_RELEASE")

\* Mutant: the status is not looked at.
CancelAgainByInterviewer(b) ==
    /\ status[b] # "ABSENT"
    /\ now < StartOf(b)
    /\ Cancel(b, "CANCELLED_BY_INTERVIEWER", "BOOKING_CANCEL_INTERVIEWER")

CancelByInterviewer(b) ==
    /\ status[b] = "CONFIRMED"
    /\ now < StartOf(b)
    /\ Cancel(b, "CANCELLED_BY_INTERVIEWER", "BOOKING_CANCEL_INTERVIEWER")

\* The interviewer marks a past, still CONFIRMED booking completed and is
\* paid at once; payment_status stays PENDING.
Complete(b) ==
    /\ status[b] = "CONFIRMED"
    /\ EndOf(b) <= now
    /\ Transfer(b, "COMPLETE_EARN")
    /\ status' = [status EXCEPT ![b] = "COMPLETED"]
    /\ UNCHANGED <<now, is_active, party, availability, payment_status,
                   evaluation_deadline, cancelled_at, reschedule,
                   evaluation, session, requests>>

\* Mutant: any interviewer's slot will do.
MayMoveToAnyone(b, s) ==
    /\ s # availability[b]
    /\ is_active[s] /\ HasCapacity(s)
    /\ now < ServerStart[s]

\* CandidateRescheduleSerializer, repeated under the slot's lock.
MayMoveTo(b, s) ==
    /\ Owner[s] = Owner[availability[b]] /\ s # availability[b]
    /\ is_active[s] /\ HasCapacity(s)
    /\ now < ServerStart[s]

\* The candidate moves the booking without asking; the reschedule limit is
\* not consulted and a pending request is left pending.
CandidateReschedule(b, s) ==
    /\ status[b] = "CONFIRMED"
    /\ now < StartOf(b)
    /\ now + RescheduleNotice <= StartOf(b)
    /\ MayMoveTo(b, s)
    /\ reschedule[b].count < MaxReschedules
    /\ availability' = [availability EXCEPT ![b] = s]
    /\ reschedule' = [reschedule EXCEPT ![b].count = @ + 1]
    /\ UNCHANGED <<now, is_active, party, status, payment_status,
                   evaluation_deadline, cancelled_at, evaluation, session,
                   moneyVars, requests>>

\* The guard is checked again under the lock, so the unlocked check of the
\* same condition adds nothing.
RejectReschedule(b) ==
    /\ reschedule[b].pending
    /\ reschedule' = [reschedule EXCEPT ![b].pending = FALSE, ![b].proposed = None]
    /\ UNCHANGED <<now, is_active, party, status, availability, payment_status,
                   evaluation_deadline, cancelled_at, evaluation, session,
                   moneyVars, requests>>

\* Soft delete; bookings on the slot survive it.
DeactivateSlot(s) ==
    /\ is_active[s]
    /\ is_active' = [is_active EXCEPT ![s] = FALSE]
    /\ UNCHANGED <<now, bookingVars, evaluation, session, moneyVars, requests>>

\* The "Finish Interview" button of the interviewer, in any session status.
FinishInterview(b) ==
    /\ session[b].status # "ABSENT"
    /\ session' = [session EXCEPT ![b].interviewer_finished = TRUE]
    /\ UNCHANGED <<now, is_active, bookingVars, evaluation, moneyVars, requests>>

-----------------------------------------------------------------------------
(* Handlers that read before they lock *)

\* RescheduleRequestSerializer.validate, on an unlocked booking and slot.
ReadRescheduleRequest(b, s) ==
    /\ status[b] = "CONFIRMED"
    /\ ~reschedule[b].pending
    /\ reschedule[b].count < RescheduleLimit
    /\ now + RequestNotice <= StartOf(b)
    /\ Owner[s] = party[b].interviewer /\ s # availability[b]
    /\ is_active[s] /\ HasCapacity(s)
    /\ now < ServerStart[s]
    /\ Begin([op |-> "reschedule_request", booking |-> b, slot |-> s])
    /\ UNCHANGED <<now, is_active, bookingVars, evaluation, session, moneyVars>>

\* Only these three conditions are checked again under the locks.
MayPropose(r) ==
    /\ ~reschedule[r.booking].pending
    /\ is_active[r.slot]
    /\ HasCapacity(r.slot)

CommitRescheduleRequest(r) ==
    /\ r.op = "reschedule_request"
    /\ Done(r)
    /\ \/ /\ MayPropose(r)
          /\ reschedule' = [reschedule EXCEPT ![r.booking].pending = TRUE,
                                              ![r.booking].proposed = r.slot]
       \/ /\ ~MayPropose(r)
          /\ UNCHANGED reschedule
    /\ UNCHANGED <<now, is_active, party, status, availability, payment_status,
                   evaluation_deadline, cancelled_at, evaluation, session, moneyVars>>

ReadAccept(b) ==
    /\ reschedule[b].pending
    /\ reschedule[b].proposed # None
    /\ status[b] = "CONFIRMED"
    /\ Begin([op |-> "accept", booking |-> b])
    /\ UNCHANGED <<now, is_active, bookingVars, evaluation, session, moneyVars>>

\* Mutant: the place offered when the request was made is taken for granted.
MayAcceptWithoutPlace(b) ==
    /\ reschedule[b].pending
    /\ is_active[reschedule[b].proposed]

\* The booking's status and the slot's time are not looked at again.
MayAccept(b) ==
    /\ reschedule[b].pending
    /\ is_active[reschedule[b].proposed]
    /\ HasCapacity(reschedule[b].proposed)

CommitAccept(r) ==
    LET b == r.booking IN
    /\ r.op = "accept"
    /\ Done(r)
    /\ \/ /\ MayAccept(b)
          /\ availability' = [availability EXCEPT ![b] = reschedule[b].proposed]
          /\ reschedule' = [reschedule EXCEPT ![b] =
                [pending |-> FALSE, proposed |-> None, count |-> @.count + 1]]
       \/ /\ ~MayAccept(b)
          /\ UNCHANGED <<availability, reschedule>>
    /\ UNCHANGED <<now, is_active, party, status, payment_status,
                   evaluation_deadline, cancelled_at, evaluation, session, moneyVars>>

\* GET token/: the participant asks for a room token.
ReadJoin(b, role) ==
    /\ status[b] \in {"CONFIRMED", "LIVE"}
    /\ StartOf(b) <= now + EarlyJoin
    /\ now <= EndOf(b) + LateJoin
    /\ Begin([op |-> "join", booking |-> b, role |-> role])
    /\ UNCHANGED <<now, is_active, bookingVars, evaluation, session, moneyVars>>

\* Mutant: the room's own status is not looked at.
GoesLiveAgain(b, connected) == connected = Roles

\* CREATED turns LIVE once both sides have connected.
GoesLive(b, connected) ==
    connected = Roles /\ session[b].status \in {"ABSENT", "CREATED"}

\* handle_connect locks the session only; when the second side arrives it
\* writes LIVE over whatever status the booking has by then.
CommitJoin(r) ==
    LET b == r.booking
        connected == session[b].connected \cup {r.role}
    IN
    /\ r.op = "join"
    /\ Done(r)
    /\ session' = [session EXCEPT
          ![b].status = IF GoesLive(b, connected) THEN "LIVE"
                        ELSE IF @ = "ABSENT" THEN "CREATED" ELSE @,
          ![b].connected = connected]
    /\ status' = IF GoesLive(b, connected) THEN [status EXCEPT ![b] = "LIVE"] ELSE status
    /\ UNCHANGED <<now, is_active, party, availability, payment_status,
                   evaluation_deadline, cancelled_at, reschedule, evaluation,
                   moneyVars>>

-----------------------------------------------------------------------------
(* Settlement *)

\* _refund_candidate in its own savepoint: when the wallet does not hold
\* the tokens it raises, the caller logs it, and nothing is written.
Refund(b) ==
    \/ /\ Unlock(b, "REFUND")
       /\ payment_status' = [payment_status EXCEPT ![b] = "REFUNDED_TO_CANDIDATE"]
    \/ /\ ~CanTakeLocked(wallet, Candidate(b), TokenCost(b))
       /\ UNCHANGED <<payment_status, moneyVars>>

\* The paying half of settle_after_evaluation, with its ledger check.
Pay(b) ==
    \/ /\ ledger[b]["SESSION_EARN"] = 0
       /\ Transfer(b, "SESSION_EARN")
       /\ payment_status' = [payment_status EXCEPT ![b] = "PAID_TO_INTERVIEWER"]
    \/ /\ \/ ledger[b]["SESSION_EARN"] > 0
          \/ ~CanTakeLocked(wallet, Candidate(b), TokenCost(b))
       /\ UNCHANGED <<payment_status, moneyVars>>

\* Mutant: the deadline guard is gone.
OutcomeWithoutDeadline(paymentStatus, deadline) ==
    IF paymentStatus # "AWAITING_EVALUATION" THEN "skip" ELSE "pay"

\* The two guards of settle_after_evaluation, on the booking object the
\* caller holds.
Outcome(paymentStatus, deadline) ==
    IF paymentStatus # "AWAITING_EVALUATION" THEN "skip"
    ELSE IF deadline # None /\ now > deadline THEN "refund"
    ELSE "pay"

Settle(b, outcome) ==
    \/ outcome = "skip" /\ UNCHANGED <<payment_status, moneyVars>>
    \/ outcome = "refund" /\ Refund(b)
    \/ outcome = "pay" /\ Pay(b)

\* The view fetches the booking before the transaction begins ...
ReadEvaluation(b) ==
    /\ status[b] # "ABSENT"
    /\ Begin([op |-> "evaluate", booking |-> b, status |-> status[b],
              payment_status |-> payment_status[b],
              deadline |-> evaluation_deadline[b]])
    /\ UNCHANGED <<now, is_active, bookingVars, evaluation, session, moneyVars>>

MayEvaluate(r) ==
    /\ evaluation[r.booking] = None
    /\ \/ r.status = "COMPLETED"
       \/ session[r.booking].interviewer_finished

\* ... then create_evaluation checks that it may, inserts a row nobody else
\* sees yet, and decides what to settle from the copy it was given ...
DecideEvaluation(r) ==
    /\ r.op = "evaluate"
    /\ \/ /\ MayEvaluate(r)
          /\ requests' = (requests \ {r}) \cup
                {[op |-> "settle", booking |-> r.booking,
                  outcome |-> Outcome(r.payment_status, r.deadline), at |-> now]}
       \/ /\ ~MayEvaluate(r)
          /\ Done(r)
    /\ UNCHANGED <<now, is_active, bookingVars, evaluation, session, moneyVars>>

\* The payment locks the wallets and then the booking, the expired-deadline
\* job the booking and then the wallet: when they meet, the database aborts
\* one of them, and the signal handler swallows an aborted payment.
DeadlockVictim(b, outcome) ==
    /\ outcome = "pay"
    /\ payment_status[b] = "AWAITING_EVALUATION"
    /\ evaluation_deadline[b] < now
    /\ UNCHANGED <<payment_status, moneyVars>>

\* ... and commits the row together with the settlement.  A second row for
\* the same booking violates the one-to-one key and rolls everything back.
CommitEvaluation(r) ==
    LET b == r.booking IN
    /\ r.op = "settle"
    /\ Done(r)
    /\ \/ /\ evaluation[b] = None
          /\ evaluation' = [evaluation EXCEPT ![b] = r.at]
          /\ Settle(b, r.outcome) \/ DeadlockVictim(b, r.outcome)
       \/ /\ evaluation[b] # None
          /\ UNCHANGED <<evaluation, payment_status, moneyVars>>
    /\ UNCHANGED <<now, is_active, party, status, availability,
                   evaluation_deadline, cancelled_at, reschedule, session>>

-----------------------------------------------------------------------------
(* cleanup_stale_sessions, run by Celery beat every minute.  It locks      *)
(* session and booking rows with skip_locked, so one run handles any       *)
(* subset of the eligible rows: each row is a step of its own.             *)

\* Mutant: a run of the job that comes late finds nothing to do.
EndsRightNow(b) == EndOf(b) = now

TimeIsUp(b) == EndOf(b) <= now

\* check_session_end_by_time and settle_session_payment.  Whether the
\* interviewer's recorded presence reaches half of the schedule is left open.
EndByTime(b) ==
    /\ session[b].status = "LIVE"
    /\ TimeIsUp(b)
    /\ session' = [session EXCEPT ![b].status = "ENDED"]
    /\ status' = [status EXCEPT ![b] = "COMPLETED"]
    /\ \/ /\ payment_status[b] # "PENDING"
          /\ UNCHANGED <<payment_status, evaluation_deadline, moneyVars>>
       \/ /\ payment_status[b] = "PENDING"
          /\ Refund(b)
          /\ UNCHANGED evaluation_deadline
       \/ /\ payment_status[b] = "PENDING"
          /\ payment_status' = [payment_status EXCEPT ![b] = "AWAITING_EVALUATION"]
          /\ evaluation_deadline' = [evaluation_deadline EXCEPT ![b] = now + EvaluationWindow]
          /\ UNCHANGED moneyVars
    /\ UNCHANGED <<now, is_active, party, availability, cancelled_at,
                   reschedule, evaluation, requests>>

\* check_no_show and handle_no_show_refund.  The booking's status is
\* overwritten whatever it is, and the refund looks for a REFUND entry only.
NoShow(b) ==
    /\ session[b].status = "CREATED"
    /\ StartOf(b) + NoShowTimeout <= now
    /\ session[b].connected # Roles
    /\ session' = [session EXCEPT ![b].status = "NO_SHOW"]
    /\ status' = [status EXCEPT ![b] =
          IF session[b].connected = {"interviewer"}
          THEN "CANDIDATE_NO_SHOW" ELSE "INTERVIEWER_NO_SHOW"]
    /\ \/ /\ payment_status[b] = "PENDING" /\ ledger[b]["REFUND"] = 0
          /\ Refund(b)
       \/ /\ payment_status[b] # "PENDING" \/ ledger[b]["REFUND"] > 0
          /\ UNCHANGED <<payment_status, moneyVars>>
    /\ UNCHANGED <<now, is_active, party, availability, evaluation_deadline,
                   cancelled_at, reschedule, evaluation, requests>>

\* Mutant: evaluated bookings are left out.
ExpiredUnevaluated(b) ==
    /\ payment_status[b] = "AWAITING_EVALUATION"
    /\ evaluation_deadline[b] < now
    /\ evaluation[b] = None

\* The query of refund_expired_deadlines.
Expired(b) ==
    /\ payment_status[b] = "AWAITING_EVALUATION"
    /\ evaluation_deadline[b] < now

\* Mutant: every booking past its deadline is refunded, settled or not.
RefundEveryExpired(b) ==
    /\ evaluation_deadline[b] # None
    /\ evaluation_deadline[b] < now
    /\ Refund(b)
    /\ UNCHANGED <<now, is_active, party, status, availability,
                   evaluation_deadline, cancelled_at, reschedule, evaluation,
                   session, requests>>

\* refund_expired_deadlines.
RefundExpired(b) ==
    /\ Expired(b)
    /\ \/ /\ evaluation[b] # None
          /\ Settle(b, Outcome(payment_status[b], evaluation_deadline[b]))
       \/ /\ evaluation[b] = None
          /\ Refund(b)
    /\ UNCHANGED <<now, is_active, party, status, availability,
                   evaluation_deadline, cancelled_at, reschedule, evaluation,
                   session, requests>>

Tick ==
    /\ now < Horizon
    /\ now' = now + 1
    /\ UNCHANGED <<is_active, bookingVars, evaluation, session, moneyVars, requests>>

-----------------------------------------------------------------------------
(* Specification *)

Init ==
    /\ now = 0
    /\ is_active = [s \in Slots |-> TRUE]
    /\ party = [b \in Bookings |-> NoParty]
    /\ status = [b \in Bookings |-> "ABSENT"]
    /\ availability = [b \in Bookings |-> None]
    /\ payment_status = [b \in Bookings |-> "PENDING"]
    /\ evaluation_deadline = [b \in Bookings |-> None]
    /\ cancelled_at = [b \in Bookings |-> FALSE]
    /\ reschedule = [b \in Bookings |-> [pending |-> FALSE, proposed |-> None, count |-> 0]]
    /\ evaluation = [b \in Bookings |-> None]
    /\ session = [b \in Bookings |-> [status |-> "ABSENT", connected |-> {},
                                      interviewer_finished |-> FALSE]]
    /\ wallet = [u \in Users |-> [balance |-> InitialBalance[u], locked_balance |-> 0]]
    /\ ledger = [b \in Bookings |-> [e \in Entries |-> 0]]
    /\ requests = {}

Candidates(b) ==
    \/ \E c \in Users, s \in Slots : Create(b, c, s)
    \/ CancelByCandidate(b)
    \/ \E s \in Slots : CandidateReschedule(b, s)
    \/ \E s \in Slots : ReadRescheduleRequest(b, s)

Interviewers(b) ==
    \/ CancelByInterviewer(b)
    \/ Complete(b)
    \/ RejectReschedule(b)
    \/ ReadAccept(b)
    \/ FinishInterview(b)
    \/ ReadEvaluation(b)

Cleanup(b) ==
    \/ EndByTime(b)
    \/ NoShow(b)
    \/ RefundExpired(b)

Commit(r) ==
    \/ CommitRescheduleRequest(r)
    \/ CommitAccept(r)
    \/ CommitJoin(r)
    \/ DecideEvaluation(r)
    \/ CommitEvaluation(r)

Next ==
    \/ \E b \in Bookings : Candidates(b) \/ Interviewers(b) \/ Cleanup(b)
    \/ \E b \in Bookings, role \in Roles : ReadJoin(b, role)
    \/ \E s \in Slots : DeactivateSlot(s)
    \/ \E r \in requests : Commit(r)
    \/ Tick

Spec == Init /\ [][Next]_vars

\* Time passes, beat keeps starting the cleanup job and no row stays locked
\* for ever.  Nobody is obliged to press a button, and a request may die
\* with its worker.
FairSpec ==
    /\ Spec
    /\ WF_vars(Tick)
    /\ \A b \in Bookings : /\ WF_vars(EndByTime(b))
                           /\ WF_vars(NoShow(b))
                           /\ WF_vars(RefundExpired(b))

-----------------------------------------------------------------------------
(* Correctness *)

\* Every column has its type; balances never go negative.
TypeOK ==
    /\ now \in Time
    /\ is_active \in [Slots -> BOOLEAN]
    /\ party \in [Bookings -> Party \cup {NoParty}]
    /\ status \in [Bookings -> Status]
    /\ availability \in [Bookings -> Slots \cup {None}]
    /\ payment_status \in [Bookings -> PaymentStatus]
    /\ evaluation_deadline \in [Bookings -> Nat \cup {None}]
    /\ cancelled_at \in [Bookings -> BOOLEAN]
    /\ reschedule \in [Bookings -> Reschedule]
    /\ evaluation \in [Bookings -> Nat \cup {None}]
    /\ session \in [Bookings -> Session]
    /\ wallet \in [Users -> Wallet]
    /\ ledger \in [Bookings -> [Entries -> Nat]]
    /\ requests \subseteq Requests

\* The booking and its room tell the same story, although handle_connect
\* and the cleanup job write them together and everybody else only one of
\* the two: a live room cannot be cancelled or completed by hand, a closed
\* one explains the booking's status, and a late join never erases the fact
\* that the booking was cancelled.
NoShows == {"CANDIDATE_NO_SHOW", "INTERVIEWER_NO_SHOW"}
Cancellations == {"CANCELLED_BY_CANDIDATE", "CANCELLED_BY_INTERVIEWER"}
StatusMatchesRoom ==
    \A b \in Bookings :
        /\ status[b] = "ABSENT" => session[b].status = "ABSENT"
        /\ status[b] = "LIVE" <=> session[b].status = "LIVE"
        /\ session[b].status = "ENDED" => status[b] = "COMPLETED"
        /\ status[b] \in NoShows <=> session[b].status = "NO_SHOW"
        /\ status[b] \in Cancellations => cancelled_at[b]

\* A slot is never held by more uncancelled bookings than max_bookings,
\* whichever of create, direct reschedule and accepted request took the
\* place, and however they overlap.
Holders(s) == {b \in Occupants(s) : ~cancelled_at[b]}
CapacityRespected == \A s \in Slots : Cardinality(Holders(s)) <= MaxBookings[s]

\* A booking reads PAID_TO_INTERVIEWER only after a room that both sides
\* entered, an evaluation written by the deadline, and exactly one payment
\* from that evaluation, however stale the copy of the booking that the
\* evaluation was settled from; and while payment_status still promises a
\* settlement, the settlement service has neither paid nor refunded.
PaidForEvaluation ==
  \A b \in Bookings :
    /\ payment_status[b] = "PAID_TO_INTERVIEWER" =>
        /\ session[b].status = "ENDED" /\ session[b].connected = Roles
        /\ evaluation[b] # None /\ evaluation_deadline[b] # None
        /\ evaluation[b] <= evaluation_deadline[b]
        /\ ledger[b]["SESSION_EARN"] = 1
    /\ payment_status[b] \in {"PENDING", "AWAITING_EVALUATION"} =>
            ledger[b]["SESSION_EARN"] = 0 /\ ledger[b]["REFUND"] = 0

Settlements(b) ==
    ledger[b]["BOOKING_RELEASE"] + ledger[b]["BOOKING_CANCEL_INTERVIEWER"]
    + ledger[b]["COMPLETE_EARN"] + ledger[b]["SESSION_EARN"] + ledger[b]["REFUND"]

\* As long as nobody has entered the room, a booking's tokens are released
\* or paid at most once, and only when the booking is over.
RoomlessSettledOnce ==
    \A b \in Bookings : session[b].status = "ABSENT" =>
        /\ Settlements(b) <= 1
        /\ Settlements(b) = 1 => status[b] \notin {"ABSENT", "CONFIRMED", "LIVE"}

\* Moves between slots never hand the booking to another interviewer, and a
\* pending request always has a slot of that interviewer to move to.
MovesStayWithInterviewer ==
    \A b \in Bookings : status[b] # "ABSENT" =>
        /\ Owner[availability[b]] = party[b].interviewer
        /\ reschedule[b].pending =>
              /\ reschedule[b].proposed # None
              /\ Owner[reschedule[b].proposed] = party[b].interviewer

\* Once the room is closed, as ENDED or NO_SHOW, neither it nor the
\* booking's status ever changes again: no late join, cancellation or
\* completion gets through.
RoomClosed(b) == session[b].status \in {"ENDED", "NO_SHOW"}
RoomOutcomeFinal ==
    [][\A b \in Bookings : RoomClosed(b) =>
          session'[b].status = session[b].status /\ status'[b] = status[b]]_vars

\* Tokens paid for an evaluation are never taken back by the cleanup job or
\* by another submission.
PaidIsFinal ==
    [][\A b \in Bookings : payment_status[b] = "PAID_TO_INTERVIEWER" =>
          payment_status'[b] = payment_status[b]]_vars

\* A live room ends, and a booking that awaits its evaluation is settled
\* once its deadline is over, unless the candidate's locked tokens have
\* been given away for another booking.
LiveRoomEnds ==
    \A b \in Bookings : session[b].status = "LIVE" ~> session[b].status # "LIVE"

Covered(b) == wallet[Candidate(b)].locked_balance >= TokenCost(b)
AwaitingIsSettled ==
    \A b \in Bookings :
        payment_status[b] = "AWAITING_EVALUATION" /\ evaluation_deadline[b] < Horizon
        ~> payment_status[b] # "AWAITING_EVALUATION" \/ ~Covered(b)

-----------------------------------------------------------------------------
(* The promise of a slot, implemented by row locks and a count *)

Place(b) == IF status[b] \in Occupying /\ ~cancelled_at[b]
            THEN availability[b] ELSE None
Over(b) == status[b] \notin Occupying \cup {"ABSENT"} \/ cancelled_at[b]

Places == INSTANCE SlotCapacity WITH
    Nowhere <- None,
    place <- [b \in Bookings |-> Place(b)],
    closed <- {b \in Bookings : Over(b)}

\* Every step of the booking system takes a free place, gives one up for
\* good, or leaves the places alone.
PlacesSpec == Places!Spec

=============================================================================
