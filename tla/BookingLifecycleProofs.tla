----------------------- MODULE BookingLifecycleProofs -----------------------
(***************************************************************************)
(* Theorems about BookingLifecycle for every number of bookings, slots and *)
(* users and every schedule.  TypeOK is inductive by itself; the other     *)
(* results rest on it and on what the booking's status and its room say    *)
(* about each other.                                                       *)
(***************************************************************************)
EXTENDS BookingAccounting, TokenServiceProofs, FiniteSetTheorems, TLAPS

-----------------------------------------------------------------------------
(* What the helpers write *)

\* A pending request names an existing booking, and each kind carries what
\* its commit step needs.
LEMMA RequestFields ==
    ASSUME NEW r \in Requests
    PROVE  /\ r.booking \in Bookings
           /\ r.op = "join" => r.role \in Roles
           /\ r.op = "reschedule_request" => r.slot \in Slots
           /\ r.op = "settle" => r.at \in Nat
BY DEF Requests

LEMMA UnlockType ==
    ASSUME TypeOK, NEW b \in Bookings, NEW e \in Entries, Unlock(b, e)
    PROVE  /\ wallet' \in [Users -> Wallet]
           /\ ledger' \in [Bookings -> [Entries -> Nat]]
<1>1. TokenCost(b) \in Nat
  BY DEF TypeOK, TokenCost, Party, NoParty
<1>2. wallet' \in [Users -> Wallet]
  BY <1>1, UnlockTokensType DEF TypeOK, Unlock
<1>3. ledger' \in [Bookings -> [Entries -> Nat]]
  BY DEF TypeOK, Unlock, Record
<1>. QED  BY <1>2, <1>3

LEMMA TransferType ==
    ASSUME TypeOK, NEW b \in Bookings, NEW e \in Entries, Transfer(b, e)
    PROVE  /\ wallet' \in [Users -> Wallet]
           /\ ledger' \in [Bookings -> [Entries -> Nat]]
<1>1. TokenCost(b) \in Nat
  BY DEF TypeOK, TokenCost, Party, NoParty
<1>2. wallet' \in [Users -> Wallet]
  BY <1>1, TransferLockedTokensType DEF TypeOK, Transfer
<1>3. ledger' \in [Bookings -> [Entries -> Nat]]
  BY DEF TypeOK, Transfer, Record
<1>. QED  BY <1>2, <1>3

\* A refund writes a payment status, a wallet and a ledger row, or nothing.
LEMMA RefundType ==
    ASSUME TypeOK, NEW b \in Bookings, Refund(b)
    PROVE  /\ wallet' \in [Users -> Wallet]
           /\ ledger' \in [Bookings -> [Entries -> Nat]]
           /\ payment_status' \in [Bookings -> PaymentStatus]
<1>1. CASE /\ Unlock(b, "REFUND")
           /\ payment_status' = [payment_status EXCEPT ![b] = "REFUNDED_TO_CANDIDATE"]
  BY <1>1, UnlockType DEF TypeOK, Entries, PaymentStatus
<1>2. CASE UNCHANGED <<payment_status, moneyVars>>
  BY <1>2 DEF TypeOK, moneyVars
<1>. QED  BY <1>1, <1>2 DEF Refund

LEMMA SettleType ==
    ASSUME TypeOK, NEW b \in Bookings, NEW outcome, Settle(b, outcome)
    PROVE  /\ wallet' \in [Users -> Wallet]
           /\ ledger' \in [Bookings -> [Entries -> Nat]]
           /\ payment_status' \in [Bookings -> PaymentStatus]
<1>1. CASE Refund(b)
  BY <1>1, RefundType
<1>2. CASE /\ Transfer(b, "SESSION_EARN")
           /\ payment_status' = [payment_status EXCEPT ![b] = "PAID_TO_INTERVIEWER"]
  BY <1>2, TransferType DEF TypeOK, Entries, PaymentStatus
<1>3. CASE UNCHANGED <<payment_status, moneyVars>>
  BY <1>3 DEF TypeOK, moneyVars
<1>. QED  BY <1>1, <1>2, <1>3 DEF Settle, Pay

-----------------------------------------------------------------------------
(* Type correctness *)

LEMMA TypeInit == Init => TypeOK
<1>. SUFFICES ASSUME Init PROVE TypeOK
  OBVIOUS
<1>. USE ConfigAssumption, TimingAssumption
<1>1. /\ now \in Time
      /\ wallet \in [Users -> Wallet]
  BY DEF Init, Time, Wallet
<1>2. /\ party \in [Bookings -> Party \cup {NoParty}]
      /\ status \in [Bookings -> Status]
      /\ availability \in [Bookings -> Slots \cup {None}]
      /\ payment_status \in [Bookings -> PaymentStatus]
      /\ evaluation_deadline \in [Bookings -> Nat \cup {None}]
      /\ cancelled_at \in [Bookings -> BOOLEAN]
      /\ reschedule \in [Bookings -> Reschedule]
  BY DEF Init, Status, PaymentStatus, Reschedule
<1>3. /\ session \in [Bookings -> Session]
      /\ evaluation \in [Bookings -> Nat \cup {None}]
      /\ ledger \in [Bookings -> [Entries -> Nat]]
      /\ is_active \in [Slots -> BOOLEAN]
      /\ requests \subseteq Requests
  BY DEF Init, Session, SessionStatus
<1>. QED  BY <1>1, <1>2, <1>3 DEF TypeOK

LEMMA TypeStep == TypeOK /\ [Next]_vars => TypeOK'
<1>. SUFFICES ASSUME TypeOK, [Next]_vars PROVE TypeOK'
  OBVIOUS
<1>. USE ConfigAssumption, TimingAssumption
<1>1. ASSUME NEW b \in Bookings, NEW c \in Users, NEW s \in Slots, Create(b, c, s)
      PROVE  TypeOK'
  <2>1. wallet' \in [Users -> Wallet]
    BY <1>1, LockTokensType DEF TypeOK, Create
  <2>2. party' \in [Bookings -> Party \cup {NoParty}]
    BY <1>1 DEF TypeOK, Create, Party
  <2>. QED  BY <1>1, <2>1, <2>2 DEF TypeOK, Create, Status
<1>2. ASSUME NEW b \in Bookings, NEW newStatus \in Status, NEW e \in Entries,
             Cancel(b, newStatus, e)
      PROVE  TypeOK'
  BY <1>2, UnlockType DEF TypeOK, Cancel
<1>3. ASSUME NEW b \in Bookings, CancelByCandidate(b) PROVE TypeOK'
  BY <1>2, <1>3 DEF CancelByCandidate, Status, Entries
<1>4. ASSUME NEW b \in Bookings, CancelByInterviewer(b) PROVE TypeOK'
  BY <1>2, <1>4 DEF CancelByInterviewer, Status, Entries
<1>5. ASSUME NEW b \in Bookings, Complete(b) PROVE TypeOK'
  BY <1>5, TransferType DEF TypeOK, Complete, Status, Entries
<1>6. ASSUME NEW b \in Bookings, NEW s \in Slots, CandidateReschedule(b, s)
      PROVE  TypeOK'
  <2>1. reschedule' \in [Bookings -> Reschedule]
    <3>. DEFINE row == [reschedule[b] EXCEPT !.count = @ + 1]
    <3>. reschedule[b] \in Reschedule
      BY DEF TypeOK
    <3>1. row \in Reschedule
      BY DEF Reschedule
    <3>2. reschedule' = [reschedule EXCEPT ![b] = row]
      BY <1>6 DEF CandidateReschedule
    <3>. HIDE DEF row
    <3>. QED  BY <3>1, <3>2 DEF TypeOK
  <2>. QED  BY <1>6, <2>1 DEF TypeOK, CandidateReschedule, moneyVars
<1>7. ASSUME NEW b \in Bookings, RejectReschedule(b) PROVE TypeOK'
  <2>1. reschedule' \in [Bookings -> Reschedule]
    <3>. DEFINE row == [reschedule[b] EXCEPT !.pending = FALSE, !.proposed = None]
    <3>. reschedule[b] \in Reschedule
      BY DEF TypeOK
    <3>1. row \in Reschedule
      BY DEF Reschedule
    <3>2. reschedule' = [reschedule EXCEPT ![b] = row]
      BY <1>7 DEF RejectReschedule
    <3>. HIDE DEF row
    <3>. QED  BY <3>1, <3>2 DEF TypeOK
  <2>. QED  BY <1>7, <2>1 DEF TypeOK, RejectReschedule, moneyVars
<1>8. ASSUME NEW s \in Slots, DeactivateSlot(s) PROVE TypeOK'
  BY <1>8 DEF TypeOK, DeactivateSlot, bookingVars, moneyVars
<1>9. ASSUME NEW b \in Bookings, FinishInterview(b) PROVE TypeOK'
  BY <1>9 DEF TypeOK, FinishInterview, Session, bookingVars, moneyVars
<1>10. ASSUME NEW b \in Bookings, NEW s \in Slots, ReadRescheduleRequest(b, s)
       PROVE  TypeOK'
  BY <1>10 DEF TypeOK, ReadRescheduleRequest, Begin, Requests, bookingVars, moneyVars
<1>11. ASSUME NEW b \in Bookings, ReadAccept(b) PROVE TypeOK'
  BY <1>11 DEF TypeOK, ReadAccept, Begin, Requests, bookingVars, moneyVars
<1>12. ASSUME NEW b \in Bookings, NEW role \in Roles, ReadJoin(b, role)
       PROVE  TypeOK'
  BY <1>12 DEF TypeOK, ReadJoin, Begin, Requests, bookingVars, moneyVars
<1>13. ASSUME NEW b \in Bookings, ReadEvaluation(b) PROVE TypeOK'
  BY <1>13 DEF TypeOK, ReadEvaluation, Begin, Requests, bookingVars, moneyVars
<1>14. ASSUME NEW r \in requests, CommitRescheduleRequest(r) PROVE TypeOK'
  <2>. DEFINE b == r.booking
              row == [reschedule[b] EXCEPT !.pending = TRUE, !.proposed = r.slot]
  <2>1. b \in Bookings /\ r.slot \in Slots
    BY <1>14, RequestFields DEF TypeOK, CommitRescheduleRequest
  <2>2. row \in Reschedule
    <3>. reschedule[b] \in Reschedule
      BY <2>1 DEF TypeOK
    <3>. QED  BY <2>1 DEF Reschedule
  <2>3. \/ reschedule' = [reschedule EXCEPT ![b] = row]
        \/ reschedule' = reschedule
    BY <1>14 DEF CommitRescheduleRequest
  <2>. HIDE DEF row
  <2>4. reschedule' \in [Bookings -> Reschedule]
    BY <2>2, <2>3 DEF TypeOK
  <2>. QED  BY <1>14, <2>4 DEF TypeOK, CommitRescheduleRequest, Done, moneyVars
<1>15. ASSUME NEW r \in requests, CommitAccept(r) PROVE TypeOK'
  <2>. DEFINE b == r.booking
              row == [pending |-> FALSE, proposed |-> None,
                      count |-> reschedule[b].count + 1]
  <2>1. b \in Bookings
    BY <1>15, RequestFields DEF TypeOK
  <2>2. row \in Reschedule /\ reschedule[b].proposed \in Slots \cup {None}
    <3>. reschedule[b] \in Reschedule
      BY <2>1 DEF TypeOK
    <3>. QED  BY DEF Reschedule
  <2>3. \/ /\ reschedule' = [reschedule EXCEPT ![b] = row]
           /\ availability' = [availability EXCEPT ![b] = reschedule[b].proposed]
        \/ UNCHANGED <<reschedule, availability>>
    BY <1>15 DEF CommitAccept
  <2>. HIDE DEF row
  <2>4. reschedule' \in [Bookings -> Reschedule]
    BY <2>2, <2>3 DEF TypeOK
  <2>5. availability' \in [Bookings -> Slots \cup {None}]
    BY <2>2, <2>3 DEF TypeOK
  <2>. QED  BY <1>15, <2>4, <2>5 DEF TypeOK, CommitAccept, Done, moneyVars
<1>16. ASSUME NEW r \in requests, CommitJoin(r) PROVE TypeOK'
  <2>. DEFINE b == r.booking
              connected == session[b].connected \cup {r.role}
              room == IF GoesLive(b, connected) THEN "LIVE"
                      ELSE IF session[b].status = "ABSENT" THEN "CREATED"
                      ELSE session[b].status
              row == [session[b] EXCEPT !.status = room, !.connected = connected]
  <2>1. b \in Bookings /\ r.role \in Roles
    BY <1>16, RequestFields DEF TypeOK, CommitJoin
  <2>2. row \in Session
    <3>. session[b] \in Session
      BY <2>1 DEF TypeOK
    <3>1. room \in SessionStatus /\ connected \in SUBSET Roles
      BY <2>1 DEF Session, SessionStatus
    <3>. HIDE DEF room, connected
    <3>. QED  BY <3>1 DEF Session
  <2>3. session' = [session EXCEPT ![b] = row]
    BY <1>16, <2>1 DEF TypeOK, CommitJoin
  <2>. HIDE DEF row
  <2>4. session' \in [Bookings -> Session]
    BY <2>2, <2>3 DEF TypeOK
  <2>5. status' \in [Bookings -> Status]
    BY <1>16 DEF TypeOK, CommitJoin, Status
  <2>. QED  BY <1>16, <2>4, <2>5 DEF TypeOK, CommitJoin, Done, moneyVars
<1>17. ASSUME NEW r \in requests, DecideEvaluation(r) PROVE TypeOK'
  BY <1>17, RequestFields
     DEF TypeOK, DecideEvaluation, Done, Outcome, Requests, Time, bookingVars, moneyVars
<1>18. ASSUME NEW r \in requests, CommitEvaluation(r) PROVE TypeOK'
  <2>1. r.booking \in Bookings /\ r.at \in Nat
    BY <1>18, RequestFields DEF TypeOK, CommitEvaluation
  <2>2. /\ wallet' \in [Users -> Wallet]
        /\ ledger' \in [Bookings -> [Entries -> Nat]]
        /\ payment_status' \in [Bookings -> PaymentStatus]
    BY <1>18, <2>1, SettleType
       DEF TypeOK, CommitEvaluation, DeadlockVictim, moneyVars
  <2>3. evaluation' \in [Bookings -> Nat \cup {None}]
    BY <1>18, <2>1 DEF TypeOK, CommitEvaluation
  <2>. QED  BY <1>18, <2>2, <2>3 DEF TypeOK, CommitEvaluation, Done
<1>19. ASSUME NEW b \in Bookings, EndByTime(b) PROVE TypeOK'
  <2>1. /\ wallet' \in [Users -> Wallet]
        /\ ledger' \in [Bookings -> [Entries -> Nat]]
        /\ payment_status' \in [Bookings -> PaymentStatus]
    BY <1>19, RefundType DEF TypeOK, EndByTime, PaymentStatus, moneyVars
  <2>2. evaluation_deadline' \in [Bookings -> Nat \cup {None}]
    BY <1>19 DEF TypeOK, EndByTime, Time
  <2>3. session' \in [Bookings -> Session]
    <3>1. session' = [session EXCEPT ![b].status = "ENDED"]
      BY <1>19 DEF EndByTime
    <3>. QED  BY <3>1 DEF TypeOK, Session, SessionStatus
  <2>4. status' \in [Bookings -> Status]
    BY <1>19 DEF TypeOK, EndByTime, Status
  <2>. QED  BY <1>19, <2>1, <2>2, <2>3, <2>4 DEF TypeOK, EndByTime
<1>20. ASSUME NEW b \in Bookings, NoShow(b) PROVE TypeOK'
  <2>1. /\ wallet' \in [Users -> Wallet]
        /\ ledger' \in [Bookings -> [Entries -> Nat]]
        /\ payment_status' \in [Bookings -> PaymentStatus]
    BY <1>20, RefundType DEF TypeOK, NoShow, moneyVars
  <2>2. session' \in [Bookings -> Session]
    BY <1>20 DEF TypeOK, NoShow, Session, SessionStatus
  <2>3. status' \in [Bookings -> Status]
    BY <1>20 DEF TypeOK, NoShow, Status
  <2>. QED  BY <1>20, <2>1, <2>2, <2>3 DEF TypeOK, NoShow
<1>21. ASSUME NEW b \in Bookings, RefundExpired(b) PROVE TypeOK'
  <2>1. /\ wallet' \in [Users -> Wallet]
        /\ ledger' \in [Bookings -> [Entries -> Nat]]
        /\ payment_status' \in [Bookings -> PaymentStatus]
    BY <1>21, RefundType, SettleType DEF RefundExpired
  <2>. QED  BY <1>21, <2>1 DEF TypeOK, RefundExpired
<1>22. CASE Tick
  BY <1>22 DEF TypeOK, Tick, Time, bookingVars, moneyVars
<1>23. CASE UNCHANGED vars
  BY <1>23 DEF TypeOK, vars, bookingVars, moneyVars
<1>. QED
  BY <1>1, <1>3, <1>4, <1>5, <1>6, <1>7, <1>8, <1>9, <1>10, <1>11, <1>12,
     <1>13, <1>14, <1>15, <1>16, <1>17, <1>18, <1>19, <1>20, <1>21, <1>22, <1>23
     DEF Next, Candidates, Interviewers, Cleanup, Commit

\* Every reachable state has the declared columns: in particular no balance
\* is ever negative, whatever the handlers do to each other's bookings.
THEOREM TypeCorrect == Spec => []TypeOK
<1>1. Init => TypeOK
  BY TypeInit
<1>2. TypeOK /\ [Next]_vars => TypeOK'
  BY TypeStep
<1>. QED  BY <1>1, <1>2, PTL DEF Spec

-----------------------------------------------------------------------------
(* The booking's status and its room *)

\* Only existing bookings are ever joined.
JoinsExist == \A r \in requests : r.op = "join" => status[r.booking] # "ABSENT"

LEMMA StatusInit == Init => StatusMatchesRoom /\ JoinsExist
BY DEF Init, StatusMatchesRoom, JoinsExist, NoShows, Cancellations

LEMMA StatusStep ==
    ASSUME TypeOK, StatusMatchesRoom, JoinsExist, [Next]_vars
    PROVE  StatusMatchesRoom' /\ JoinsExist'
<1>. USE DEF NoShows, Cancellations
<1>1. ASSUME NEW b \in Bookings, NEW c \in Users, NEW s \in Slots, Create(b, c, s)
      PROVE  StatusMatchesRoom' /\ JoinsExist'
  BY <1>1 DEF TypeOK, StatusMatchesRoom, JoinsExist, Create
<1>2. ASSUME NEW b \in Bookings, CancelByCandidate(b) \/ CancelByInterviewer(b)
      PROVE  StatusMatchesRoom' /\ JoinsExist'
  <2>1. /\ status[b] = "CONFIRMED" /\ UNCHANGED <<session, requests>>
        /\ \E new \in Cancellations : status' = [status EXCEPT ![b] = new]
        /\ cancelled_at' = [cancelled_at EXCEPT ![b] = TRUE]
    BY <1>2 DEF CancelByCandidate, CancelByInterviewer, Cancel
  <2>. QED  BY <2>1 DEF TypeOK, StatusMatchesRoom, JoinsExist
<1>3. ASSUME NEW b \in Bookings, Complete(b)
      PROVE  StatusMatchesRoom' /\ JoinsExist'
  BY <1>3 DEF TypeOK, StatusMatchesRoom, JoinsExist, Complete
<1>4. ASSUME NEW b \in Bookings, FinishInterview(b)
      PROVE  StatusMatchesRoom' /\ JoinsExist'
  BY <1>4 DEF TypeOK, StatusMatchesRoom, JoinsExist, FinishInterview, bookingVars
<1>5. ASSUME NEW b \in Bookings, NEW role \in Roles, ReadJoin(b, role)
      PROVE  StatusMatchesRoom' /\ JoinsExist'
  BY <1>5 DEF StatusMatchesRoom, JoinsExist, ReadJoin, Begin, bookingVars
<1>6. ASSUME NEW r \in requests, CommitJoin(r)
      PROVE  StatusMatchesRoom' /\ JoinsExist'
  <2>. DEFINE b == r.booking
  <2>1. b \in Bookings /\ status[b] # "ABSENT"
    BY <1>6, RequestFields DEF TypeOK, JoinsExist, CommitJoin
  <2>2. UNCHANGED cancelled_at
    BY <1>6 DEF CommitJoin
  <2>3. \A a \in Bookings \ {b} : status'[a] = status[a] /\ session'[a] = session[a]
    BY <1>6 DEF TypeOK, CommitJoin
  <2>4. \/ /\ session[b].status \in {"ABSENT", "CREATED"}
           /\ session'[b].status = "LIVE" /\ status'[b] = "LIVE"
        \/ /\ session[b].status = "ABSENT" /\ session'[b].status = "CREATED"
           /\ status'[b] = status[b]
        \/ session'[b].status = session[b].status /\ status'[b] = status[b]
    BY <1>6, <2>1 DEF TypeOK, CommitJoin, GoesLive
  <2>5. StatusMatchesRoom'
    BY <2>1, <2>2, <2>3, <2>4 DEF StatusMatchesRoom
  <2>6. \A a \in Bookings : status[a] # "ABSENT" => status'[a] # "ABSENT"
    BY <2>3, <2>4
  <2>7. JoinsExist'
    BY <1>6, <2>6, RequestFields DEF TypeOK, JoinsExist, CommitJoin, Done
  <2>. QED  BY <2>5, <2>7
<1>7. ASSUME NEW b \in Bookings, EndByTime(b)
      PROVE  StatusMatchesRoom' /\ JoinsExist'
  <2>1. /\ session[b].status = "LIVE" /\ UNCHANGED <<cancelled_at, requests>>
        /\ session' = [session EXCEPT ![b].status = "ENDED"]
        /\ status' = [status EXCEPT ![b] = "COMPLETED"]
    BY <1>7 DEF EndByTime
  <2>. QED  BY <2>1 DEF TypeOK, StatusMatchesRoom, JoinsExist
<1>8. ASSUME NEW b \in Bookings, NoShow(b)
      PROVE  StatusMatchesRoom' /\ JoinsExist'
  <2>1. /\ session[b].status = "CREATED" /\ UNCHANGED <<cancelled_at, requests>>
        /\ session' = [session EXCEPT ![b].status = "NO_SHOW"]
        /\ \E new \in NoShows : status' = [status EXCEPT ![b] = new]
    BY <1>8 DEF NoShow
  <2>. QED  BY <2>1 DEF TypeOK, StatusMatchesRoom, JoinsExist
<1>9. ASSUME UNCHANGED <<status, session, cancelled_at>>,
             \A r \in requests' : r \in requests \/ r.op # "join"
      PROVE  StatusMatchesRoom' /\ JoinsExist'
  BY <1>9 DEF StatusMatchesRoom, JoinsExist
<1>10. ASSUME NEW b \in Bookings, NEW s \in Slots,
              CandidateReschedule(b, s) \/ ReadRescheduleRequest(b, s)
       PROVE  StatusMatchesRoom' /\ JoinsExist'
  BY <1>9, <1>10 DEF CandidateReschedule, ReadRescheduleRequest, Begin, bookingVars
<1>11. ASSUME NEW b \in Bookings,
              RejectReschedule(b) \/ ReadAccept(b) \/ ReadEvaluation(b) \/ RefundExpired(b)
       PROVE  StatusMatchesRoom' /\ JoinsExist'
  BY <1>9, <1>11
     DEF RejectReschedule, ReadAccept, ReadEvaluation, RefundExpired, Begin, bookingVars
<1>12. ASSUME NEW r \in requests,
              \/ CommitRescheduleRequest(r) \/ CommitAccept(r)
              \/ DecideEvaluation(r) \/ CommitEvaluation(r)
       PROVE  StatusMatchesRoom' /\ JoinsExist'
  BY <1>9, <1>12
     DEF CommitRescheduleRequest, CommitAccept, DecideEvaluation, CommitEvaluation,
         Done, bookingVars
<1>13. CASE Tick \/ (\E s \in Slots : DeactivateSlot(s)) \/ UNCHANGED vars
  BY <1>9, <1>13 DEF Tick, DeactivateSlot, vars, bookingVars
<1>. QED
  BY <1>1, <1>2, <1>3, <1>4, <1>5, <1>6, <1>7, <1>8, <1>10, <1>11, <1>12, <1>13
     DEF Next, Candidates, Interviewers, Cleanup, Commit

\* A live room belongs to a live booking, and a closed room explains the
\* status of the booking that had it.
THEOREM StatusCorrect == Spec => []StatusMatchesRoom
<1>1. Init => TypeOK /\ StatusMatchesRoom /\ JoinsExist
  BY TypeInit, StatusInit
<1>2. TypeOK /\ StatusMatchesRoom /\ JoinsExist /\ [Next]_vars
        => (TypeOK /\ StatusMatchesRoom /\ JoinsExist)'
  BY TypeStep, StatusStep
<1>. QED  BY <1>1, <1>2, PTL DEF Spec

\* No step changes the outcome of a room that is closed, nor the status of
\* its booking.
THEOREM RoomOutcomeIsFinal == Spec => RoomOutcomeFinal
<1>1. TypeOK /\ StatusMatchesRoom /\ [Next]_vars =>
        [\A b \in Bookings : RoomClosed(b) =>
            session'[b].status = session[b].status /\ status'[b] = status[b]]_vars
  <2>. SUFFICES ASSUME TypeOK, StatusMatchesRoom, Next,
                       NEW b \in Bookings, RoomClosed(b)
                PROVE  session'[b].status = session[b].status /\ status'[b] = status[b]
    OBVIOUS
  <2>1. status[b] \in {"COMPLETED"} \cup NoShows
    BY DEF RoomClosed, StatusMatchesRoom
  <2>2. CASE UNCHANGED <<status, session>>
    BY <2>2
  <2>3. ASSUME NEW a \in Bookings, NEW c \in Users, NEW s \in Slots, Create(a, c, s)
        PROVE  session'[b].status = session[b].status /\ status'[b] = status[b]
    BY <2>1, <2>3 DEF TypeOK, NoShows, Create
  <2>4. ASSUME NEW a \in Bookings,
               CancelByCandidate(a) \/ CancelByInterviewer(a) \/ Complete(a)
        PROVE  session'[b].status = session[b].status /\ status'[b] = status[b]
    BY <2>1, <2>4 DEF TypeOK, NoShows, CancelByCandidate, CancelByInterviewer,
                      Cancel, Complete
  <2>5. ASSUME NEW a \in Bookings, FinishInterview(a)
        PROVE  session'[b].status = session[b].status /\ status'[b] = status[b]
    BY <2>5 DEF TypeOK, Session, FinishInterview, bookingVars
  <2>6. ASSUME NEW r \in requests, CommitJoin(r)
        PROVE  session'[b].status = session[b].status /\ status'[b] = status[b]
    BY <2>6, RequestFields DEF TypeOK, CommitJoin, GoesLive, RoomClosed
  <2>7. ASSUME NEW a \in Bookings, EndByTime(a) \/ NoShow(a)
        PROVE  session'[b].status = session[b].status /\ status'[b] = status[b]
    <3>1. a # b
      BY <2>7 DEF RoomClosed, EndByTime, NoShow
    <3>2. session'[b] = session[b] /\ status'[b] = status[b]
      BY <2>7, <3>1 DEF TypeOK, EndByTime, NoShow
    <3>. QED  BY <3>2
  <2>8. ASSUME NEW a \in Bookings, NEW s \in Slots,
               CandidateReschedule(a, s) \/ ReadRescheduleRequest(a, s)
        PROVE  UNCHANGED <<status, session>>
    BY <2>8 DEF CandidateReschedule, ReadRescheduleRequest, bookingVars
  <2>9. ASSUME NEW a \in Bookings,
               \/ RejectReschedule(a) \/ ReadAccept(a) \/ ReadEvaluation(a)
               \/ RefundExpired(a) \/ \E role \in Roles : ReadJoin(a, role)
        PROVE  UNCHANGED <<status, session>>
    BY <2>9 DEF RejectReschedule, ReadAccept, ReadEvaluation, RefundExpired,
                ReadJoin, bookingVars
  <2>10. ASSUME NEW r \in requests,
                \/ CommitRescheduleRequest(r) \/ CommitAccept(r)
                \/ DecideEvaluation(r) \/ CommitEvaluation(r)
         PROVE  UNCHANGED <<status, session>>
    BY <2>10 DEF CommitRescheduleRequest, CommitAccept, DecideEvaluation,
                 CommitEvaluation, bookingVars
  <2>11. CASE Tick \/ \E s \in Slots : DeactivateSlot(s)
    BY <2>11, <2>2 DEF Tick, DeactivateSlot, bookingVars
  <2>. QED
    BY <2>2, <2>3, <2>4, <2>5, <2>6, <2>7, <2>8, <2>9, <2>10, <2>11
       DEF Next, Candidates, Interviewers, Cleanup, Commit
<1>. QED  BY <1>1, TypeCorrect, StatusCorrect, PTL DEF Spec, RoomOutcomeFinal

-----------------------------------------------------------------------------
(* Places on a slot *)

\* A step that adds at most one booking to a slot that has a place left
\* does not overfill it: Occupants, which the guard counts, holds Holders.
LEMMA OneMoreFits ==
    ASSUME NEW S, NEW T \in SUBSET S, NEW U, NEW b, NEW n \in Nat,
           IsFiniteSet(S), Cardinality(S) < n, U \subseteq T \cup {b}
    PROVE  Cardinality(U) <= n
<1>1. IsFiniteSet(T) /\ Cardinality(T) <= Cardinality(S)
  BY FS_Subset
<1>2. /\ IsFiniteSet(T \cup {b})
      /\ Cardinality(T \cup {b}) <= Cardinality(T) + 1
  <2>1. /\ IsFiniteSet(T \cup {b})
        /\ Cardinality(T \cup {b}) = IF b \in T THEN Cardinality(T)
                                     ELSE Cardinality(T) + 1
    BY <1>1, FS_AddElement
  <2>2. Cardinality(T) \in Nat
    BY <1>1, FS_CardinalityType
  <2>. QED  BY <2>1, <2>2
<1>3. Cardinality(U) <= Cardinality(T \cup {b})
  BY <1>2, FS_Subset
<1>4. /\ Cardinality(S) \in Nat /\ Cardinality(T) \in Nat
      /\ Cardinality(T \cup {b}) \in Nat
  BY <1>1, <1>2, FS_CardinalityType
<1>5. IsFiniteSet(U) /\ Cardinality(U) \in Nat
  BY <1>2, FS_Subset, FS_CardinalityType
<1>. QED  BY <1>1, <1>2, <1>3, <1>4, <1>5

\* How the holders of a slot may change.
Fits(s) ==
    \/ Holders(s)' \subseteq Holders(s)
    \/ HasCapacity(s) /\ \E b \in Bookings : Holders(s)' \subseteq Holders(s) \cup {b}

LEMMA FitsKeepsCapacity ==
    ASSUME CapacityRespected, \A s \in Slots : Fits(s)
    PROVE  CapacityRespected'
<1>. USE ConfigAssumption
<1>. SUFFICES ASSUME NEW s \in Slots
              PROVE  Cardinality(Holders(s)') <= MaxBookings[s]
  BY DEF CapacityRespected
<1>1. IsFiniteSet(Occupants(s)) /\ IsFiniteSet(Holders(s))
  <2>1. Occupants(s) \in SUBSET Bookings /\ Holders(s) \in SUBSET Bookings
    BY DEF Occupants, Holders
  <2>. QED  BY <2>1, FS_Subset
<1>2. MaxBookings[s] \in Nat /\ Holders(s) \in SUBSET Occupants(s)
  BY DEF Holders
<1>3. CASE Holders(s)' \subseteq Holders(s)
  <2>1. IsFiniteSet(Holders(s)') /\ Cardinality(Holders(s)') <= Cardinality(Holders(s))
    BY <1>1, <1>3, FS_Subset
  <2>2. Cardinality(Holders(s)') \in Nat /\ Cardinality(Holders(s)) \in Nat
    BY <1>1, <2>1, FS_CardinalityType
  <2>. QED  BY <1>2, <2>1, <2>2 DEF CapacityRespected
<1>4. ASSUME NEW b \in Bookings, HasCapacity(s), Holders(s)' \subseteq Holders(s) \cup {b}
      PROVE  Cardinality(Holders(s)') <= MaxBookings[s]
  <2>1. IsFiniteSet(Occupants(s)) /\ Cardinality(Occupants(s)) < MaxBookings[s]
    BY <1>1, <1>4 DEF HasCapacity
  <2>. QED  BY <1>2, <1>4, <2>1, OneMoreFits
<1>. QED  BY <1>3, <1>4 DEF Fits

LEMMA CapacityStep ==
    ASSUME TypeOK, StatusMatchesRoom, JoinsExist, CapacityRespected, [Next]_vars
    PROVE  CapacityRespected'
<1>. SUFFICES ASSUME NEW s \in Slots PROVE Fits(s)
  BY FitsKeepsCapacity
<1>. USE DEF Holders, Occupants, Occupying, Fits
<1>1. ASSUME NEW b \in Bookings, NEW c \in Users, NEW t \in Slots, Create(b, c, t)
      PROVE  Fits(s)
  BY <1>1 DEF TypeOK, Create
<1>2. ASSUME NEW b \in Bookings,
             CancelByCandidate(b) \/ CancelByInterviewer(b) \/ Complete(b)
      PROVE  Fits(s)
  <2>1. Holders(s)' \subseteq Holders(s)
    BY <1>2 DEF TypeOK, CancelByCandidate, CancelByInterviewer, Cancel, Complete
  <2>. QED  BY <2>1
<1>3. ASSUME NEW b \in Bookings, NEW t \in Slots, CandidateReschedule(b, t)
      PROVE  Fits(s)
  BY <1>3 DEF TypeOK, CandidateReschedule, MayMoveTo
<1>4. ASSUME NEW r \in requests, CommitAccept(r)
      PROVE  Fits(s)
  BY <1>4, RequestFields DEF TypeOK, CommitAccept, MayAccept
<1>5. ASSUME NEW r \in requests, CommitJoin(r)
      PROVE  Fits(s)
  <2>. DEFINE b == r.booking
  <2>1. b \in Bookings /\ status[b] # "ABSENT"
    BY <1>5, RequestFields DEF TypeOK, JoinsExist, CommitJoin
  <2>2. CASE status' = status
    BY <1>5, <2>2 DEF CommitJoin
  <2>3. CASE session[b].status \in {"ABSENT", "CREATED"}
    <3>1. cancelled_at[b] \/ status[b] \in Occupying
      BY <2>1, <2>3 DEF TypeOK, StatusMatchesRoom, NoShows, Cancellations, Status
    <3>2. Holders(s)' \subseteq Holders(s)
      BY <1>5, <2>1, <3>1 DEF TypeOK, CommitJoin
    <3>. QED  BY <3>2
  <2>. QED  BY <1>5, <2>2, <2>3 DEF CommitJoin, GoesLive
<1>6. ASSUME NEW b \in Bookings, EndByTime(b) \/ NoShow(b)
      PROVE  Fits(s)
  <2>1. /\ UNCHANGED <<availability, cancelled_at>>
        /\ \/ status[b] = "LIVE" /\ status' = [status EXCEPT ![b] = "COMPLETED"]
           \/ \E new \in NoShows : status' = [status EXCEPT ![b] = new]
    BY <1>6 DEF EndByTime, NoShow, NoShows, StatusMatchesRoom
  <2>2. Holders(s)' \subseteq Holders(s)
    BY <2>1 DEF TypeOK, NoShows
  <2>. QED  BY <2>2
<1>7. ASSUME UNCHANGED <<status, availability, cancelled_at>>
      PROVE  Fits(s)
  BY <1>7
<1>8. ASSUME NEW b \in Bookings,
             \/ RejectReschedule(b) \/ ReadAccept(b) \/ FinishInterview(b)
             \/ ReadEvaluation(b) \/ RefundExpired(b)
             \/ \E t \in Slots : ReadRescheduleRequest(b, t)
             \/ \E role \in Roles : ReadJoin(b, role)
      PROVE  Fits(s)
  <2>1. UNCHANGED <<status, availability, cancelled_at>>
    BY <1>8 DEF RejectReschedule, ReadAccept, FinishInterview, ReadEvaluation,
                RefundExpired, ReadRescheduleRequest, ReadJoin, bookingVars
  <2>. QED  BY <1>7, <2>1
<1>9. ASSUME NEW r \in requests,
             \/ CommitRescheduleRequest(r)
             \/ DecideEvaluation(r) \/ CommitEvaluation(r)
      PROVE  Fits(s)
  <2>1. UNCHANGED <<status, availability, cancelled_at>>
    BY <1>9 DEF CommitRescheduleRequest, DecideEvaluation, CommitEvaluation, bookingVars
  <2>. QED  BY <1>7, <2>1
<1>10. CASE Tick \/ (\E t \in Slots : DeactivateSlot(t)) \/ UNCHANGED vars
  <2>1. UNCHANGED <<status, availability, cancelled_at>>
    BY <1>10 DEF Tick, DeactivateSlot, vars, bookingVars
  <2>. QED  BY <1>7, <2>1
<1>. HIDE DEF Fits
<1>. QED
  BY <1>1, <1>2, <1>3, <1>4, <1>5, <1>6, <1>8, <1>9, <1>10
     DEF Next, Candidates, Interviewers, Cleanup, Commit

\* Creations, direct moves, accepted requests and late joins never put more
\* uncancelled bookings on a slot than max_bookings, for any number of them.
THEOREM CapacityIsRespected == Spec => []CapacityRespected
<1>1. Init => CapacityRespected
  <2>. SUFFICES ASSUME Init, NEW s \in Slots
                PROVE  Cardinality(Holders(s)) <= MaxBookings[s]
    BY DEF CapacityRespected
  <2>1. Holders(s) = {}
    BY DEF Init, Holders, Occupants, Occupying
  <2>. QED  BY <2>1, FS_EmptySet, ConfigAssumption
<1>2. Init => TypeOK /\ StatusMatchesRoom /\ JoinsExist
  BY TypeInit, StatusInit
<1>. DEFINE IInv == TypeOK /\ StatusMatchesRoom /\ JoinsExist /\ CapacityRespected
<1>3. IInv /\ [Next]_vars => IInv'
  BY TypeStep, StatusStep, CapacityStep
<1>. QED  BY <1>1, <1>2, <1>3, PTL DEF Spec

-----------------------------------------------------------------------------
(* Moves between slots *)

\* A request for a move was made for a booking that exists, with a slot of
\* its interviewer; a booking that does not exist awaits no answer.
MovesInv ==
    /\ MovesStayWithInterviewer
    /\ \A b \in Bookings :
          IF status[b] = "ABSENT" THEN ~reschedule[b].pending ELSE availability[b] \in Slots
    /\ \A r \in requests : r.op = "reschedule_request" =>
          /\ status[r.booking] # "ABSENT"
          /\ Owner[r.slot] = party[r.booking].interviewer

LEMMA MovesInit == Init => MovesInv
BY DEF Init, MovesInv, MovesStayWithInterviewer

LEMMA MovesStep ==
    ASSUME TypeOK, StatusMatchesRoom, JoinsExist, MovesInv, [Next]_vars
    PROVE  MovesInv'
<1>. USE ConfigAssumption DEF MovesInv, MovesStayWithInterviewer
<1>1. ASSUME NEW b \in Bookings, NEW c \in Users, NEW s \in Slots, Create(b, c, s)
      PROVE  MovesInv'
  <2>1. /\ status[b] = "ABSENT" /\ UNCHANGED <<reschedule, requests>>
        /\ party' = [party EXCEPT ![b] = [candidate |-> c, interviewer |-> Owner[s],
                                          token_cost |-> Cost[s]]]
        /\ status' = [status EXCEPT ![b] = "CONFIRMED"]
        /\ availability' = [availability EXCEPT ![b] = s]
    BY <1>1 DEF Create
  <2>2. \A r \in requests : r.booking \in Bookings
    BY RequestFields DEF TypeOK
  <2>. QED  BY <2>1, <2>2 DEF TypeOK
<1>2. ASSUME NEW b \in Bookings, NEW s \in Slots, CandidateReschedule(b, s)
      PROVE  MovesInv'
  <2>1. /\ status[b] = "CONFIRMED" /\ UNCHANGED <<status, party, requests>>
        /\ Owner[s] = Owner[availability[b]]
        /\ availability' = [availability EXCEPT ![b] = s]
        /\ \A a \in Bookings : /\ reschedule'[a].pending = reschedule[a].pending
                               /\ reschedule'[a].proposed = reschedule[a].proposed
    BY <1>2 DEF TypeOK, Reschedule, CandidateReschedule, MayMoveTo
  <2>. QED  BY <2>1 DEF TypeOK
<1>3. ASSUME NEW b \in Bookings, RejectReschedule(b)
      PROVE  MovesInv'
  <2>1. /\ UNCHANGED <<status, party, availability, requests>>
        /\ \A a \in Bookings : \/ ~reschedule'[a].pending
                               \/ reschedule'[a] = reschedule[a]
    BY <1>3 DEF TypeOK, Reschedule, RejectReschedule
  <2>. QED  BY <2>1
<1>4. ASSUME NEW b \in Bookings, NEW s \in Slots, ReadRescheduleRequest(b, s)
      PROVE  MovesInv'
  BY <1>4 DEF ReadRescheduleRequest, Begin, bookingVars
<1>5. ASSUME NEW r \in requests, CommitRescheduleRequest(r)
      PROVE  MovesInv'
  <2>. DEFINE b == r.booking
  <2>1. b \in Bookings /\ r.slot \in Slots
    BY <1>5, RequestFields DEF TypeOK, CommitRescheduleRequest
  <2>2. /\ UNCHANGED <<status, party, availability>>
        /\ requests' \subseteq requests
        /\ \A a \in Bookings :
              \/ reschedule'[a] = reschedule[a]
              \/ a = b /\ reschedule'[a].proposed = r.slot
    BY <1>5, <2>1 DEF TypeOK, Reschedule, CommitRescheduleRequest, Done
  <2>3. status[b] # "ABSENT" /\ Owner[r.slot] = party[b].interviewer
    BY <1>5 DEF CommitRescheduleRequest
  <2>4. MovesStayWithInterviewer'
    BY <2>1, <2>2, <2>3
  <2>5. \A a \in Bookings :
          IF status'[a] = "ABSENT" THEN ~reschedule'[a].pending ELSE availability'[a] \in Slots
    BY <2>1, <2>2, <2>3
  <2>6. \A q \in requests' : q.op = "reschedule_request" =>
          /\ status'[q.booking] # "ABSENT"
          /\ Owner[q.slot] = party'[q.booking].interviewer
    BY <2>2
  <2>. QED  BY <2>4, <2>5, <2>6
<1>6. ASSUME NEW r \in requests, CommitAccept(r)
      PROVE  MovesInv'
  <2>. DEFINE b == r.booking
  <2>1. b \in Bookings
    BY <1>6, RequestFields DEF TypeOK
  <2>2. reschedule[b].proposed \in Slots \cup {None}
    BY <2>1 DEF TypeOK, Reschedule
  <2>3. /\ UNCHANGED <<status, party>> /\ requests' \subseteq requests
        /\ \/ UNCHANGED <<availability, reschedule>>
           \/ /\ reschedule[b].pending
              /\ availability' = [availability EXCEPT ![b] = reschedule[b].proposed]
              /\ ~reschedule'[b].pending
              /\ \A a \in Bookings \ {b} : reschedule'[a] = reschedule[a]
    BY <1>6, <2>1 DEF TypeOK, CommitAccept, MayAccept, Done
  <2>4. CASE UNCHANGED <<availability, reschedule>>
    BY <2>3, <2>4
  <2>5. CASE reschedule[b].pending /\ ~reschedule'[b].pending
    <3>1. /\ status[b] # "ABSENT" /\ reschedule[b].proposed \in Slots
          /\ Owner[reschedule[b].proposed] = party[b].interviewer
      BY <2>1, <2>2, <2>5
    <3>2. /\ availability'[b] = reschedule[b].proposed
          /\ \A a \in Bookings \ {b} : /\ availability'[a] = availability[a]
                                     /\ reschedule'[a] = reschedule[a]
      BY <2>1, <2>3, <2>5 DEF TypeOK
    <3>. QED  BY <2>1, <2>3, <2>5, <3>1, <3>2
  <2>. QED  BY <2>3, <2>4, <2>5
<1>7. ASSUME UNCHANGED <<party, availability, reschedule>>,
             \A b \in Bookings : status[b] = "ABSENT" <=> status'[b] = "ABSENT",
             \A r \in requests' : r \in requests \/ r.op # "reschedule_request"
      PROVE  MovesInv'
  BY <1>7, RequestFields DEF TypeOK
<1>8. ASSUME NEW b \in Bookings,
             \/ CancelByCandidate(b) \/ CancelByInterviewer(b) \/ Complete(b)
             \/ ReadAccept(b) \/ FinishInterview(b) \/ ReadEvaluation(b)
             \/ RefundExpired(b) \/ \E role \in Roles : ReadJoin(b, role)
      PROVE  MovesInv'
  <2>1. UNCHANGED <<party, availability, reschedule>>
    BY <1>8 DEF CancelByCandidate, CancelByInterviewer, Cancel, Complete, ReadAccept,
                FinishInterview, ReadEvaluation, RefundExpired, ReadJoin, bookingVars
  <2>2. \A a \in Bookings : status[a] = "ABSENT" <=> status'[a] = "ABSENT"
    BY <1>8 DEF TypeOK, CancelByCandidate, CancelByInterviewer, Cancel, Complete, ReadAccept,
                FinishInterview, ReadEvaluation, RefundExpired, ReadJoin, bookingVars
  <2>3. \A r \in requests' : r \in requests \/ r.op # "reschedule_request"
    <3>1. CASE \/ CancelByCandidate(b) \/ CancelByInterviewer(b) \/ Complete(b)
               \/ FinishInterview(b) \/ RefundExpired(b)
      BY <3>1 DEF CancelByCandidate, CancelByInterviewer, Cancel, Complete,
                  FinishInterview, RefundExpired
    <3>2. CASE ReadAccept(b)
      BY <3>2 DEF ReadAccept, Begin
    <3>3. CASE ReadEvaluation(b)
      BY <3>3 DEF ReadEvaluation, Begin
    <3>4. CASE \E role \in Roles : ReadJoin(b, role)
      BY <3>4 DEF ReadJoin, Begin
    <3>. QED  BY <1>8, <3>1, <3>2, <3>3, <3>4
  <2>. QED  BY <1>7, <2>1, <2>2, <2>3
<1>9. ASSUME NEW b \in Bookings, EndByTime(b) \/ NoShow(b)
      PROVE  MovesInv'
  <2>1. status[b] # "ABSENT"
    BY <1>9 DEF EndByTime, NoShow, StatusMatchesRoom
  <2>2. /\ UNCHANGED <<party, availability, reschedule, requests>>
        /\ \E new \in Status \ {"ABSENT"} : status' = [status EXCEPT ![b] = new]
    BY <1>9 DEF EndByTime, NoShow, Status
  <2>. QED  BY <1>7, <2>1, <2>2 DEF TypeOK
<1>10. ASSUME NEW r \in requests, CommitJoin(r)
       PROVE  MovesInv'
  <2>1. r.booking \in Bookings /\ status[r.booking] # "ABSENT"
    BY <1>10, RequestFields DEF TypeOK, JoinsExist, CommitJoin
  <2>2. /\ UNCHANGED <<party, availability, reschedule>> /\ requests' \subseteq requests
        /\ status' \in {status, [status EXCEPT ![r.booking] = "LIVE"]}
    BY <1>10 DEF CommitJoin, Done
  <2>. QED  BY <1>7, <2>1, <2>2 DEF TypeOK
<1>11. ASSUME NEW r \in requests, DecideEvaluation(r) \/ CommitEvaluation(r)
       PROVE  MovesInv'
  <2>1. UNCHANGED <<party, availability, reschedule, status>>
    BY <1>11 DEF DecideEvaluation, CommitEvaluation, bookingVars
  <2>2. \A q \in requests' : q \in requests \/ q.op # "reschedule_request"
    BY <1>11 DEF DecideEvaluation, CommitEvaluation, Done
  <2>. QED  BY <1>7, <2>1, <2>2
<1>12. CASE Tick \/ (\E s \in Slots : DeactivateSlot(s)) \/ UNCHANGED vars
  <2>1. UNCHANGED <<party, availability, reschedule, status, requests>>
    BY <1>12 DEF Tick, DeactivateSlot, vars, bookingVars
  <2>. QED  BY <1>7, <2>1
<1>. QED
  BY <1>1, <1>2, <1>3, <1>4, <1>5, <1>6, <1>8, <1>9, <1>10, <1>11, <1>12
     DEF Next, Candidates, Interviewers, Cleanup, Commit

\* Neither direct moves nor accepted requests ever leave the interviewer, for
\* any number of slots, requests and interviewers.
THEOREM MovesStay == Spec => []MovesStayWithInterviewer
<1>. DEFINE IInv == TypeOK /\ StatusMatchesRoom /\ JoinsExist /\ MovesInv
<1>1. Init => IInv
  BY TypeInit, StatusInit, MovesInit
<1>2. IInv /\ [Next]_vars => IInv'
  BY TypeStep, StatusStep, MovesStep
<1>3. IInv => MovesStayWithInterviewer
  BY DEF MovesInv
<1>. QED  BY <1>1, <1>2, <1>3, PTL DEF Spec

-----------------------------------------------------------------------------
(* Payment for an evaluation *)

\* A deadline is written once, when the room ends, together with the promise
\* to settle: whoever still holds one speaks of a booking whose room is over.
PaymentOf(b) ==
    /\ session[b].status \in {"LIVE", "ENDED"} => session[b].connected = Roles
    /\ session[b].status = "ABSENT" => payment_status[b] = "PENDING"
    /\ evaluation_deadline[b] # None =>
          session[b].status = "ENDED" /\ payment_status[b] # "PENDING"
    /\ payment_status[b] = "AWAITING_EVALUATION" => evaluation_deadline[b] # None
    /\ payment_status[b] = "PAID_TO_INTERVIEWER" =>
          /\ evaluation_deadline[b] # None /\ evaluation[b] # None
          /\ evaluation[b] <= evaluation_deadline[b]
          /\ ledger[b]["SESSION_EARN"] = 1
    /\ payment_status[b] \in {"PENDING", "AWAITING_EVALUATION"} =>
          ledger[b]["SESSION_EARN"] = 0 /\ ledger[b]["REFUND"] = 0

\* The copy an evaluation is decided from may be stale, its deadline is not;
\* and what was decided is settled for the time of the decision.
StaleCopies ==
    \A r \in requests :
        /\ r.op = "evaluate" /\ r.payment_status = "AWAITING_EVALUATION" =>
              r.deadline # None /\ r.deadline = evaluation_deadline[r.booking]
        /\ r.op = "settle" /\ r.outcome # "skip" =>
              /\ evaluation_deadline[r.booking] # None
              /\ r.outcome = "pay" => r.at <= evaluation_deadline[r.booking]

PaymentInv == (\A b \in Bookings : PaymentOf(b)) /\ StaleCopies

\* What the settlements write: nothing, a refund or a payment.
Kept(b) == payment_status'[b] = payment_status[b] /\ ledger'[b] = ledger[b]
Refunded(b) == payment_status'[b] = "REFUNDED_TO_CANDIDATE"
Earned(b) ==
    /\ payment_status'[b] = "PAID_TO_INTERVIEWER"
    /\ ledger[b]["SESSION_EARN"] = 0 /\ ledger'[b]["SESSION_EARN"] = 1

LEMMA RefundWrites ==
    ASSUME TypeOK, NEW b \in Bookings, Refund(b)
    PROVE  /\ \A a \in Bookings \ {b} : Kept(a)
           /\ Kept(b) \/ Refunded(b)
BY DEF TypeOK, Refund, Unlock, Record, Kept, Refunded, moneyVars

LEMMA PayWrites ==
    ASSUME TypeOK, NEW b \in Bookings, Pay(b)
    PROVE  /\ \A a \in Bookings \ {b} : Kept(a)
           /\ Kept(b) \/ Earned(b)
BY DEF TypeOK, Entries, Pay, Transfer, Record, Kept, Earned, moneyVars

LEMMA SettleWrites ==
    ASSUME TypeOK, NEW b \in Bookings, NEW outcome, Settle(b, outcome)
    PROVE  /\ \A a \in Bookings \ {b} : Kept(a)
           /\ \/ Kept(b)
              \/ Refunded(b) /\ outcome = "refund"
              \/ Earned(b) /\ outcome = "pay"
<1>1. CASE outcome = "skip" /\ UNCHANGED <<payment_status, moneyVars>>
  BY <1>1 DEF Kept, moneyVars
<1>2. CASE outcome = "refund" /\ Refund(b)
  BY <1>2, RefundWrites
<1>3. CASE outcome = "pay" /\ Pay(b)
  BY <1>3, PayWrites
<1>. QED  BY <1>1, <1>2, <1>3 DEF Settle

LEMMA PaymentInit == Init => PaymentInv
BY DEF Init, PaymentInv, PaymentOf, StaleCopies, Entries

\* Outside the room and the settlements, payments stay as they are.
LEMMA PaymentFrame ==
    ASSUME PaymentInv,
           UNCHANGED <<payment_status, evaluation_deadline, evaluation>>,
           \A b \in Bookings : /\ session'[b].status = session[b].status
                               /\ session'[b].connected = session[b].connected
                               /\ ledger'[b]["SESSION_EARN"] = ledger[b]["SESSION_EARN"]
                               /\ ledger'[b]["REFUND"] = ledger[b]["REFUND"],
           \A r \in requests' : r \in requests \/ r.op \notin {"evaluate", "settle"}
    PROVE  PaymentInv'
<1>1. \A b \in Bookings : PaymentOf(b)'
  BY DEF PaymentInv, PaymentOf
<1>2. StaleCopies'
  BY DEF PaymentInv, StaleCopies
<1>. QED  BY <1>1, <1>2 DEF PaymentInv

\* A booking whose payment is settled in this step, while its room, deadline
\* and evaluation meet what the settlement needs.
LEMMA PaymentSettled ==
    ASSUME TypeOK, PaymentInv, NEW b \in Bookings,
           evaluation_deadline[b] # None,
           UNCHANGED <<evaluation_deadline, session>>,
           \A a \in Bookings \ {b} : Kept(a) /\ evaluation'[a] = evaluation[a],
           evaluation[b] # None => evaluation'[b] = evaluation[b],
           \/ Kept(b)
           \/ Refunded(b)
           \/ Earned(b) /\ evaluation'[b] # None /\ evaluation'[b] <= evaluation_deadline[b],
           \A r \in requests' : r \in requests
    PROVE  PaymentInv'
<1>1. ASSUME NEW a \in Bookings, a # b PROVE PaymentOf(a)'
  BY <1>1 DEF PaymentInv, PaymentOf, Kept
<1>2. PaymentOf(b)'
  <2>1. PaymentOf(b)
    BY DEF PaymentInv
  <2>2. CASE Kept(b)
    BY <2>1, <2>2 DEF PaymentOf, Kept
  <2>3. CASE Refunded(b)
    BY <2>1, <2>3 DEF PaymentOf, Refunded
  <2>4. CASE /\ Earned(b)
             /\ evaluation'[b] # None /\ evaluation'[b] <= evaluation_deadline[b]
    BY <2>1, <2>4 DEF PaymentOf, Earned
  <2>. QED  BY <2>2, <2>3, <2>4
<1>3. StaleCopies'
  BY DEF PaymentInv, StaleCopies
<1>. QED  BY <1>1, <1>2, <1>3 DEF PaymentInv

LEMMA PaymentStep ==
    ASSUME TypeOK, StatusMatchesRoom, JoinsExist, PaymentInv, [Next]_vars
    PROVE  PaymentInv'
<1>. USE ConfigAssumption
<1>1. ASSUME NEW b \in Bookings,
             \/ \E c \in Users, s \in Slots : Create(b, c, s)
             \/ \E s \in Slots : CandidateReschedule(b, s)
             \/ RejectReschedule(b)
      PROVE  PaymentInv'
  BY <1>1, PaymentFrame DEF Create, CandidateReschedule, RejectReschedule, moneyVars
<1>2. ASSUME NEW b \in Bookings,
             CancelByCandidate(b) \/ CancelByInterviewer(b) \/ Complete(b)
      PROVE  PaymentInv'
  <2>1. /\ UNCHANGED <<payment_status, evaluation_deadline, evaluation, session, requests>>
        /\ \E e \in Entries \ {"SESSION_EARN", "REFUND"} : Record(b, e)
    BY <1>2 DEF CancelByCandidate, CancelByInterviewer, Cancel, Complete,
                Unlock, Transfer, Entries
  <2>2. \A a \in Bookings : /\ ledger'[a]["SESSION_EARN"] = ledger[a]["SESSION_EARN"]
                            /\ ledger'[a]["REFUND"] = ledger[a]["REFUND"]
    BY <2>1 DEF TypeOK, Record, Entries
  <2>. QED  BY <2>1, <2>2, PaymentFrame
<1>3. ASSUME NEW b \in Bookings, FinishInterview(b) PROVE PaymentInv'
  <2>1. \A a \in Bookings : /\ session'[a].status = session[a].status
                            /\ session'[a].connected = session[a].connected
    BY <1>3 DEF TypeOK, Session, FinishInterview
  <2>. QED  BY <1>3, <2>1, PaymentFrame DEF FinishInterview, bookingVars, moneyVars
<1>4. ASSUME NEW b \in Bookings, NEW s \in Slots, ReadRescheduleRequest(b, s)
      PROVE  PaymentInv'
  BY <1>4, PaymentFrame DEF ReadRescheduleRequest, Begin, bookingVars, moneyVars
<1>5. ASSUME NEW b \in Bookings, ReadAccept(b) PROVE PaymentInv'
  BY <1>5, PaymentFrame DEF ReadAccept, Begin, bookingVars, moneyVars
<1>6. ASSUME NEW b \in Bookings, NEW role \in Roles, ReadJoin(b, role) PROVE PaymentInv'
  BY <1>6, PaymentFrame DEF ReadJoin, Begin, bookingVars, moneyVars
<1>7. ASSUME NEW r \in requests, CommitRescheduleRequest(r) \/ CommitAccept(r)
      PROVE  PaymentInv'
  BY <1>7, PaymentFrame DEF CommitRescheduleRequest, CommitAccept, Done, moneyVars
<1>8. ASSUME NEW b \in Bookings, ReadEvaluation(b) PROVE PaymentInv'
  <2>1. UNCHANGED <<payment_status, evaluation_deadline, evaluation, session, ledger>>
    BY <1>8 DEF ReadEvaluation, bookingVars, moneyVars
  <2>2. \A a \in Bookings : PaymentOf(a)'
    BY <2>1 DEF PaymentInv, PaymentOf
  <2>3. StaleCopies'
    BY <1>8, <2>1 DEF ReadEvaluation, Begin, PaymentInv, PaymentOf, StaleCopies
  <2>. QED  BY <2>2, <2>3 DEF PaymentInv
<1>9. ASSUME NEW r \in requests, DecideEvaluation(r) PROVE PaymentInv'
  <2>1. UNCHANGED <<payment_status, evaluation_deadline, evaluation, session, ledger>>
    BY <1>9 DEF DecideEvaluation, bookingVars, moneyVars
  <2>2. \A a \in Bookings : PaymentOf(a)'
    BY <2>1 DEF PaymentInv, PaymentOf
  <2>3. ASSUME NEW q \in requests', q.op = "settle", q.outcome # "skip", q \notin requests
        PROVE  /\ evaluation_deadline[q.booking] # None
               /\ q.outcome = "pay" => q.at <= evaluation_deadline[q.booking]
    <3>1. /\ r.op = "evaluate" /\ q.booking = r.booking /\ q.at = now
          /\ q.outcome = Outcome(r.payment_status, r.deadline)
      BY <1>9, <2>3 DEF DecideEvaluation, Done
    <3>2. r.payment_status = "AWAITING_EVALUATION"
      BY <2>3, <3>1 DEF Outcome
    <3>3. r.deadline # None /\ r.deadline = evaluation_deadline[r.booking]
      BY <3>1, <3>2 DEF PaymentInv, StaleCopies
    <3>4. r.deadline \in Nat /\ now \in Nat
      BY <3>3, RequestFields DEF TypeOK, Time
    <3>. QED  BY <3>1, <3>2, <3>3, <3>4 DEF Outcome
  <2>4. ASSUME NEW q \in requests', q.op = "evaluate" PROVE q \in requests
    BY <1>9, <2>4 DEF DecideEvaluation, Done
  <2>5. StaleCopies'
    BY <2>1, <2>3, <2>4 DEF PaymentInv, StaleCopies
  <2>. QED  BY <2>2, <2>5 DEF PaymentInv
<1>10. ASSUME NEW r \in requests, CommitEvaluation(r) PROVE PaymentInv'
  <2>. DEFINE b == r.booking
  <2>1. b \in Bookings /\ r.at \in Nat /\ r.op = "settle"
    BY <1>10, RequestFields DEF TypeOK, CommitEvaluation
  <2>2. /\ UNCHANGED <<evaluation_deadline, session>>
        /\ \A q \in requests' : q \in requests
    BY <1>10 DEF CommitEvaluation, Done
  <2>3. CASE UNCHANGED <<payment_status, ledger>> /\ evaluation[b] # None
    BY <1>10, <2>2, <2>3, PaymentFrame DEF CommitEvaluation
  <2>4. CASE /\ evaluation[b] = None
             /\ evaluation' = [evaluation EXCEPT ![b] = r.at]
             /\ Settle(b, r.outcome) \/ DeadlockVictim(b, r.outcome)
    <3>1. /\ \A a \in Bookings \ {b} : Kept(a)
          /\ \/ Kept(b)
             \/ Refunded(b) /\ r.outcome = "refund"
             \/ Earned(b) /\ r.outcome = "pay"
      BY <2>1, <2>4, SettleWrites DEF DeadlockVictim, Kept, moneyVars
    <3>2. CASE evaluation_deadline[b] # None
      <4>1. /\ \A a \in Bookings \ {b} : evaluation'[a] = evaluation[a]
            /\ evaluation'[b] = r.at
        BY <2>1, <2>4 DEF TypeOK
      <4>2. r.outcome = "pay" => r.at <= evaluation_deadline[b]
        BY <2>1 DEF PaymentInv, StaleCopies
      <4>. QED  BY <2>1, <2>2, <2>4, <3>1, <3>2, <4>1, <4>2, PaymentSettled
    <3>3. CASE evaluation_deadline[b] = None
      <4>1. \A a \in Bookings : Kept(a)
        BY <2>1, <3>1, <3>3 DEF PaymentInv, StaleCopies
      <4>2. payment_status[b] # "PAID_TO_INTERVIEWER"
        BY <2>1, <3>3 DEF PaymentInv, PaymentOf
      <4>3. \A a \in Bookings : PaymentOf(a)'
        BY <2>1, <2>2, <2>4, <4>1, <4>2 DEF TypeOK, PaymentInv, PaymentOf, Kept
      <4>4. StaleCopies'
        BY <2>2 DEF PaymentInv, StaleCopies
      <4>. QED  BY <4>3, <4>4 DEF PaymentInv
    <3>. QED  BY <3>2, <3>3
  <2>. QED  BY <1>10, <2>3, <2>4 DEF CommitEvaluation, moneyVars
<1>11. ASSUME NEW b \in Bookings, RefundExpired(b) PROVE PaymentInv'
  <2>1. /\ payment_status[b] = "AWAITING_EVALUATION"
        /\ UNCHANGED <<evaluation_deadline, session, evaluation, requests>>
    BY <1>11 DEF RefundExpired, Expired
  <2>2. evaluation_deadline[b] # None
    BY <2>1 DEF PaymentInv, PaymentOf
  <2>3. evaluation_deadline[b] \in Nat /\ now \in Nat
    BY <2>2 DEF TypeOK, Time
  <2>4. Outcome(payment_status[b], evaluation_deadline[b]) = "refund"
    BY <1>11, <2>1, <2>2, <2>3 DEF RefundExpired, Expired, Outcome
  <2>5. /\ \A a \in Bookings \ {b} : Kept(a)
        /\ Kept(b) \/ Refunded(b)
    BY <1>11, <2>4, RefundWrites, SettleWrites DEF RefundExpired
  <2>. QED  BY <2>1, <2>2, <2>5, PaymentSettled
<1>12. ASSUME NEW r \in requests, CommitJoin(r) PROVE PaymentInv'
  <2>. DEFINE b == r.booking
  <2>1. b \in Bookings /\ r.role \in Roles
    BY <1>12, RequestFields DEF TypeOK, CommitJoin
  <2>2. /\ UNCHANGED <<payment_status, evaluation_deadline, evaluation, ledger>>
        /\ \A q \in requests' : q \in requests
    BY <1>12 DEF CommitJoin, Done, moneyVars
  <2>3. \A a \in Bookings \ {b} : session'[a] = session[a]
    BY <1>12, <2>1 DEF TypeOK, CommitJoin
  <2>4. session[b].connected \subseteq Roles
    BY <2>1 DEF TypeOK, Session
  <2>5. /\ session'[b].status \in {"LIVE", "ENDED"} => session'[b].connected = Roles
        /\ session'[b].status # "ABSENT"
        /\ session[b].status = "ENDED" => session'[b].status = "ENDED"
    <3>. DEFINE connected == session[b].connected \cup {r.role}
                room == IF GoesLive(b, connected) THEN "LIVE"
                        ELSE IF session[b].status = "ABSENT" THEN "CREATED"
                        ELSE session[b].status
    <3>1. session'[b] = [session[b] EXCEPT !.status = room, !.connected = connected]
      BY <1>12, <2>1 DEF TypeOK, CommitJoin
    <3>2. session'[b].connected = connected /\ session'[b].status = room
      <4>. HIDE DEF room, connected
      <4>. QED  BY <2>1, <3>1 DEF TypeOK, Session
    <3>. QED  BY <2>1, <2>4, <3>1, <3>2 DEF PaymentInv, PaymentOf, GoesLive
  <2>6. \A a \in Bookings : PaymentOf(a)'
    BY <2>2, <2>3, <2>5 DEF PaymentInv, PaymentOf
  <2>7. StaleCopies'
    BY <2>2 DEF PaymentInv, StaleCopies
  <2>. QED  BY <2>6, <2>7 DEF PaymentInv
<1>13. ASSUME NEW b \in Bookings, NoShow(b) PROVE PaymentInv'
  <2>1. /\ session[b].status = "CREATED" /\ session'[b].status = "NO_SHOW"
        /\ \A a \in Bookings \ {b} : session'[a] = session[a]
        /\ UNCHANGED <<evaluation_deadline, evaluation, requests>>
    BY <1>13 DEF TypeOK, Session, NoShow
  <2>2. /\ \A a \in Bookings \ {b} : Kept(a)
        /\ Kept(b) \/ Refunded(b)
    BY <1>13, RefundWrites DEF NoShow, Kept, moneyVars
  <2>3. \A a \in Bookings : PaymentOf(a)'
    BY <2>1, <2>2 DEF PaymentInv, PaymentOf, Kept, Refunded
  <2>4. StaleCopies'
    BY <2>1 DEF PaymentInv, StaleCopies
  <2>. QED  BY <2>3, <2>4 DEF PaymentInv
<1>14. ASSUME NEW b \in Bookings, EndByTime(b) PROVE PaymentInv'
  <2>1. /\ session[b].status = "LIVE" /\ session'[b].status = "ENDED"
        /\ session'[b].connected = session[b].connected
        /\ \A a \in Bookings \ {b} : session'[a] = session[a]
        /\ UNCHANGED <<evaluation, requests>>
    BY <1>14 DEF TypeOK, Session, EndByTime
  <2>2. /\ \A a \in Bookings \ {b} :
              Kept(a) /\ evaluation_deadline'[a] = evaluation_deadline[a]
        /\ \/ Kept(b) /\ evaluation_deadline'[b] = evaluation_deadline[b]
           \/ Refunded(b) /\ evaluation_deadline'[b] = evaluation_deadline[b]
           \/ /\ payment_status[b] = "PENDING" /\ ledger'[b] = ledger[b]
              /\ payment_status'[b] = "AWAITING_EVALUATION"
              /\ evaluation_deadline'[b] = now + EvaluationWindow
    BY <1>14, RefundWrites DEF TypeOK, EndByTime, Kept, moneyVars
  <2>3. now + EvaluationWindow # None
    BY TimingAssumption DEF TypeOK, Time
  <2>4. evaluation_deadline[b] = None
    BY <2>1 DEF PaymentInv, PaymentOf
  <2>5. ASSUME NEW a \in Bookings, a # b PROVE PaymentOf(a)'
    BY <2>1, <2>2, <2>5 DEF PaymentInv, PaymentOf, Kept
  <2>6. PaymentOf(b)'
    <3>1. PaymentOf(b)
      BY DEF PaymentInv
    <3>. QED  BY <2>1, <2>2, <2>3, <2>4, <3>1 DEF PaymentOf, Kept, Refunded
  <2>7. ASSUME NEW q \in requests'
        PROVE  evaluation_deadline[q.booking] # None =>
                  evaluation_deadline'[q.booking] = evaluation_deadline[q.booking]
    <3>1. q.booking \in Bookings
      BY <2>1, RequestFields DEF TypeOK
    <3>. QED  BY <2>2, <2>4, <3>1
  <2>8. StaleCopies'
    BY <2>1, <2>7 DEF PaymentInv, StaleCopies
  <2>. QED  BY <2>5, <2>6, <2>8 DEF PaymentInv
<1>15. CASE Tick \/ (\E s \in Slots : DeactivateSlot(s)) \/ UNCHANGED vars
  BY <1>15, PaymentFrame DEF Tick, DeactivateSlot, vars, bookingVars, moneyVars
<1>. QED
  BY <1>1, <1>2, <1>3, <1>4, <1>5, <1>6, <1>7, <1>8, <1>9, <1>10, <1>11, <1>12,
     <1>13, <1>14, <1>15
     DEF Next, Candidates, Interviewers, Cleanup, Commit

LEMMA PaymentInvHolds == Spec => []PaymentInv
<1>. DEFINE IInv == TypeOK /\ StatusMatchesRoom /\ JoinsExist /\ PaymentInv
<1>1. Init => IInv
  BY TypeInit, StatusInit, PaymentInit
<1>2. IInv /\ [Next]_vars => IInv'
  BY TypeStep, StatusStep, PaymentStep
<1>. QED  BY <1>1, <1>2, PTL DEF Spec

\* An interviewer is paid once, for a room both sides entered and for an
\* evaluation written by the deadline, however many evaluations are under way
\* and however old the copies they decide from.
THEOREM PaidOnlyForEvaluation == Spec => []PaidForEvaluation
<1>1. PaymentInv => PaidForEvaluation
  BY DEF PaymentInv, PaymentOf, PaidForEvaluation
<1>. QED  BY <1>1, PaymentInvHolds, PTL

\* The cleanup job refunds only bookings that still await their evaluation,
\* and a second evaluation of a paid booking settles nothing.
THEOREM PaidStaysPaid == Spec => PaidIsFinal
<1>1. TypeOK /\ PaymentInv /\ [Next]_vars =>
        [\A b \in Bookings : payment_status[b] = "PAID_TO_INTERVIEWER" =>
            payment_status'[b] = payment_status[b]]_vars
  <2>. SUFFICES ASSUME TypeOK, PaymentInv, Next,
                       NEW b \in Bookings, payment_status[b] = "PAID_TO_INTERVIEWER"
                PROVE  payment_status'[b] = payment_status[b]
    OBVIOUS
  <2>1. ASSUME NEW a \in Bookings, EndByTime(a) \/ NoShow(a)
        PROVE  payment_status'[b] = payment_status[b]
    <3>1. payment_status' = payment_status \/ payment_status[a] = "PENDING"
      BY <2>1 DEF EndByTime, NoShow
    <3>2. payment_status' = payment_status
          \/ \E new \in PaymentStatus : payment_status' = [payment_status EXCEPT ![a] = new]
      BY <2>1 DEF EndByTime, NoShow, Refund, PaymentStatus
    <3>. QED  BY <3>1, <3>2 DEF TypeOK
  <2>2. ASSUME NEW a \in Bookings, RefundExpired(a)
        PROVE  payment_status'[b] = payment_status[b]
    <3>1. a # b
      BY <2>2 DEF RefundExpired, Expired
    <3>. QED  BY <2>2, <3>1, RefundWrites, SettleWrites DEF RefundExpired, Kept
  <2>3. ASSUME NEW r \in requests, CommitEvaluation(r)
        PROVE  payment_status'[b] = payment_status[b]
    <3>1. r.booking \in Bookings
      BY <2>3, RequestFields DEF TypeOK
    <3>2. CASE r.booking = b
      BY <2>3, <3>2 DEF CommitEvaluation, PaymentInv, PaymentOf
    <3>3. CASE r.booking # b
      BY <2>3, <3>1, <3>3, SettleWrites DEF CommitEvaluation, DeadlockVictim, Kept
    <3>. QED  BY <3>2, <3>3
  <2>4. ASSUME NEW a \in Bookings,
               \/ Candidates(a) \/ Interviewers(a)
               \/ \E role \in Roles : ReadJoin(a, role)
        PROVE  UNCHANGED payment_status
    BY <2>4 DEF Candidates, Interviewers, Create, CancelByCandidate, CandidateReschedule,
                ReadRescheduleRequest, CancelByInterviewer, Cancel, Complete,
                RejectReschedule, ReadAccept, FinishInterview, ReadEvaluation, ReadJoin,
                bookingVars
  <2>5. ASSUME NEW r \in requests,
               \/ CommitRescheduleRequest(r) \/ CommitAccept(r)
               \/ CommitJoin(r) \/ DecideEvaluation(r)
        PROVE  UNCHANGED payment_status
    BY <2>5 DEF CommitRescheduleRequest, CommitAccept, CommitJoin, DecideEvaluation,
                bookingVars
  <2>6. ASSUME Tick \/ \E s \in Slots : DeactivateSlot(s)
        PROVE  UNCHANGED payment_status
    BY <2>6 DEF Tick, DeactivateSlot, bookingVars
  <2>. QED  BY <2>1, <2>2, <2>3, <2>4, <2>5, <2>6 DEF Next, Cleanup, Commit
<1>. QED  BY <1>1, TypeCorrect, PaymentInvHolds, PTL DEF Spec, PaidIsFinal

-----------------------------------------------------------------------------
(* Bookings whose room nobody entered *)

\* How a step treats a booking while its room is not there: its ledger is
\* written only together with the end of a CONFIRMED booking.
Untouched(b) ==
    /\ ledger'[b] = ledger[b]
    /\ status'[b] = status[b] \/ status[b] = "ABSENT"

ClosedByHand(b) ==
    /\ status[b] = "CONFIRMED" /\ status'[b] \in Cancellations \cup {"COMPLETED"}
    /\ \E e \in Entries : ledger'[b] = [ledger[b] EXCEPT ![e] = @ + 1]

LEMMA RoomlessKept ==
    ASSUME TypeOK, RoomlessSettledOnce,
           \A b \in Bookings : session'[b].status = "ABSENT" =>
              session[b].status = "ABSENT" /\ (Untouched(b) \/ ClosedByHand(b))
    PROVE  RoomlessSettledOnce'
<1>. SUFFICES ASSUME NEW b \in Bookings, session'[b].status = "ABSENT"
              PROVE  /\ Settlements(b)' <= 1
                     /\ Settlements(b)' = 1 =>
                           status'[b] \notin {"ABSENT", "CONFIRMED", "LIVE"}
  BY DEF RoomlessSettledOnce
<1>1. ledger[b] \in [Entries -> Nat] /\ session[b].status = "ABSENT"
  BY DEF TypeOK
<1>2. CASE Untouched(b)
  BY <1>1, <1>2 DEF RoomlessSettledOnce, Settlements, Untouched, Entries
<1>3. CASE ClosedByHand(b)
  <2>1. Settlements(b) = 0
    <3>1. Settlements(b) \in Nat
      BY <1>1 DEF Settlements, Entries
    <3>2. Settlements(b) <= 1 /\ Settlements(b) # 1
      BY <1>1, <1>3 DEF RoomlessSettledOnce, ClosedByHand
    <3>. HIDE DEF Settlements
    <3>. QED  BY <3>1, <3>2
  <2>2. Settlements(b)' = Settlements(b) + 1
    BY <1>1, <1>3 DEF Settlements, ClosedByHand, Entries
  <2>. QED  BY <1>3, <2>1, <2>2 DEF ClosedByHand, Cancellations
<1>. QED  BY <1>1, <1>2, <1>3

LEMMA RoomlessStep ==
    ASSUME TypeOK, PaymentInv, RoomlessSettledOnce, [Next]_vars
    PROVE  RoomlessSettledOnce'
<1>. SUFFICES ASSUME NEW b \in Bookings, session'[b].status = "ABSENT"
              PROVE  session[b].status = "ABSENT" /\ (Untouched(b) \/ ClosedByHand(b))
  BY RoomlessKept
<1>1. CASE session'[b].status = session[b].status /\ ledger'[b] = ledger[b]
           /\ status'[b] = status[b]
  BY <1>1 DEF Untouched
<1>2. ASSUME NEW a \in Bookings, NEW c \in Users, NEW s \in Slots, Create(a, c, s)
      PROVE  session[b].status = "ABSENT" /\ Untouched(b)
  BY <1>2 DEF TypeOK, Create, Untouched
<1>3. ASSUME NEW a \in Bookings,
             CancelByCandidate(a) \/ CancelByInterviewer(a) \/ Complete(a)
      PROVE  session[b].status = "ABSENT" /\ (Untouched(b) \/ ClosedByHand(b))
  <2>1. /\ status[a] = "CONFIRMED" /\ UNCHANGED session
        /\ \E new \in Cancellations \cup {"COMPLETED"} : status' = [status EXCEPT ![a] = new]
        /\ \E e \in Entries : Record(a, e)
    <3>1. CASE CancelByCandidate(a)
      BY <3>1 DEF CancelByCandidate, Cancel, Unlock, Entries, Cancellations
    <3>2. CASE CancelByInterviewer(a)
      BY <3>2 DEF CancelByInterviewer, Cancel, Unlock, Entries, Cancellations
    <3>3. CASE Complete(a)
      BY <3>3 DEF Complete, Transfer, Entries
    <3>. QED  BY <1>3, <3>1, <3>2, <3>3
  <2>. QED  BY <2>1 DEF TypeOK, Record, Untouched, ClosedByHand
<1>4. ASSUME NEW a \in Bookings, FinishInterview(a)
      PROVE  session'[b].status = session[b].status /\ ledger'[b] = ledger[b]
             /\ status'[b] = status[b]
  BY <1>4 DEF TypeOK, Session, FinishInterview, bookingVars, moneyVars
<1>5. ASSUME NEW r \in requests, CommitJoin(r)
      PROVE  session'[b].status = session[b].status /\ ledger'[b] = ledger[b]
             /\ status'[b] = status[b]
  <2>1. r.booking \in Bookings
    BY <1>5, RequestFields DEF TypeOK
  <2>2. session'[r.booking].status # "ABSENT"
    BY <1>5, <2>1 DEF TypeOK, Session, CommitJoin
  <2>. QED  BY <1>5, <2>1, <2>2 DEF TypeOK, CommitJoin, moneyVars
<1>6. ASSUME NEW a \in Bookings, EndByTime(a) \/ NoShow(a)
      PROVE  session'[b].status = session[b].status /\ ledger'[b] = ledger[b]
             /\ status'[b] = status[b]
  <2>1. session'[a].status # "ABSENT"
    BY <1>6 DEF TypeOK, Session, EndByTime, NoShow
  <2>2. \/ ledger' = ledger
        \/ Refund(a)
    BY <1>6 DEF EndByTime, NoShow, moneyVars
  <2>. QED  BY <1>6, <2>1, <2>2, RefundWrites DEF TypeOK, EndByTime, NoShow, Kept
<1>7. ASSUME NEW a \in Bookings, RefundExpired(a)
      PROVE  session'[b].status = session[b].status /\ ledger'[b] = ledger[b]
             /\ status'[b] = status[b]
  <2>1. UNCHANGED <<session, status>> /\ payment_status[a] = "AWAITING_EVALUATION"
    BY <1>7 DEF RefundExpired, Expired
  <2>2. a # b
    BY <2>1 DEF PaymentInv, PaymentOf
  <2>. QED  BY <1>7, <2>1, <2>2, RefundWrites, SettleWrites DEF RefundExpired, Kept
<1>8. ASSUME NEW r \in requests, CommitEvaluation(r)
      PROVE  session'[b].status = session[b].status /\ ledger'[b] = ledger[b]
             /\ status'[b] = status[b]
  <2>1. UNCHANGED <<session, status>> /\ r.booking \in Bookings /\ r.op = "settle"
    BY <1>8, RequestFields DEF TypeOK, CommitEvaluation
  <2>2. r.booking = b => r.outcome = "skip"
    BY <2>1 DEF PaymentInv, PaymentOf, StaleCopies
  <2>3. \/ UNCHANGED ledger
        \/ Settle(r.booking, r.outcome)
    BY <1>8 DEF CommitEvaluation, DeadlockVictim, moneyVars
  <2>. QED  BY <2>1, <2>2, <2>3, SettleWrites DEF Kept
<1>9. ASSUME NEW a \in Bookings,
             \/ \E s \in Slots : CandidateReschedule(a, s) \/ ReadRescheduleRequest(a, s)
             \/ RejectReschedule(a) \/ ReadAccept(a) \/ ReadEvaluation(a)
             \/ \E role \in Roles : ReadJoin(a, role)
      PROVE  UNCHANGED <<session, ledger, status>>
  BY <1>9 DEF CandidateReschedule, ReadRescheduleRequest, RejectReschedule, ReadAccept,
              ReadEvaluation, ReadJoin, bookingVars, moneyVars
<1>10. ASSUME NEW r \in requests,
              CommitRescheduleRequest(r) \/ CommitAccept(r) \/ DecideEvaluation(r)
       PROVE  UNCHANGED <<session, ledger, status>>
  BY <1>10 DEF CommitRescheduleRequest, CommitAccept, DecideEvaluation, bookingVars, moneyVars
<1>11. ASSUME Tick \/ (\E s \in Slots : DeactivateSlot(s)) \/ UNCHANGED vars
       PROVE  UNCHANGED <<session, ledger, status>>
  BY <1>11 DEF Tick, DeactivateSlot, vars, bookingVars, moneyVars
<1>. QED
  BY <1>1, <1>2, <1>3, <1>4, <1>5, <1>6, <1>7, <1>8, <1>9, <1>10, <1>11
     DEF Next, Candidates, Interviewers, Cleanup, Commit

\* While nobody has entered the room, cancelling and completing exclude each
\* other and no settlement of a room reaches the booking.
THEOREM RoomlessIsSettledOnce == Spec => []RoomlessSettledOnce
<1>1. Init => RoomlessSettledOnce
  BY DEF Init, RoomlessSettledOnce, Settlements, Entries
<1>2. TypeOK /\ PaymentInv /\ RoomlessSettledOnce /\ [Next]_vars => RoomlessSettledOnce'
  BY RoomlessStep
<1>. QED  BY <1>1, <1>2, TypeCorrect, PaymentInvHolds, PTL DEF Spec

-----------------------------------------------------------------------------
(* The promise of a slot *)

\* Before its first cancellation a booking is not marked as cancelled.
Uncancelled == \A b \in Bookings : status[b] \in {"ABSENT", "CONFIRMED"} => ~cancelled_at[b]

\* How a step changes what SlotCapacity sees of a booking.
SamePlace(b) == Place(b)' = Place(b) /\ Over(b)' = Over(b)

PlaceTaken(b, s) ==
    /\ ~Over(b) /\ ~Over(b)'
    /\ Place(b) # s /\ Place(b)' = s
    /\ HasCapacity(s)

PlaceGivenUp(b) == Place(b) # None /\ Place(b)' = None /\ Over(b)'

\* The instance counts with its own copy of Cardinality.
LEMMA SameCardinality == \A S : Places!Cardinality(S) = Cardinality(S)
BY DEF Places!Cardinality, Cardinality

LEMMA TakeRefines ==
    ASSUME NEW b \in Bookings, NEW s \in Slots, PlaceTaken(b, s),
           \A a \in Bookings \ {b} : SamePlace(a)
    PROVE  Places!Take(b, s)
<1>. DEFINE place == [a \in Bookings |-> Place(a)]
            closed == {a \in Bookings : Over(a)}
<1>1. Cardinality({a \in Bookings : place[a] = s}) < MaxBookings[s]
  <2>1. {a \in Bookings : place[a] = s} \subseteq Occupants(s)
    BY ConfigAssumption DEF Place, Occupants
  <2>2. IsFiniteSet(Occupants(s))
    BY ConfigAssumption, FS_Subset DEF Occupants
  <2>3. /\ IsFiniteSet({a \in Bookings : place[a] = s})
        /\ Cardinality({a \in Bookings : place[a] = s}) <= Cardinality(Occupants(s))
    BY <2>1, <2>2, FS_Subset
  <2>4. /\ Cardinality({a \in Bookings : place[a] = s}) \in Nat
        /\ Cardinality(Occupants(s)) \in Nat
    BY <2>2, <2>3, FS_CardinalityType
  <2>5. MaxBookings[s] \in Nat /\ Cardinality(Occupants(s)) < MaxBookings[s]
    BY ConfigAssumption DEF PlaceTaken, HasCapacity
  <2>. QED  BY <2>3, <2>4, <2>5
<1>2. b \notin closed /\ place[b] # s
  BY DEF PlaceTaken
<1>3. place' = [place EXCEPT ![b] = s]
  <2>1. Place(b)' = s /\ \A a \in Bookings \ {b} : Place(a)' = Place(a)
    BY DEF PlaceTaken, SamePlace
  <2>. QED  BY <2>1 DEF Place
<1>4. closed' = closed
  BY DEF PlaceTaken, SamePlace
<1>. QED  BY <1>1, <1>2, <1>3, <1>4, SameCardinality DEF Places!Take, Places!Holding

LEMMA GiveUpRefines ==
    ASSUME NEW b \in Bookings, PlaceGivenUp(b), \A a \in Bookings \ {b} : SamePlace(a)
    PROVE  Places!GiveUp(b)
<1>. DEFINE place == [a \in Bookings |-> Place(a)]
            closed == {a \in Bookings : Over(a)}
<1>1. place' = [place EXCEPT ![b] = None]
  <2>1. Place(b)' = None /\ \A a \in Bookings \ {b} : Place(a)' = Place(a)
    BY DEF PlaceGivenUp, SamePlace
  <2>. QED  BY <2>1 DEF Place
<1>2. closed' = closed \cup {b}
  BY DEF PlaceGivenUp, SamePlace
<1>. QED  BY <1>1, <1>2 DEF PlaceGivenUp, Places!GiveUp

LEMMA UncancelledStep ==
    ASSUME TypeOK, JoinsExist, Uncancelled, [Next]_vars
    PROVE  Uncancelled'
<1>1. ASSUME NEW b \in Bookings, NEW c \in Users, NEW s \in Slots, Create(b, c, s)
      PROVE  Uncancelled'
  BY <1>1 DEF TypeOK, Uncancelled, Create
<1>2. ASSUME NEW b \in Bookings, CancelByCandidate(b) \/ CancelByInterviewer(b)
      PROVE  Uncancelled'
  BY <1>2 DEF TypeOK, Uncancelled, CancelByCandidate, CancelByInterviewer, Cancel
<1>3. ASSUME UNCHANGED cancelled_at,
             \A b \in Bookings : status'[b] \in {"ABSENT", "CONFIRMED"} => status'[b] = status[b]
      PROVE  Uncancelled'
  BY <1>3 DEF Uncancelled
<1>4. ASSUME NEW b \in Bookings, Complete(b) \/ EndByTime(b) \/ NoShow(b)
      PROVE  Uncancelled'
  <2>1. /\ UNCHANGED cancelled_at
        /\ \E new \in Status \ {"ABSENT", "CONFIRMED"} : status' = [status EXCEPT ![b] = new]
    BY <1>4 DEF Complete, EndByTime, NoShow, Status
  <2>. QED  BY <1>3, <2>1 DEF TypeOK
<1>5. ASSUME NEW r \in requests, CommitJoin(r)
      PROVE  Uncancelled'
  BY <1>3, <1>5 DEF TypeOK, CommitJoin
<1>6. ASSUME NEW b \in Bookings,
             \/ \E s \in Slots : CandidateReschedule(b, s) \/ ReadRescheduleRequest(b, s)
             \/ RejectReschedule(b) \/ ReadAccept(b) \/ FinishInterview(b)
             \/ ReadEvaluation(b) \/ RefundExpired(b)
             \/ \E role \in Roles : ReadJoin(b, role)
      PROVE  UNCHANGED <<status, cancelled_at>>
  BY <1>6 DEF CandidateReschedule, ReadRescheduleRequest, RejectReschedule, ReadAccept,
              FinishInterview, ReadEvaluation, RefundExpired, ReadJoin, bookingVars
<1>7. ASSUME NEW r \in requests,
             \/ CommitRescheduleRequest(r) \/ CommitAccept(r)
             \/ DecideEvaluation(r) \/ CommitEvaluation(r)
      PROVE  UNCHANGED <<status, cancelled_at>>
  BY <1>7 DEF CommitRescheduleRequest, CommitAccept, DecideEvaluation, CommitEvaluation,
              bookingVars
<1>8. ASSUME Tick \/ (\E s \in Slots : DeactivateSlot(s)) \/ UNCHANGED vars
      PROVE  UNCHANGED <<status, cancelled_at>>
  BY <1>8 DEF Tick, DeactivateSlot, vars, bookingVars
<1>. QED
  BY <1>1, <1>2, <1>3, <1>4, <1>5, <1>6, <1>7, <1>8
     DEF Next, Candidates, Interviewers, Cleanup, Commit

\* Every step takes one free place, gives one up or changes no place.
LEMMA PlacesStep ==
    ASSUME TypeOK, StatusMatchesRoom, JoinsExist, MovesInv, Uncancelled, [Next]_vars
    PROVE  \/ \E b \in Bookings : /\ \A a \in Bookings \ {b} : SamePlace(a)
                                  /\ PlaceGivenUp(b) \/ \E s \in Slots : PlaceTaken(b, s)
           \/ \A b \in Bookings : SamePlace(b)
<1>. USE ConfigAssumption
<1>1. ASSUME NEW b \in Bookings, NEW c \in Users, NEW s \in Slots, Create(b, c, s)
      PROVE  PlaceTaken(b, s) /\ \A a \in Bookings \ {b} : SamePlace(a)
  BY <1>1 DEF TypeOK, Uncancelled, Create, PlaceTaken, SamePlace, Place, Over, Occupying
<1>2. ASSUME NEW b \in Bookings, CancelByCandidate(b) \/ CancelByInterviewer(b)
      PROVE  PlaceGivenUp(b) /\ \A a \in Bookings \ {b} : SamePlace(a)
  <2>1. /\ status[b] = "CONFIRMED" /\ UNCHANGED availability
        /\ \E new \in Cancellations : status' = [status EXCEPT ![b] = new]
        /\ cancelled_at' = [cancelled_at EXCEPT ![b] = TRUE]
    BY <1>2 DEF CancelByCandidate, CancelByInterviewer, Cancel, Cancellations
  <2>2. availability[b] # None
    BY <2>1 DEF MovesInv
  <2>. QED  BY <2>1, <2>2
            DEF TypeOK, Uncancelled, PlaceGivenUp, SamePlace, Place, Over, Occupying
<1>3. ASSUME NEW b \in Bookings, NEW s \in Slots, CandidateReschedule(b, s)
      PROVE  PlaceTaken(b, s) /\ \A a \in Bookings \ {b} : SamePlace(a)
  BY <1>3 DEF TypeOK, Uncancelled, CandidateReschedule, MayMoveTo, PlaceTaken, SamePlace,
              Place, Over, Occupying
<1>4. ASSUME NEW r \in requests, CommitAccept(r)
      PROVE  \/ /\ \A a \in Bookings \ {r.booking} : SamePlace(a)
                /\ r.booking \in Bookings
                /\ \E s \in Slots : PlaceTaken(r.booking, s)
             \/ \A a \in Bookings : SamePlace(a)
  <2>. DEFINE b == r.booking
              s == reschedule[b].proposed
  <2>1. b \in Bookings /\ UNCHANGED <<status, cancelled_at>>
    BY <1>4, RequestFields DEF TypeOK, CommitAccept
  <2>2. CASE UNCHANGED availability
    BY <2>1, <2>2 DEF SamePlace, Place, Over
  <2>3. CASE MayAccept(b) /\ availability' = [availability EXCEPT ![b] = s]
    <3>1. s \in Slots /\ status[b] # "ABSENT" /\ availability[b] \in Slots
      BY <2>1, <2>3 DEF TypeOK, Reschedule, MovesInv, MovesStayWithInterviewer, MayAccept
    <3>2. \A a \in Bookings \ {b} : SamePlace(a)
      BY <2>1, <2>3 DEF TypeOK, SamePlace, Place, Over
    <3>3. CASE Over(b) \/ availability[b] = s
      <4>1. SamePlace(b)
        BY <2>1, <2>3, <3>1, <3>3 DEF TypeOK, SamePlace, Place, Over
      <4>. QED  BY <3>2, <4>1
    <3>4. CASE ~Over(b) /\ availability[b] # s
      <4>1. PlaceTaken(b, s)
        BY <2>1, <2>3, <3>1, <3>4 DEF TypeOK, PlaceTaken, Place, Over, MayAccept
      <4>. QED  BY <2>1, <3>1, <3>2, <4>1
    <3>. QED  BY <3>3, <3>4
  <2>. QED  BY <1>4, <2>2, <2>3 DEF CommitAccept
<1>5. ASSUME NEW r \in requests, CommitJoin(r)
      PROVE  \A a \in Bookings : SamePlace(a)
  <2>. DEFINE b == r.booking
  <2>1. b \in Bookings /\ status[b] # "ABSENT" /\ UNCHANGED <<availability, cancelled_at>>
    BY <1>5, RequestFields DEF TypeOK, JoinsExist, CommitJoin
  <2>2. CASE status' = status
    BY <2>1, <2>2 DEF SamePlace, Place, Over
  <2>3. CASE /\ session[b].status \in {"ABSENT", "CREATED"}
             /\ status' = [status EXCEPT ![b] = "LIVE"]
    <3>1. cancelled_at[b] \/ status[b] \in Occupying
      BY <2>1, <2>3 DEF TypeOK, StatusMatchesRoom, NoShows, Cancellations, Status, Occupying
    <3>. QED  BY <2>1, <2>3, <3>1 DEF TypeOK, SamePlace, Place, Over, Occupying
  <2>. QED  BY <1>5, <2>2, <2>3 DEF CommitJoin, GoesLive
<1>6. ASSUME NEW b \in Bookings, Complete(b) \/ EndByTime(b)
      PROVE  \A a \in Bookings : SamePlace(a)
  <2>1. /\ status[b] \in Occupying /\ status' = [status EXCEPT ![b] = "COMPLETED"]
        /\ UNCHANGED <<availability, cancelled_at>>
    BY <1>6 DEF Complete, EndByTime, StatusMatchesRoom, Occupying
  <2>. QED  BY <2>1 DEF TypeOK, SamePlace, Place, Over, Occupying
<1>7. ASSUME NEW b \in Bookings, NoShow(b)
      PROVE  /\ \A a \in Bookings \ {b} : SamePlace(a)
             /\ SamePlace(b) \/ PlaceGivenUp(b)
  <2>1. /\ UNCHANGED <<availability, cancelled_at>>
        /\ \E new \in NoShows : status' = [status EXCEPT ![b] = new]
        /\ session[b].status = "CREATED"
    BY <1>7 DEF NoShow, NoShows
  <2>2. status[b] # "ABSENT" /\ availability[b] # None
    BY <2>1 DEF StatusMatchesRoom, MovesInv
  <2>3. cancelled_at[b] \/ status[b] \in Occupying
    BY <2>1, <2>2 DEF TypeOK, StatusMatchesRoom, NoShows, Cancellations, Status, Occupying
  <2>. QED  BY <2>1, <2>2, <2>3
            DEF TypeOK, SamePlace, PlaceGivenUp, Place, Over, Occupying, NoShows
<1>8. ASSUME UNCHANGED <<status, availability, cancelled_at>>
      PROVE  \A a \in Bookings : SamePlace(a)
  BY <1>8 DEF SamePlace, Place, Over
<1>9. ASSUME NEW b \in Bookings,
             \/ \E s \in Slots : ReadRescheduleRequest(b, s)
             \/ RejectReschedule(b) \/ ReadAccept(b) \/ FinishInterview(b)
             \/ ReadEvaluation(b) \/ RefundExpired(b)
             \/ \E role \in Roles : ReadJoin(b, role)
      PROVE  UNCHANGED <<status, availability, cancelled_at>>
  BY <1>9 DEF ReadRescheduleRequest, RejectReschedule, ReadAccept, FinishInterview,
              ReadEvaluation, RefundExpired, ReadJoin, bookingVars
<1>10. ASSUME NEW r \in requests,
              CommitRescheduleRequest(r) \/ DecideEvaluation(r) \/ CommitEvaluation(r)
       PROVE  UNCHANGED <<status, availability, cancelled_at>>
  BY <1>10 DEF CommitRescheduleRequest, DecideEvaluation, CommitEvaluation, bookingVars
<1>11. ASSUME Tick \/ (\E s \in Slots : DeactivateSlot(s)) \/ UNCHANGED vars
       PROVE  UNCHANGED <<status, availability, cancelled_at>>
  BY <1>11 DEF Tick, DeactivateSlot, vars, bookingVars
<1>. QED
  BY <1>1, <1>2, <1>3, <1>4, <1>5, <1>6, <1>7, <1>8, <1>9, <1>10, <1>11
     DEF Next, Candidates, Interviewers, Cleanup, Commit

\* The row locks and counts of the handlers implement the promise of a slot:
\* each step of the booking system is one of SlotCapacity or changes nothing
\* there, for any number of bookings, slots and concurrent requests.
THEOREM SlotCapacityImplemented == Spec => PlacesSpec
<1>. DEFINE place == [b \in Bookings |-> Place(b)]
            closed == {b \in Bookings : Over(b)}
            IInv == TypeOK /\ StatusMatchesRoom /\ JoinsExist /\ MovesInv /\ Uncancelled
<1>1. Init => IInv
  <2>1. Init => Uncancelled
    BY DEF Init, Uncancelled
  <2>. QED  BY <2>1, TypeInit, StatusInit, MovesInit
<1>2. IInv /\ [Next]_vars => IInv'
  BY TypeStep, StatusStep, MovesStep, UncancelledStep
<1>3. Init => Places!Init
  BY DEF Init, Places!Init, Place, Over, Occupying
<1>4. IInv /\ [Next]_vars => [Places!Next]_<<place, closed>>
  <2>. SUFFICES ASSUME IInv, [Next]_vars
                PROVE  [Places!Next]_<<place, closed>>
    OBVIOUS
  <2>1. ASSUME \A b \in Bookings : SamePlace(b)
        PROVE  UNCHANGED <<place, closed>>
    BY <2>1 DEF SamePlace
  <2>2. ASSUME NEW b \in Bookings, \A a \in Bookings \ {b} : SamePlace(a),
               PlaceGivenUp(b) \/ \E s \in Slots : PlaceTaken(b, s)
        PROVE  Places!Next
    BY <2>2, TakeRefines, GiveUpRefines DEF Places!Next
  <2>. QED  BY <2>1, <2>2, PlacesStep
<1>. QED  BY <1>1, <1>2, <1>3, <1>4, PTL DEF Spec, PlacesSpec, Places!Spec

-----------------------------------------------------------------------------
(* Wallets and ledger *)

\* A booking that does not exist has no party and no ledger rows.
AbsentIsBlank ==
    \A b \in Bookings : status[b] = "ABSENT" =>
        party[b] = NoParty /\ \A e \in Entries : ledger[b][e] = 0

MoneyInv == AbsentIsBlank /\ WalletsMatchLedger

TermsTyped ==
    \A u \in Users, b \in Bookings :
        /\ TokenCost(b) \in Nat /\ Settlements(b) \in Nat /\ Paid(b) \in Nat
        /\ LockedFor(u, b) \in Int /\ EarnedWith(u, b) \in Int

LEMMA TermTypes == TypeOK => TermsTyped
<1>. SUFFICES ASSUME TypeOK, NEW u \in Users, NEW b \in Bookings
              PROVE  /\ TokenCost(b) \in Nat /\ Settlements(b) \in Nat /\ Paid(b) \in Nat
                     /\ LockedFor(u, b) \in Int /\ EarnedWith(u, b) \in Int
  BY DEF TermsTyped
<1>1. TokenCost(b) \in Nat
  BY DEF TypeOK, TokenCost, Party, NoParty
<1>2. ledger[b] \in [Entries -> Nat]
  BY DEF TypeOK
<1>3. Settlements(b) \in Nat /\ ledger[b]["COMPLETE_EARN"] + ledger[b]["SESSION_EARN"] \in Nat
  BY <1>2 DEF Entries, Settlements
<1>4. Paid(b) \in Nat
  BY <1>1, <1>3 DEF Paid
<1>5. LockedFor(u, b) \in Int
  <2>. HIDE DEF Settlements
  <2>. QED  BY <1>1, <1>3 DEF LockedFor
<1>. QED  BY <1>1, <1>3, <1>4, <1>5 DEF EarnedWith

LEMMA TermTypesNext == TypeOK' => TermsTyped'
BY TermTypes, PTL

\* A step that writes the party and the ledger of one booking changes one
\* term of what the ledger says of a user.
LEMMA OneTerm ==
    ASSUME TypeOK, TypeOK', NEW u \in Users, NEW b \in Bookings,
           \A a \in Bookings \ {b} : party'[a] = party[a] /\ ledger'[a] = ledger[a]
    PROVE  /\ LockedByLedger(u) \in Int /\ EarnedByLedger(u) \in Int
           /\ LockedByLedger(u)' = LockedByLedger(u) + LockedFor(u, b)' - LockedFor(u, b)
           /\ EarnedByLedger(u)' = EarnedByLedger(u) + EarnedWith(u, b)' - EarnedWith(u, b)
<1>. DEFINE lo == [a \in Bookings |-> LockedFor(u, a)]
            ea == [a \in Bookings |-> EarnedWith(u, a)]
            lo2 == [a \in Bookings |-> LockedFor(u, a)']
            ea2 == [a \in Bookings |-> EarnedWith(u, a)']
<1>1. /\ LockedByLedger(u) = SumFunctionOnSet(lo, Bookings)
      /\ EarnedByLedger(u) = SumFunctionOnSet(ea, Bookings)
  BY DEF LockedByLedger, EarnedByLedger, SumFunction
<1>2. /\ LockedByLedger(u)' = SumFunctionOnSet(lo2, Bookings)
      /\ EarnedByLedger(u)' = SumFunctionOnSet(ea2, Bookings)
  BY DEF LockedByLedger, EarnedByLedger, SumFunction, LockedFor, EarnedWith
<1>3. \A a \in Bookings : /\ lo[a] \in Int /\ ea[a] \in Int
                          /\ lo2[a] \in Int /\ ea2[a] \in Int
  <2>1. \A a \in Bookings : LockedFor(u, a)' \in Int /\ EarnedWith(u, a)' \in Int
    <3>1. TermsTyped'
      BY TermTypesNext
    <3>. QED  BY <3>1 DEF TermsTyped
  <2>. QED  BY <2>1, TermTypes DEF TermsTyped
<1>4. \A a \in Bookings \ {b} : lo2[a] = lo[a] /\ ea2[a] = ea[a]
  BY DEF LockedFor, EarnedWith, Candidate, TokenCost, Settlements, Paid
<1>5. IsFiniteSet(Bookings)
  BY ConfigAssumption
<1>6. /\ lo[b] = LockedFor(u, b) /\ lo2[b] = LockedFor(u, b)'
      /\ ea[b] = EarnedWith(u, b) /\ ea2[b] = EarnedWith(u, b)'
  OBVIOUS
<1>. HIDE DEF lo, ea, lo2, ea2
<1>7. SumFunctionOnSet(lo, Bookings) \in Int /\ SumFunctionOnSet(ea, Bookings) \in Int
  BY <1>3, <1>5, SumRemove
<1>8. /\ SumFunctionOnSet(lo2, Bookings) = SumFunctionOnSet(lo, Bookings) + lo2[b] - lo[b]
      /\ SumFunctionOnSet(ea2, Bookings) = SumFunctionOnSet(ea, Bookings) + ea2[b] - ea[b]
  BY <1>3, <1>4, <1>5, SumUpdate
<1>. QED  BY <1>1, <1>2, <1>6, <1>7, <1>8

\* How one more entry changes the terms of its booking.
LEMMA OneEntry ==
    ASSUME TypeOK, NEW b \in Bookings, NEW e \in Entries, Record(b, e), UNCHANGED party
    PROVE  /\ \A a \in Bookings \ {b} : party'[a] = party[a] /\ ledger'[a] = ledger[a]
           /\ Settlements(b)' = Settlements(b) + 1
           /\ TokenCost(b)' = TokenCost(b) /\ Candidate(b)' = Candidate(b)
           /\ Paid(b)' = IF e \in {"COMPLETE_EARN", "SESSION_EARN"}
                         THEN Paid(b) + TokenCost(b) ELSE Paid(b)
<1>1. ledger[b] \in [Entries -> Nat] /\ TokenCost(b) \in Nat
  BY DEF TypeOK, TokenCost, Party, NoParty
<1>2. ledger' = [ledger EXCEPT ![b] = [ledger[b] EXCEPT ![e] = @ + 1]]
  BY DEF TypeOK, Record
<1>3. /\ \A a \in Bookings \ {b} : party'[a] = party[a] /\ ledger'[a] = ledger[a]
      /\ ledger'[b] = [ledger[b] EXCEPT ![e] = @ + 1]
  BY <1>2 DEF TypeOK
<1>4. TokenCost(b)' = TokenCost(b) /\ Candidate(b)' = Candidate(b)
  BY DEF TokenCost, Candidate
<1>5. Settlements(b)' = Settlements(b) + 1
  BY <1>1, <1>3 DEF Settlements, Entries
<1>. DEFINE earn == ledger[b]["COMPLETE_EARN"] + ledger[b]["SESSION_EARN"]
            earn2 == ledger'[b]["COMPLETE_EARN"] + ledger'[b]["SESSION_EARN"]
<1>6. /\ earn \in Nat
      /\ earn2 = IF e \in {"COMPLETE_EARN", "SESSION_EARN"} THEN earn + 1 ELSE earn
  BY <1>1, <1>3 DEF Entries
<1>7. Paid(b) = TokenCost(b) * earn /\ Paid(b)' = TokenCost(b) * earn2
  BY <1>4 DEF Paid
<1>. HIDE DEF earn, earn2
<1>8. TokenCost(b) * (earn + 1) = TokenCost(b) * earn + TokenCost(b)
  BY <1>1, <1>6
<1>. QED  BY <1>3, <1>4, <1>5, <1>6, <1>7, <1>8

LEMMA LockedTerm ==
    ASSUME TypeOK, NEW u, NEW b \in Bookings,
           Settlements(b) \in Nat, TokenCost(b) \in Nat,
           Settlements(b)' = Settlements(b) + 1,
           TokenCost(b)' = TokenCost(b), Candidate(b)' = Candidate(b)
    PROVE  LockedFor(u, b)' = IF Candidate(b) = u THEN LockedFor(u, b) - TokenCost(b)
                              ELSE LockedFor(u, b)
<1>. DEFINE n == Settlements(b)
            n2 == Settlements(b)'
            c == TokenCost(b)
<1>1. n \in Nat /\ c \in Nat /\ n2 = n + 1
  OBVIOUS
<1>2. /\ LockedFor(u, b) = IF Candidate(b) = u THEN c * (1 - n) ELSE 0
      /\ LockedFor(u, b)' = IF Candidate(b) = u THEN c * (1 - n2) ELSE 0
  BY DEF LockedFor
<1>3. c * (1 - n2) = c * (1 - n) - c
  <2>. HIDE DEF n, n2, c
  <2>. QED  BY <1>1
<1>. QED  BY <1>2, <1>3

LEMMA MoneyUnlocked ==
    ASSUME TypeOK, TypeOK', WalletsMatchLedger, UNCHANGED party,
           NEW b \in Bookings, NEW e \in Entries \ {"COMPLETE_EARN", "SESSION_EARN"},
           Unlock(b, e)
    PROVE  WalletsMatchLedger'
<1>. SUFFICES ASSUME NEW u \in Users
              PROVE  /\ wallet'[u].locked_balance = LockedByLedger(u)'
                     /\ wallet'[u].balance + wallet'[u].locked_balance
                          = InitialBalance[u] + EarnedByLedger(u)'
  BY DEF WalletsMatchLedger
<1>1. /\ TokenCost(b) \in Nat /\ Settlements(b) \in Nat /\ Paid(b) \in Nat
      /\ LockedFor(u, b) \in Int /\ EarnedWith(u, b) \in Int
  BY TermTypes DEF TermsTyped
<1>2. /\ \A a \in Bookings \ {b} : party'[a] = party[a] /\ ledger'[a] = ledger[a]
      /\ Settlements(b)' = Settlements(b) + 1 /\ Paid(b)' = Paid(b)
      /\ TokenCost(b)' = TokenCost(b) /\ Candidate(b)' = Candidate(b)
  BY OneEntry DEF Unlock
<1>3. LockedFor(u, b)' = IF Candidate(b) = u THEN LockedFor(u, b) - TokenCost(b)
                         ELSE LockedFor(u, b)
  BY <1>1, <1>2, LockedTerm
<1>4. EarnedWith(u, b)' = EarnedWith(u, b)
  BY <1>2 DEF EarnedWith
<1>5. /\ LockedByLedger(u) \in Int /\ EarnedByLedger(u) \in Int
      /\ LockedByLedger(u)' = LockedByLedger(u) + LockedFor(u, b)' - LockedFor(u, b)
      /\ EarnedByLedger(u)' = EarnedByLedger(u) + EarnedWith(u, b)' - EarnedWith(u, b)
  BY <1>2, OneTerm
<1>6. /\ wallet[u].balance \in Nat /\ wallet[u].locked_balance \in Nat
      /\ wallet'[u] = IF Candidate(b) = u
                      THEN [balance |-> wallet[u].balance + TokenCost(b),
                            locked_balance |-> wallet[u].locked_balance - TokenCost(b)]
                      ELSE wallet[u]
  BY DEF TypeOK, Wallet, Unlock, UnlockTokens
<1>7. /\ wallet[u].locked_balance = LockedByLedger(u)
      /\ wallet[u].balance + wallet[u].locked_balance
           = InitialBalance[u] + EarnedByLedger(u)
      /\ InitialBalance[u] \in Nat
  BY ConfigAssumption DEF WalletsMatchLedger
<1>. QED  BY <1>1, <1>3, <1>4, <1>5, <1>6, <1>7

LEMMA MoneyTransferred ==
    ASSUME TypeOK, TypeOK', WalletsMatchLedger, UNCHANGED party,
           NEW b \in Bookings, NEW e \in {"COMPLETE_EARN", "SESSION_EARN"},
           Transfer(b, e)
    PROVE  WalletsMatchLedger'
<1>. SUFFICES ASSUME NEW u \in Users
              PROVE  /\ wallet'[u].locked_balance = LockedByLedger(u)'
                     /\ wallet'[u].balance + wallet'[u].locked_balance
                          = InitialBalance[u] + EarnedByLedger(u)'
  BY DEF WalletsMatchLedger
<1>. DEFINE i == party[b].interviewer
            c == Candidate(b)
            cost == TokenCost(b)
<1>1. /\ cost \in Nat /\ Settlements(b) \in Nat /\ Paid(b) \in Nat
      /\ LockedFor(u, b) \in Int /\ EarnedWith(u, b) \in Int
  BY TermTypes DEF TermsTyped
<1>2. /\ \A a \in Bookings \ {b} : party'[a] = party[a] /\ ledger'[a] = ledger[a]
      /\ Settlements(b)' = Settlements(b) + 1 /\ Paid(b)' = Paid(b) + cost
      /\ TokenCost(b)' = cost /\ Candidate(b)' = c /\ party'[b] = party[b]
  BY OneEntry DEF Transfer, Entries
<1>3. LockedFor(u, b)' = IF c = u THEN LockedFor(u, b) - cost ELSE LockedFor(u, b)
  BY <1>1, <1>2, LockedTerm
<1>4. EarnedWith(u, b)' = EarnedWith(u, b) + (IF i = u THEN cost ELSE 0)
                                           - (IF c = u THEN cost ELSE 0)
  BY <1>1, <1>2 DEF EarnedWith
<1>5. /\ LockedByLedger(u) \in Int /\ EarnedByLedger(u) \in Int
      /\ LockedByLedger(u)' = LockedByLedger(u) + LockedFor(u, b)' - LockedFor(u, b)
      /\ EarnedByLedger(u)' = EarnedByLedger(u) + EarnedWith(u, b)' - EarnedWith(u, b)
  BY <1>2, OneTerm
<1>6. /\ wallet[u].balance \in Nat /\ wallet[u].locked_balance \in Nat
      /\ wallet'[u].balance = wallet[u].balance + (IF i = u THEN cost ELSE 0)
      /\ wallet'[u].locked_balance = wallet[u].locked_balance - (IF c = u THEN cost ELSE 0)
  <2>. DEFINE taken == [balance |-> wallet[c].balance,
                        locked_balance |-> wallet[c].locked_balance - cost]
              spent == [wallet EXCEPT ![c] = taken]
              given == [balance |-> spent[i].balance + cost,
                        locked_balance |-> spent[i].locked_balance]
  <2>1. wallet \in [Users -> Wallet] /\ wallet[u] \in Wallet
    BY DEF TypeOK
  <2>2. wallet' = [spent EXCEPT ![i] = given]
    BY DEF Transfer, TransferLockedTokens
  <2>3. spent \in [Users -> [balance : Nat, locked_balance : Int]]
    <3>1. c \in Users => taken \in [balance : Nat, locked_balance : Int]
      BY <1>1, <2>1 DEF Wallet
    <3>2. wallet \in [Users -> [balance : Nat, locked_balance : Int]]
      BY <2>1 DEF Wallet
    <3>. HIDE DEF taken
    <3>. QED  BY <3>1, <3>2
  <2>4. /\ spent[u].balance = wallet[u].balance
        /\ spent[u].locked_balance = wallet[u].locked_balance - (IF c = u THEN cost ELSE 0)
    <3>1. wallet[u].balance \in Nat /\ wallet[u].locked_balance \in Nat
      BY <2>1 DEF Wallet
    <3>2. CASE c = u
      <4>1. spent[u] = taken
        <5>. HIDE DEF taken
        <5>. QED  BY <2>1, <3>2
      <4>. QED  BY <3>2, <4>1
    <3>3. CASE c # u
      <4>1. spent[u] = wallet[u]
        BY <2>1, <3>3
      <4>. HIDE DEF spent
      <4>. QED  BY <1>1, <3>1, <3>3, <4>1
    <3>. QED  BY <3>2, <3>3
  <2>5. wallet'[u] = IF i = u THEN given ELSE spent[u]
    <3>. HIDE DEF spent, given
    <3>. QED  BY <2>2, <2>3
  <2>. HIDE DEF spent
  <2>. QED  BY <1>1, <2>1, <2>3, <2>4, <2>5 DEF Wallet
<1>7. /\ wallet[u].locked_balance = LockedByLedger(u)
      /\ wallet[u].balance + wallet[u].locked_balance
           = InitialBalance[u] + EarnedByLedger(u)
      /\ InitialBalance[u] \in Nat
  BY ConfigAssumption DEF WalletsMatchLedger
<1>. HIDE DEF i, c, cost
<1>. QED  BY <1>1, <1>3, <1>4, <1>5, <1>6, <1>7

LEMMA MoneyCreated ==
    ASSUME TypeOK, TypeOK', MoneyInv,
           NEW b \in Bookings, NEW c \in Users, NEW s \in Slots, Create(b, c, s)
    PROVE  MoneyInv'
<1>. USE ConfigAssumption
<1>1. /\ status[b] = "ABSENT" /\ party[b] = NoParty /\ UNCHANGED ledger
      /\ \A e \in Entries : ledger[b][e] = 0
      /\ \A a \in Bookings \ {b} : party'[a] = party[a] /\ status'[a] = status[a]
      /\ status'[b] = "CONFIRMED"
      /\ party'[b] = [candidate |-> c, interviewer |-> Owner[s], token_cost |-> Cost[s]]
  BY DEF MoneyInv, AbsentIsBlank, TypeOK, Create
<1>2. AbsentIsBlank'
  BY <1>1 DEF MoneyInv, AbsentIsBlank
<1>3. ASSUME NEW u \in Users
      PROVE  /\ wallet'[u].locked_balance = LockedByLedger(u)'
             /\ wallet'[u].balance + wallet'[u].locked_balance
                  = InitialBalance[u] + EarnedByLedger(u)'
  <2>1. LockedFor(u, b) = 0 /\ EarnedWith(u, b) = 0
    BY <1>1 DEF LockedFor, EarnedWith, Candidate, NoParty
  <2>2. /\ Settlements(b)' = 0 /\ Paid(b)' = 0 /\ Cost[s] \in Nat
        /\ TokenCost(b)' = Cost[s] /\ Candidate(b)' = c
    BY <1>1 DEF Settlements, Paid, Entries, TokenCost, Candidate
  <2>3. LockedFor(u, b)' = IF c = u THEN Cost[s] ELSE 0
    BY <2>2 DEF LockedFor
  <2>4. EarnedWith(u, b)' = 0
    BY <2>2 DEF EarnedWith
  <2>5. /\ LockedByLedger(u) \in Int /\ EarnedByLedger(u) \in Int
        /\ LockedByLedger(u)' = LockedByLedger(u) + LockedFor(u, b)' - LockedFor(u, b)
        /\ EarnedByLedger(u)' = EarnedByLedger(u) + EarnedWith(u, b)' - EarnedWith(u, b)
    BY <1>1, OneTerm
  <2>6. /\ wallet[u].balance \in Nat /\ wallet[u].locked_balance \in Nat
        /\ wallet'[u] = IF c = u
                        THEN [balance |-> wallet[u].balance - Cost[s],
                              locked_balance |-> wallet[u].locked_balance + Cost[s]]
                        ELSE wallet[u]
    BY DEF TypeOK, Wallet, Create, LockTokens
  <2>7. /\ wallet[u].locked_balance = LockedByLedger(u)
        /\ wallet[u].balance + wallet[u].locked_balance
             = InitialBalance[u] + EarnedByLedger(u)
        /\ InitialBalance[u] \in Nat
    BY DEF MoneyInv, WalletsMatchLedger
  <2>. QED  BY <2>1, <2>2, <2>3, <2>4, <2>5, <2>6, <2>7
<1>. QED  BY <1>2, <1>3 DEF MoneyInv, WalletsMatchLedger

LEMMA MoneySame ==
    ASSUME WalletsMatchLedger, UNCHANGED <<wallet, ledger, party>>
    PROVE  WalletsMatchLedger'
<1>. SUFFICES ASSUME NEW u \in Users
              PROVE  LockedByLedger(u)' = LockedByLedger(u) /\ EarnedByLedger(u)' = EarnedByLedger(u)
  BY DEF WalletsMatchLedger
<1>1. /\ [b \in Bookings |-> LockedFor(u, b)]' = [b \in Bookings |-> LockedFor(u, b)]
      /\ [b \in Bookings |-> EarnedWith(u, b)]' = [b \in Bookings |-> EarnedWith(u, b)]
  BY DEF LockedFor, EarnedWith, Candidate, TokenCost, Settlements, Paid
<1>. QED  BY <1>1 DEF LockedByLedger, EarnedByLedger

\* What a step may do to the books: nothing, one release or one payment.
EarnEntries == {"COMPLETE_EARN", "SESSION_EARN"}
Books ==
    \/ UNCHANGED <<wallet, ledger>>
    \/ \E b \in Bookings, e \in Entries \ EarnEntries : Unlock(b, e)
    \/ \E b \in Bookings, e \in EarnEntries : Transfer(b, e)

LEMMA RefundBooks == ASSUME NEW b \in Bookings, Refund(b) PROVE Books
BY DEF Refund, Books, EarnEntries, Entries, moneyVars

LEMMA SettleBooks == ASSUME NEW b \in Bookings, NEW outcome, Settle(b, outcome) PROVE Books
<1>1. CASE Refund(b)
  BY <1>1, RefundBooks
<1>2. CASE Pay(b)
  BY <1>2 DEF Pay, Books, EarnEntries, moneyVars
<1>3. CASE UNCHANGED <<payment_status, moneyVars>>
  BY <1>3 DEF Books, moneyVars
<1>. QED  BY <1>1, <1>2, <1>3 DEF Settle

LEMMA BooksKept ==
    ASSUME TypeOK, TypeOK', MoneyInv, Books, UNCHANGED party,
           \A b \in Bookings : status'[b] = "ABSENT" => status[b] = "ABSENT"
    PROVE  MoneyInv'
<1>1. CASE UNCHANGED <<wallet, ledger>>
  <2>1. AbsentIsBlank'
    BY <1>1 DEF MoneyInv, AbsentIsBlank
  <2>. QED  BY <1>1, <2>1, MoneySame DEF MoneyInv
<1>2. ASSUME NEW b \in Bookings, NEW e \in Entries, Record(b, e), TokenCost(b) > 0
      PROVE  AbsentIsBlank'
  <2>1. status[b] # "ABSENT"
    BY <1>2 DEF MoneyInv, AbsentIsBlank, TokenCost, NoParty
  <2>2. \A a \in Bookings \ {b} : ledger'[a] = ledger[a]
    BY <1>2, OneEntry
  <2>. QED  BY <2>1, <2>2 DEF MoneyInv, AbsentIsBlank
<1>3. ASSUME NEW b \in Bookings, NEW e \in Entries \ EarnEntries, Unlock(b, e)
      PROVE  MoneyInv'
  <2>1. AbsentIsBlank'
    BY <1>2, <1>3 DEF Unlock, CanTakeLocked
  <2>2. WalletsMatchLedger'
    BY <1>3, MoneyUnlocked DEF MoneyInv, EarnEntries
  <2>. QED  BY <2>1, <2>2 DEF MoneyInv
<1>4. ASSUME NEW b \in Bookings, NEW e \in EarnEntries, Transfer(b, e)
      PROVE  MoneyInv'
  <2>1. AbsentIsBlank'
    BY <1>2, <1>4 DEF Transfer, CanTakeLocked, EarnEntries, Entries
  <2>2. WalletsMatchLedger'
    BY <1>4, MoneyTransferred DEF MoneyInv, EarnEntries
  <2>. QED  BY <2>1, <2>2 DEF MoneyInv
<1>. QED  BY <1>1, <1>3, <1>4 DEF Books

LEMMA MoneyStep ==
    ASSUME TypeOK, TypeOK', MoneyInv, [Next]_vars
    PROVE  MoneyInv'
<1>1. ASSUME NEW b \in Bookings, NEW c \in Users, NEW s \in Slots, Create(b, c, s)
      PROVE  MoneyInv'
  BY <1>1, MoneyCreated
<1>2. ASSUME NEW b \in Bookings, CancelByCandidate(b) \/ CancelByInterviewer(b)
      PROVE  MoneyInv'
  <2>1. \E new \in Cancellations, e \in Entries \ EarnEntries : Cancel(b, new, e)
    BY <1>2 DEF CancelByCandidate, CancelByInterviewer, Cancellations, Entries, EarnEntries
  <2>2. /\ UNCHANGED party /\ Books
        /\ \E new \in Cancellations : status' = [status EXCEPT ![b] = new]
    BY <2>1 DEF Cancel, Books
  <2>. QED  BY <2>2, BooksKept DEF TypeOK, Cancellations
<1>3. ASSUME NEW b \in Bookings, Complete(b)
      PROVE  MoneyInv'
  <2>1. /\ UNCHANGED party /\ Books
        /\ status' = [status EXCEPT ![b] = "COMPLETED"]
    BY <1>3 DEF Complete, Books, EarnEntries
  <2>. QED  BY <2>1, BooksKept DEF TypeOK
<1>4. ASSUME NEW b \in Bookings, EndByTime(b) \/ NoShow(b)
      PROVE  MoneyInv'
  <2>1. /\ UNCHANGED party
        /\ \E new \in Status \ {"ABSENT"} : status' = [status EXCEPT ![b] = new]
    BY <1>4 DEF EndByTime, NoShow, Status
  <2>2. Books
    BY <1>4, RefundBooks DEF EndByTime, NoShow, Books, moneyVars
  <2>. QED  BY <2>1, <2>2, BooksKept DEF TypeOK
<1>5. ASSUME NEW b \in Bookings, RefundExpired(b)
      PROVE  MoneyInv'
  <2>1. UNCHANGED <<party, status>> /\ Books
    BY <1>5, RefundBooks, SettleBooks DEF RefundExpired
  <2>. QED  BY <2>1, BooksKept
<1>6. ASSUME NEW r \in requests, CommitEvaluation(r)
      PROVE  MoneyInv'
  <2>1. r.booking \in Bookings /\ UNCHANGED <<party, status>>
    BY <1>6, RequestFields DEF TypeOK, CommitEvaluation
  <2>2. Settle(r.booking, r.outcome) \/ UNCHANGED <<wallet, ledger>>
    BY <1>6 DEF CommitEvaluation, DeadlockVictim, moneyVars
  <2>3. Books
    BY <2>1, <2>2, SettleBooks DEF Books
  <2>. QED  BY <2>1, <2>3, BooksKept
<1>7. ASSUME NEW r \in requests, CommitJoin(r)
      PROVE  MoneyInv'
  <2>1. /\ UNCHANGED <<party, wallet, ledger>>
        /\ \A b \in Bookings : status'[b] = "ABSENT" => status[b] = "ABSENT"
    BY <1>7 DEF TypeOK, CommitJoin, moneyVars
  <2>. QED  BY <2>1, BooksKept DEF Books
<1>8. ASSUME UNCHANGED <<party, wallet, ledger, status>>
      PROVE  MoneyInv'
  BY <1>8, BooksKept DEF Books
<1>9. ASSUME NEW b \in Bookings,
             \/ \E s \in Slots : CandidateReschedule(b, s) \/ ReadRescheduleRequest(b, s)
             \/ RejectReschedule(b) \/ ReadAccept(b) \/ FinishInterview(b)
             \/ ReadEvaluation(b) \/ \E role \in Roles : ReadJoin(b, role)
      PROVE  UNCHANGED <<party, wallet, ledger, status>>
  BY <1>9 DEF CandidateReschedule, ReadRescheduleRequest, RejectReschedule, ReadAccept,
              FinishInterview, ReadEvaluation, ReadJoin, bookingVars, moneyVars
<1>10. ASSUME NEW r \in requests,
              CommitRescheduleRequest(r) \/ CommitAccept(r) \/ DecideEvaluation(r)
       PROVE  UNCHANGED <<party, wallet, ledger, status>>
  BY <1>10 DEF CommitRescheduleRequest, CommitAccept, DecideEvaluation, bookingVars, moneyVars
<1>11. ASSUME Tick \/ (\E s \in Slots : DeactivateSlot(s)) \/ UNCHANGED vars
       PROVE  UNCHANGED <<party, wallet, ledger, status>>
  BY <1>11 DEF Tick, DeactivateSlot, vars, bookingVars, moneyVars
<1>. QED
  BY <1>1, <1>2, <1>3, <1>4, <1>5, <1>6, <1>7, <1>8, <1>9, <1>10, <1>11
     DEF Next, Candidates, Interviewers, Cleanup, Commit

LEMMA MoneyInit == Init => MoneyInv
<1>. SUFFICES ASSUME Init PROVE MoneyInv
  OBVIOUS
<1>. USE ConfigAssumption
<1>1. AbsentIsBlank
  BY DEF Init, AbsentIsBlank
<1>2. ASSUME NEW u \in Users
      PROVE  LockedByLedger(u) = 0 /\ EarnedByLedger(u) = 0
  <2>. DEFINE lo == [b \in Bookings |-> LockedFor(u, b)]
              ea == [b \in Bookings |-> EarnedWith(u, b)]
  <2>1. \A b \in Bookings : lo[b] = 0 /\ ea[b] = 0
    BY DEF Init, LockedFor, EarnedWith, Candidate, NoParty
  <2>2. LockedByLedger(u) = SumFunctionOnSet(lo, Bookings)
        /\ EarnedByLedger(u) = SumFunctionOnSet(ea, Bookings)
    BY DEF LockedByLedger, EarnedByLedger, SumFunction
  <2>. HIDE DEF lo, ea
  <2>. QED  BY <2>1, <2>2, SumOfZeros
<1>. QED  BY <1>1, <1>2 DEF Init, MoneyInv, WalletsMatchLedger

\* For any number of bookings and users, every wallet holds exactly what the
\* ledger accounts for: no handler moves tokens without its row or writes a
\* row without its tokens, whatever is settled twice.
THEOREM WalletsAgreeWithLedger == Spec => []WalletsMatchLedger
<1>1. TypeOK /\ TypeOK' /\ MoneyInv /\ [Next]_vars => MoneyInv'
  BY MoneyStep
<1>2. MoneyInv => WalletsMatchLedger
  BY DEF MoneyInv
<1>. QED  BY <1>1, <1>2, MoneyInit, TypeCorrect, PTL DEF Spec

=============================================================================
