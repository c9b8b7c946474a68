---------------------------- MODULE PayoutProofs ----------------------------
(***************************************************************************)
(* Proofs about Payout, for any tabs, admins, requests, amounts and        *)
(* sessions: types, one active payout, decisions that stay, and tokens     *)
(* that are accounted for.                                                 *)
(***************************************************************************)
EXTENDS Payout, TokenServiceProofs, FiniteSetTheorems

\* A screen that shows something shows a payout.
ShowsPayout == \A a \in Admins : screen[a].view # "away" => screen[a].payout \in Requests

\* A button that is being served is one of the three.
SendsAction ==
    \A a \in Admins : screen[a].view = "sending" => screen[a].action \in {"approve", "reject", "markPaid"}

TypeInv == TypeOK /\ ShowsPayout /\ SendsAction

Actions == {"approve", "reject", "markPaid"}
Screens == [view : {"away", "shown", "sending"}, payout : Requests \cup {None},
            seen : PayoutStatus \cup {None}, action : Actions \cup {None}]
Pages == [view : {"closed", "loading", "refused", "form", "sending"},
          available : Nat, request : Requests \cup {None}]

-----------------------------------------------------------------------------

LEMMA InitTypes == Init => TypeInv
  <1> SUFFICES ASSUME Init PROVE TypeInv
    OBVIOUS
  <1>1. Cardinality(Hosted) * Cost \in Nat
    BY PayoutAssumption, FS_CardinalityType DEF PayoutAssumption
  <1>2. wallet \in [Users -> Wallet]
    BY <1>1, PayoutAssumption DEF PayoutAssumption, Init, Wallet
  <1>3. page \in [Tabs -> Pages]
    BY DEF Init, Closed, Pages
  <1>4. screen \in [Admins -> Screens] /\ ShowsPayout /\ SendsAction
    BY DEF Init, Away, Screens, Actions, ShowsPayout, SendsAction
  <1>5. hosted \in [Hosted -> {"AWAITING_EVALUATION", "PAID_TO_INTERVIEWER", "REFUNDED_TO_CANDIDATE"}]
    BY DEF Init
  <1>6. status \in [Requests -> {"unused", "refused"} \cup InFlight \cup PayoutStatus]
    BY DEF Init
  <1> QED BY <1>2, <1>3, <1>4, <1>5, <1>6 DEF Init, TypeInv, TypeOK, Pages, Screens, Actions

\* The five steps of a request page change the page, and a submission sends
\* its request.
LEMMA PageTypes ==
  ASSUME TypeInv, NEW t \in Tabs, Page(t)
  PROVE  TypeInv'
  <1> USE DEF TypeInv
  <1>0. page \in [Tabs -> Pages] /\ wallet \in [Users -> Wallet]
    BY DEF TypeOK, Pages
  <1>1. ASSUME LoadEligibility(t) \/ ShowEligibility(t) \/ ReceiveAnswer(t) \/ LoseAnswer(t)
        PROVE  TypeInv'
    <2>1. wallet[interviewer].balance \in Nat
      BY <1>0 DEF Users, Wallet
    <2>2. page' \in [Tabs -> Pages]
      <3>1. \A p \in Pages : /\ [Closed EXCEPT !.view = "loading"] \in Pages
                             /\ [p EXCEPT !.view = "form", !.request = None] \in Pages
        BY DEF Closed, Pages
      <3>2. \A v \in {"form", "refused"} :
              [view |-> v, available |-> wallet[interviewer].balance, request |-> None] \in Pages
        BY <2>1 DEF Pages
      <3>3. CASE LoadEligibility(t)
        BY <1>0, <3>1, <3>3 DEF LoadEligibility
      <3>4. CASE ShowEligibility(t)
        BY <1>0, <3>2, <3>4 DEF ShowEligibility, AvailableOnPage
      <3>5. CASE ReceiveAnswer(t)
        BY <1>0, <3>1, <3>5 DEF ReceiveAnswer
      <3>6. CASE LoseAnswer(t)
        <4>1. page' = [page EXCEPT ![t] = [page[t] EXCEPT !.view = "form", !.request = None]]
          BY <1>0, <3>6 DEF LoseAnswer
        <4> QED BY <1>0, <3>1, <4>1
      <3> QED BY <1>1, <3>3, <3>4, <3>5, <3>6
    <2>3. UNCHANGED <<wallet, status, tokens, screen, booking, hosted>>
      BY <1>1 DEF LoadEligibility, ShowEligibility, ReceiveAnswer, LoseAnswer
    <2> QED BY <2>2, <2>3 DEF TypeOK, Pages, ShowsPayout, SendsAction
  <1>2. ASSUME NEW r \in Requests, NEW n \in Amounts, Submit(t, r, n) PROVE TypeInv'
    <2>1. page' \in [Tabs -> Pages]
      BY <1>0, <1>2 DEF Submit, Pages
    <2>2. status' \in [Requests -> {"unused", "refused"} \cup InFlight \cup PayoutStatus]
      BY <1>2 DEF Submit, TypeOK, InFlight
    <2>3. tokens' \in [Requests -> Nat]
      BY <1>2, PayoutAssumption DEF Submit, TypeOK, PayoutAssumption
    <2> QED BY <1>2, <2>1, <2>2, <2>3 DEF Submit, TypeOK, Pages, ShowsPayout, SendsAction
  <1> QED BY <1>1, <1>2 DEF Page

LEMMA ServiceTypes ==
  ASSUME TypeInv, NEW r \in Requests, Service(r)
  PROVE  TypeInv'
  <1> USE DEF TypeInv
  <1>1. status' \in [Requests -> {"unused", "refused"} \cup InFlight \cup PayoutStatus]
    BY DEF Service, CheckRequest, CommitRequest, TypeOK, InFlight, PayoutStatus, Active
  <1>2. wallet' \in [Users -> Wallet]
    BY LockTokensType DEF Service, CheckRequest, CommitRequest, RolledBack, Untouched, TypeOK
  <1>3. UNCHANGED <<tokens, page, screen, booking, hosted>>
    BY DEF Service, CheckRequest, CommitRequest, browsers
  <1> QED BY <1>1, <1>2, <1>3 DEF TypeOK, ShowsPayout, SendsAction

\* An action served for a payout is one the status allows, with tokens that
\* are locked.
LEMMA DecideWallet ==
  ASSUME TypeInv, NEW r \in Requests, NEW action \in Actions, MayDecide(r, action),
         wallet' = CASE action = "approve" -> wallet
                     [] action = "reject" -> UnlockTokens(wallet, interviewer, tokens[r])
                     [] action = "markPaid" -> FinalizeLockedTokens(wallet, interviewer, tokens[r])
  PROVE  wallet' \in [Users -> Wallet]
  <1>0. wallet \in [Users -> Wallet] /\ tokens[r] \in Nat /\ interviewer \in Users
    BY DEF TypeInv, TypeOK, Users
  <1>1. CASE action = "approve"
    BY <1>0, <1>1
  <1>2. CASE action = "reject"
    BY <1>0, <1>2, UnlockTokensType DEF MayDecide
  <1>3. CASE action = "markPaid"
    <2>1. wallet[interviewer].locked_balance - tokens[r] \in Nat
      BY <1>0, <1>3 DEF MayDecide, CanTakeLocked, Wallet
    <2>2. wallet' = FinalizeLockedTokens(wallet, interviewer, tokens[r])
      BY <1>3
    <2> QED BY <1>0, <2>1, <2>2 DEF FinalizeLockedTokens, Wallet
  <1> QED BY <1>1, <1>2, <1>3 DEF Actions

\* A screen after an answer.
Shown(a, seen) == [view |-> "shown", payout |-> screen[a].payout, seen |-> seen, action |-> None]

ShowsAfter(a, seen) ==
  /\ screen' = [b \in Admins |-> screen'[b]]
  /\ \A b \in Admins \ {a} : screen'[b] = screen[b]
  /\ screen'[a] = Shown(a, seen)

LEMMA ScreenSeen ==
  ASSUME screen \in [Admins -> Screens], NEW a \in Admins, NEW seen,
         screen' = [screen EXCEPT ![a].view = "shown", ![a].action = None, ![a].seen = seen]
  PROVE  ShowsAfter(a, seen)
  BY DEF ShowsAfter, Shown, Screens

LEMMA ScreenUnseen ==
  ASSUME screen \in [Admins -> Screens], NEW a \in Admins,
         screen' = [screen EXCEPT ![a].view = "shown", ![a].action = None]
  PROVE  ShowsAfter(a, screen[a].seen)
  BY DEF ShowsAfter, Shown, Screens

LEMMA ScreenShown ==
  ASSUME screen \in [Admins -> Screens], ShowsPayout, SendsAction,
         NEW a \in Admins, screen[a].payout \in Requests, NEW seen \in PayoutStatus \cup {None},
         ShowsAfter(a, seen)
  PROVE  screen' \in [Admins -> Screens] /\ ShowsPayout' /\ SendsAction'
  <1>1. Shown(a, seen) \in Screens
    BY DEF Shown, Screens
  <1>2. Shown(a, seen).view = "shown" /\ Shown(a, seen).payout \in Requests
    BY DEF Shown
  <1>3. \A b \in Admins : screen'[b] \in Screens
    BY <1>1 DEF ShowsAfter
  <1>4. screen' \in [Admins -> Screens]
    BY <1>3 DEF ShowsAfter
  <1> QED BY <1>2, <1>4 DEF ShowsAfter, ShowsPayout, SendsAction

LEMMA AdminTypes ==
  ASSUME TypeInv, NEW a \in Admins, Admin(a)
  PROVE  TypeInv'
  <1> USE DEF TypeInv
  <1>0. screen \in [Admins -> Screens]
    BY DEF TypeOK, Screens, Actions
  <1>1. ASSUME NEW r \in Requests, OpenPayout(a, r) PROVE TypeInv'
    <2>1. screen' \in [Admins -> Screens] /\ ShowsPayout' /\ SendsAction'
      BY <1>0, <1>1 DEF OpenPayout, Screens, ShowsPayout, SendsAction
    <2> QED BY <1>1, <2>1 DEF OpenPayout, TypeOK, Screens, Actions
  <1>2. ASSUME NEW action \in Actions, Confirm(a, action) PROVE TypeInv'
    <2>1. screen' \in [Admins -> Screens] /\ ShowsPayout' /\ SendsAction'
      BY <1>0, <1>2 DEF Confirm, Screens, Actions, ShowsPayout, SendsAction
    <2> QED BY <1>2, <2>1 DEF Confirm, TypeOK, Screens, Actions
  <1>3. ASSUME Decide(a) PROVE TypeInv'
    <2> DEFINE r == screen[a].payout
               action == screen[a].action
    <2>1. r \in Requests /\ action \in Actions
      BY <1>3 DEF Decide, ShowsPayout, SendsAction, Actions
    <2>2. UNCHANGED <<tokens, page, booking, hosted>>
      BY <1>3 DEF Decide
    <2>3. CASE MayDecide(r, action)
      <3>1. Decided(action) \in PayoutStatus
        BY <2>1 DEF Decided, PayoutStatus, Active, Actions
      <3>2. status' \in [Requests -> {"unused", "refused"} \cup InFlight \cup PayoutStatus]
        BY <1>3, <2>3, <3>1 DEF Decide, TypeOK
      <3>3. wallet' \in [Users -> Wallet]
        <4>1. wallet' = CASE action = "approve" -> wallet
                          [] action = "reject" -> UnlockTokens(wallet, interviewer, tokens[r])
                          [] action = "markPaid" -> FinalizeLockedTokens(wallet, interviewer, tokens[r])
          BY <1>3, <2>3 DEF Decide
        <4> HIDE DEF r, action
        <4> QED BY <2>1, <2>3, <4>1, DecideWallet
      <3>4. PICK seen \in {screen[a].seen, Decided(action)} :
              screen' = [screen EXCEPT ![a].view = "shown", ![a].action = None, ![a].seen = seen]
        BY <1>3, <2>3 DEF Decide
      <3>5. seen \in PayoutStatus \cup {None}
        BY <1>0, <3>1 DEF Screens
      <3>6. ShowsAfter(a, seen)
        BY <1>0, <3>4, ScreenSeen
      <3>7. screen' \in [Admins -> Screens] /\ ShowsPayout' /\ SendsAction'
        BY <1>0, <2>1, <3>5, <3>6, ScreenShown
      <3> QED BY <2>2, <3>2, <3>3, <3>7 DEF TypeOK, Screens, Actions
    <2>4. CASE ~MayDecide(r, action)
      <3>1. /\ screen' = [screen EXCEPT ![a].view = "shown", ![a].action = None]
            /\ UNCHANGED <<status, wallet>>
        BY <1>3, <2>4 DEF Decide
      <3>2. screen[a].seen \in PayoutStatus \cup {None}
        BY <1>0 DEF Screens
      <3>3. ShowsAfter(a, screen[a].seen)
        BY <1>0, <3>1, ScreenUnseen
      <3>4. screen' \in [Admins -> Screens] /\ ShowsPayout' /\ SendsAction'
        BY <1>0, <2>1, <3>2, <3>3, ScreenShown
      <3> QED BY <2>2, <3>1, <3>4 DEF TypeOK, Screens, Actions
    <2> QED BY <2>3, <2>4
  <1> QED BY <1>1, <1>2, <1>3 DEF Admin, Actions

LEMMA SessionsTypes ==
  ASSUME TypeInv, Sessions
  PROVE  TypeInv'
  <1> USE DEF TypeInv
  <1>0. /\ wallet \in [Users -> Wallet] /\ Cost \in Nat
        /\ interviewer \in Users /\ peer \in Users
    BY PayoutAssumption DEF PayoutAssumption, TypeOK, Users
  <1>1. ASSUME NEW b \in Booked, Book(b) \/ CompleteBooking(b) \/ RefundAgain(b) PROVE TypeInv'
    <2>1. wallet' \in [Users -> Wallet]
      BY <1>0, <1>1, LockTokensType, UnlockTokensType, TransferLockedTokensType
         DEF Book, CompleteBooking, RefundAgain
    <2>2. booking' \in [Booked -> {"none", "open", "settled", "drawn"}]
      BY <1>1 DEF Book, CompleteBooking, RefundAgain, TypeOK
    <2>3. UNCHANGED <<status, tokens, page, screen, hosted>>
      BY <1>1 DEF Book, CompleteBooking, RefundAgain, browsers
    <2> QED BY <2>1, <2>2, <2>3 DEF TypeOK, ShowsPayout, SendsAction
  <1>2. ASSUME NEW h \in Hosted, Earn(h) \/ FullRefund(h) PROVE TypeInv'
    <2>1. wallet' \in [Users -> Wallet]
      <3>1. CASE Earn(h)
        BY <1>0, <3>1, TransferLockedTokensType DEF Earn
      <3>2. CASE FullRefund(h)
        <4>1. wallet[interviewer].balance - Cost \in Nat /\ wallet[peer].balance + Cost \in Nat
          BY <1>0, <3>2 DEF FullRefund, Wallet
        <4>2. wallet' = [[wallet EXCEPT ![interviewer].balance = wallet[interviewer].balance - Cost]
                            EXCEPT ![peer].balance = wallet[peer].balance + Cost]
          BY <1>0, <3>2, PayoutAssumption DEF FullRefund, PayoutAssumption
        <4>3. [wallet EXCEPT ![interviewer].balance = wallet[interviewer].balance - Cost] \in [Users -> Wallet]
          BY <1>0, <4>1 DEF Wallet
        <4> QED BY <1>0, <4>1, <4>2, <4>3 DEF Wallet
      <3> QED BY <1>2, <3>1, <3>2
    <2>2. hosted' \in [Hosted -> {"AWAITING_EVALUATION", "PAID_TO_INTERVIEWER", "REFUNDED_TO_CANDIDATE"}]
      BY <1>2 DEF Earn, FullRefund, TypeOK
    <2>3. UNCHANGED <<status, tokens, page, screen, booking>>
      BY <1>2 DEF Earn, FullRefund, browsers
    <2> QED BY <2>1, <2>2, <2>3 DEF TypeOK, ShowsPayout, SendsAction
  <1> QED BY <1>1, <1>2 DEF Sessions

LEMMA StepTypes == TypeInv /\ [Next]_vars => TypeInv'
  <1> SUFFICES ASSUME TypeInv, [Next]_vars PROVE TypeInv'
    OBVIOUS
  <1>1. CASE UNCHANGED vars
    BY <1>1 DEF vars, browsers, TypeInv, TypeOK, ShowsPayout, SendsAction
  <1> QED BY <1>1, PageTypes, ServiceTypes, AdminTypes, SessionsTypes DEF Next

\* No payout, booking or refund ever makes a balance negative.
THEOREM TypesCorrect == Spec => []TypeOK
  <1>1. Spec => []TypeInv
    BY InitTypes, StepTypes, PTL DEF Spec
  <1>2. TypeInv => TypeOK
    BY DEF TypeInv
  <1> QED BY <1>1, <1>2, PTL

-----------------------------------------------------------------------------

\* A payout becomes active when there is none, and its decisions are made
\* from an active status.
LEMMA StatusSteps ==
  ASSUME TypeInv, Next
  PROVE  \/ status' = status
         \/ \E r \in Requests : status[r] = "unused" /\ status' = [status EXCEPT ![r] = "sent"]
         \/ \E r \in Requests : /\ status[r] \in InFlight
                                /\ \/ status' = [status EXCEPT ![r] = "checked"]
                                   \/ status' = [status EXCEPT ![r] = "refused"]
                                   \/ /\ ActivePayouts = {}
                                      /\ status' = [status EXCEPT ![r] = "REQUESTED"]
         \/ \E r \in Requests, s \in PayoutStatus :
                status[r] \in Active /\ status' = [status EXCEPT ![r] = s]
  <1>1. ASSUME NEW t \in Tabs, Page(t)
        PROVE  \/ status' = status
               \/ \E r \in Requests : status[r] = "unused" /\ status' = [status EXCEPT ![r] = "sent"]
    BY <1>1 DEF Page, LoadEligibility, ShowEligibility, ReceiveAnswer, LoseAnswer, Submit
  <1>2. ASSUME NEW r \in Requests, Service(r)
        PROVE  /\ status[r] \in InFlight
               /\ \/ status' = [status EXCEPT ![r] = "checked"]
                  \/ status' = [status EXCEPT ![r] = "refused"]
                  \/ ActivePayouts = {} /\ status' = [status EXCEPT ![r] = "REQUESTED"]
    BY <1>2 DEF Service, CheckRequest, CommitRequest, UniqueActive, InFlight
  <1>3. ASSUME NEW a \in Admins, Admin(a)
        PROVE  \/ status' = status
               \/ \E r \in Requests, s \in PayoutStatus :
                    status[r] \in Active /\ status' = [status EXCEPT ![r] = s]
    <2>1. CASE Decide(a)
      <3>1. screen[a].payout \in Requests /\ screen[a].action \in Actions
        BY <2>1 DEF Decide, TypeInv, ShowsPayout, SendsAction, Actions
      <3>2. Decided(screen[a].action) \in PayoutStatus
        BY <3>1 DEF Decided, PayoutStatus, Active, Actions
      <3>3. MayDecide(screen[a].payout, screen[a].action) => status[screen[a].payout] \in Active
        BY <3>1 DEF MayDecide, CanBeRejected, Active, Actions
      <3> QED BY <2>1, <3>1, <3>2, <3>3 DEF Decide
    <2>2. CASE ~Decide(a)
      BY <1>3, <2>2 DEF Admin, OpenPayout, Confirm
    <2> QED BY <2>1, <2>2
  <1>4. ASSUME Sessions PROVE status' = status
    BY <1>4 DEF Sessions, Book, CompleteBooking, RefundAgain, Earn, FullRefund
  <1> QED BY <1>1, <1>2, <1>3, <1>4 DEF Next

LEMMA StepActive == TypeInv /\ OneActivePayout /\ [Next]_vars => OneActivePayout'
  <1> SUFFICES ASSUME TypeInv, OneActivePayout, [Next]_vars PROVE OneActivePayout'
    OBVIOUS
  <1>0. status \in [Requests -> {"unused", "refused"} \cup InFlight \cup PayoutStatus]
    BY DEF TypeInv, TypeOK
  <1>1. CASE UNCHANGED vars
    BY <1>1 DEF vars, OneActivePayout, ActivePayouts
  <1>2. CASE Next
    <2>1. CASE status' = status
      BY <2>1 DEF OneActivePayout, ActivePayouts
    <2>2. ASSUME NEW r \in Requests, NEW s \in {"sent", "checked", "refused"},
                 status' = [status EXCEPT ![r] = s]
          PROVE  OneActivePayout'
      BY <1>0, <2>2 DEF OneActivePayout, ActivePayouts, Active
    <2>3. ASSUME NEW r \in Requests, ActivePayouts = {}, status' = [status EXCEPT ![r] = "REQUESTED"]
          PROVE  OneActivePayout'
      BY <1>0, <2>3 DEF OneActivePayout, ActivePayouts
    <2>4. ASSUME NEW r \in Requests, NEW s \in PayoutStatus, status[r] \in Active,
                 status' = [status EXCEPT ![r] = s]
          PROVE  OneActivePayout'
      BY <1>0, <2>4 DEF OneActivePayout, ActivePayouts
    <2> QED BY <1>2, <2>1, <2>2, <2>3, <2>4, StatusSteps
  <1> QED BY <1>1, <1>2

\* However many pages and requests, an interviewer has one active payout:
\* the unlocked checks do not show it, the constraint does.
THEOREM ActivePayoutUnique == Spec => []OneActivePayout
  <1>1. Spec => []TypeInv
    BY InitTypes, StepTypes, PTL DEF Spec
  <1>2. Init => OneActivePayout
    BY DEF Init, OneActivePayout, ActivePayouts, Active
  <1> QED BY <1>1, <1>2, StepActive, PTL DEF Spec

\* Whatever the admins' screens show, no step leaves a final status.
THEOREM DecisionsStay == Spec => DecisionsFinal
  <1>1. TypeInv /\ [Next]_vars =>
          [\A r \in Requests : status[r] \in {"PAID", "REJECTED", "refused"}
                                  => status'[r] = status[r]]_vars
    <2> SUFFICES ASSUME TypeInv, Next,
                        NEW r \in Requests, status[r] \in {"PAID", "REJECTED", "refused"}
                 PROVE  status'[r] = status[r]
      OBVIOUS
    <2>1. status \in [Requests -> {"unused", "refused"} \cup InFlight \cup PayoutStatus]
      BY DEF TypeInv, TypeOK
    <2> QED BY <2>1, StatusSteps DEF InFlight, Active
  <1>2. Spec => []TypeInv
    BY InitTypes, StepTypes, PTL DEF Spec
  <1> QED BY <1>1, <1>2, PTL DEF Spec, DecisionsFinal

-----------------------------------------------------------------------------
(* Tokens: what a step adds to the wallets and what it adds to the books.  *)

PayoutsIn(A) == {r \in Requests : status[r] \in A}

AllTokens == wallet[interviewer].balance + wallet[interviewer].locked_balance
             + wallet[peer].balance + wallet[peer].locked_balance

\* What is added to the interviewer's lock, and to the four columns together.
WalletsGain(lock, all) ==
  /\ wallet'[interviewer].locked_balance = wallet[interviewer].locked_balance + lock
  /\ AllTokens' = AllTokens + all

\* What is added to the tokens of the active payouts, and of the paid ones.
PayoutsGain(active, paid) ==
  /\ TokensOf(PayoutsIn(Active))' = TokensOf(PayoutsIn(Active)) + active
  /\ TokensOf(PayoutsIn({"PAID"}))' = TokensOf(PayoutsIn({"PAID"})) + paid

\* What is added to the cost of the open bookings, and of the ones drawn.
BookingsGain(open, drawn) ==
  /\ Cost * Cardinality(Bookings("open"))' = Cost * Cardinality(Bookings("open")) + open
  /\ Cost * Cardinality(Bookings("drawn"))' = Cost * Cardinality(Bookings("drawn")) + drawn

LEMMA SameSets ==
  /\ ActivePayouts = PayoutsIn(Active)
  /\ {r \in Requests : status[r] = "PAID"} = PayoutsIn({"PAID"})
  BY DEF ActivePayouts, PayoutsIn

LEMMA TokensSummed ==
  ASSUME TypeInv, NEW R \in SUBSET Requests
  PROVE  /\ IsFiniteSet(R) /\ TokensOf(R) \in Int
         /\ \A r \in R : TokensOf(R) = tokens[r] + TokensOf(R \ {r})
  <1>1. IsFiniteSet(R)
    BY PayoutAssumption, FS_Subset DEF PayoutAssumption
  <1>2. \A r \in R : tokens[r] \in Int
    BY DEF TypeInv, TypeOK
  <1> QED BY <1>1, <1>2, SumRemove DEF TokensOf

LEMMA BookingsCounted ==
  ASSUME NEW s
  PROVE  /\ IsFiniteSet(Bookings(s))
         /\ Cardinality(Bookings(s)) \in Nat /\ Cost * Cardinality(Bookings(s)) \in Nat
  <1>1. IsFiniteSet(Bookings(s))
    BY PayoutAssumption, FS_Subset DEF PayoutAssumption, Bookings
  <1>2. Cardinality(Bookings(s)) \in Nat
    BY <1>1, FS_CardinalityType
  <1> QED BY <1>1, <1>2, PayoutAssumption DEF PayoutAssumption

\* The books stay balanced if what is locked is what is owed, and what leaves
\* the wallets is paid out.
LEMMA BooksBalanced ==
  ASSUME TypeInv, TokensAccountedFor,
         NEW lock \in Int, NEW all \in Int, NEW active \in Int, NEW paid \in Int,
         NEW open \in Int, NEW drawn \in Int,
         WalletsGain(lock, all), PayoutsGain(active, paid), BookingsGain(open, drawn),
         lock + drawn = active + open, all + paid = 0
  PROVE  TokensAccountedFor'
  <1>0. /\ PayoutsIn(Active) \in SUBSET Requests /\ PayoutsIn({"PAID"}) \in SUBSET Requests
    BY DEF PayoutsIn
  <1>1. /\ TokensOf(PayoutsIn(Active)) \in Int /\ TokensOf(PayoutsIn({"PAID"})) \in Int
        /\ Cost * Cardinality(Bookings("open")) \in Int
        /\ Cost * Cardinality(Bookings("drawn")) \in Int
    BY <1>0, TokensSummed, BookingsCounted
  <1>2. wallet[interviewer].locked_balance \in Int /\ AllTokens \in Int
    BY DEF TypeInv, TypeOK, Wallet, Users, AllTokens
  <1>3. /\ wallet[interviewer].locked_balance + Cost * Cardinality(Bookings("drawn"))
             = TokensOf(PayoutsIn(Active)) + Cost * Cardinality(Bookings("open"))
        /\ AllTokens + TokensOf(PayoutsIn({"PAID"})) = 2 * InitialBalance + Cost * Cardinality(Hosted)
    BY SameSets DEF TokensAccountedFor, AllTokens
  <1> DEFINE owed == TokensOf(PayoutsIn(Active))
             out == TokensOf(PayoutsIn({"PAID"}))
             taken == Cost * Cardinality(Bookings("open"))
             gone == Cost * Cardinality(Bookings("drawn"))
             held == wallet[interviewer].locked_balance
  <1>4. held' + gone' = owed' + taken'
    <2>1. held' = held + lock /\ gone' = gone + drawn /\ owed' = owed + active /\ taken' = taken + open
      BY DEF WalletsGain, PayoutsGain, BookingsGain
    <2>2. held \in Int /\ gone \in Int /\ owed \in Int /\ taken \in Int /\ held + gone = owed + taken
      BY <1>1, <1>2, <1>3
    <2> HIDE DEF held, gone, owed, taken
    <2> QED BY <2>1, <2>2
  <1>5. AllTokens' + out' = 2 * InitialBalance + Cost * Cardinality(Hosted)
    <2>1. AllTokens' = AllTokens + all /\ out' = out + paid
      BY DEF WalletsGain, PayoutsGain
    <2>2. AllTokens \in Int /\ out \in Int /\ AllTokens' + out' = AllTokens + out
      <3>1. AllTokens \in Int /\ out \in Int
        BY <1>1, <1>2
      <3> HIDE DEF out
      <3> QED BY <2>1, <3>1
    <2> QED BY <2>2, <1>3
  <1>6. ActivePayouts' = PayoutsIn(Active)' /\ {r \in Requests : status[r] = "PAID"}' = PayoutsIn({"PAID"})'
    BY DEF ActivePayouts, PayoutsIn
  <1>7. AllTokens' = wallet'[interviewer].balance + wallet'[interviewer].locked_balance
                     + wallet'[peer].balance + wallet'[peer].locked_balance
    BY DEF AllTokens
  <1> QED BY <1>4, <1>5, <1>6, <1>7 DEF TokensAccountedFor

-----------------------------------------------------------------------------
(* Payouts *)

\* A request that changes its status enters one set and leaves another.
LEMMA StatusMoves ==
  ASSUME TypeInv, NEW r \in Requests, NEW s, NEW A,
         status' = [status EXCEPT ![r] = s], tokens' = tokens
  PROVE  TokensOf(PayoutsIn(A))' = TokensOf(PayoutsIn(A))
            + (IF s \in A THEN tokens[r] ELSE 0) - (IF status[r] \in A THEN tokens[r] ELSE 0)
  <1> DEFINE others == PayoutsIn(A) \ {r}
  <1>1. /\ PayoutsIn(A)' = IF s \in A THEN others \cup {r} ELSE others
        /\ PayoutsIn(A) = IF status[r] \in A THEN others \cup {r} ELSE others
    BY DEF PayoutsIn, TypeInv, TypeOK
  <1>2. others \in SUBSET Requests /\ others \cup {r} \in SUBSET Requests /\ r \notin others
    BY DEF PayoutsIn
  <1> HIDE DEF others
  <1>3. TokensOf(others) \in Int /\ TokensOf(others \cup {r}) = tokens[r] + TokensOf(others)
    <2>1. (others \cup {r}) \ {r} = others
      BY <1>2
    <2> QED BY <1>2, <2>1, TokensSummed
  <1>4. tokens[r] \in Int
    BY DEF TypeInv, TypeOK
  <1>5. TokensOf(PayoutsIn(A))' = SumFunctionOnSet(tokens, PayoutsIn(A)')
    BY DEF TokensOf
  <1>6. TokensOf(PayoutsIn(A))' = TokensOf(IF s \in A THEN others \cup {r} ELSE others)
    BY <1>1, <1>5, Zenon DEF TokensOf
  <1>7. TokensOf(PayoutsIn(A)) = TokensOf(IF status[r] \in A THEN others \cup {r} ELSE others)
    BY <1>1, Zenon
  <1> HIDE <1>1
  <1>8. TokensOf(PayoutsIn(A))' = TokensOf(others) + (IF s \in A THEN tokens[r] ELSE 0)
    <2>1. CASE s \in A
      BY <1>3, <1>4, <1>6, <2>1
    <2>2. CASE s \notin A
      BY <1>3, <1>6, <2>2
    <2> QED BY <2>1, <2>2
  <1>9. TokensOf(PayoutsIn(A)) = TokensOf(others) + (IF status[r] \in A THEN tokens[r] ELSE 0)
    <2>1. CASE status[r] \in A
      BY <1>3, <1>4, <1>7, <2>1
    <2>2. CASE status[r] \notin A
      BY <1>3, <1>7, <2>2
    <2> QED BY <2>1, <2>2
  <1> QED BY <1>3, <1>4, <1>8, <1>9

\* A new request has tokens that nobody counts yet.
LEMMA SubmissionUncounted ==
  ASSUME TypeInv, NEW t \in Tabs, NEW r \in Requests, NEW n \in Amounts, Submit(t, r, n),
         NEW A, "unused" \notin A, "sent" \notin A
  PROVE  TokensOf(PayoutsIn(A))' = TokensOf(PayoutsIn(A))
  <1>1. PayoutsIn(A)' = PayoutsIn(A)
    BY DEF Submit, PayoutsIn, TypeInv, TypeOK
  <1>2. \A q \in PayoutsIn(A) : tokens'[q] = tokens[q]
    BY DEF Submit, PayoutsIn, TypeInv, TypeOK
  <1>3. IsFiniteSet(PayoutsIn(A))
    BY PayoutAssumption, FS_Subset DEF PayoutAssumption, PayoutsIn
  <1>4. SumFunctionOnSet(tokens', PayoutsIn(A)) = SumFunctionOnSet(tokens, PayoutsIn(A))
    BY <1>2, <1>3, SumAgrees
  <1> QED BY <1>1, <1>4 DEF TokensOf

LEMMA PayoutsUntouched ==
  ASSUME TypeInv, UNCHANGED <<status, tokens>>
  PROVE  PayoutsGain(0, 0)
  <1>1. TokensOf(PayoutsIn(Active)) \in Int /\ TokensOf(PayoutsIn({"PAID"})) \in Int
    BY TokensSummed DEF PayoutsIn
  <1>2. /\ TokensOf(PayoutsIn(Active))' = TokensOf(PayoutsIn(Active))
        /\ TokensOf(PayoutsIn({"PAID"}))' = TokensOf(PayoutsIn({"PAID"}))
    BY DEF TokensOf, PayoutsIn
  <1> QED BY <1>1, <1>2 DEF PayoutsGain

LEMMA WalletsUntouched ==
  ASSUME TypeInv, UNCHANGED wallet
  PROVE  WalletsGain(0, 0)
  <1>1. wallet[interviewer].locked_balance \in Int /\ AllTokens \in Int
    BY DEF TypeInv, TypeOK, Wallet, Users, AllTokens
  <1>2. AllTokens' = AllTokens
    BY DEF AllTokens
  <1> QED BY <1>1, <1>2 DEF WalletsGain

LEMMA BookingsUntouched ==
  ASSUME UNCHANGED booking
  PROVE  BookingsGain(0, 0)
  <1>1. Bookings("open")' = Bookings("open") /\ Bookings("drawn")' = Bookings("drawn")
    BY DEF Bookings
  <1>2. /\ Cost * Cardinality(Bookings("open"))' = Cost * Cardinality(Bookings("open"))
        /\ Cost * Cardinality(Bookings("drawn"))' = Cost * Cardinality(Bookings("drawn"))
    BY <1>1
  <1> QED BY <1>2, BookingsCounted DEF BookingsGain

-----------------------------------------------------------------------------
(* Wallets *)

LEMMA WalletsLocked ==
  ASSUME TypeInv, NEW n \in Nat, CanLock(wallet, interviewer, n),
         wallet' = LockTokens(wallet, interviewer, n)
  PROVE  WalletsGain(n, 0)
  BY PayoutAssumption
     DEF PayoutAssumption, TypeInv, TypeOK, Wallet, Users, WalletsGain, AllTokens, LockTokens

LEMMA WalletsUnlocked ==
  ASSUME TypeInv, NEW n \in Nat, wallet' = UnlockTokens(wallet, interviewer, n)
  PROVE  WalletsGain(-n, 0)
  BY PayoutAssumption
     DEF PayoutAssumption, TypeInv, TypeOK, Wallet, Users, WalletsGain, AllTokens, UnlockTokens

LEMMA WalletsPaidOut ==
  ASSUME TypeInv, NEW n \in Nat, wallet' = FinalizeLockedTokens(wallet, interviewer, n)
  PROVE  WalletsGain(-n, -n)
  BY PayoutAssumption
     DEF PayoutAssumption, TypeInv, TypeOK, Wallet, Users, WalletsGain, AllTokens, FinalizeLockedTokens

LEMMA WalletsTransferred ==
  ASSUME TypeInv, NEW n \in Nat
  PROVE  /\ wallet' = TransferLockedTokens(wallet, interviewer, peer, n) => WalletsGain(-n, 0)
         /\ wallet' = TransferLockedTokens(wallet, peer, interviewer, n) => WalletsGain(0, 0)
  BY PayoutAssumption
     DEF PayoutAssumption, TypeInv, TypeOK, Wallet, Users, WalletsGain, AllTokens, TransferLockedTokens

LEMMA WalletsRefunded ==
  ASSUME TypeInv, NEW h \in Hosted, FullRefund(h)
  PROVE  WalletsGain(0, 0)
  BY PayoutAssumption
     DEF PayoutAssumption, TypeInv, TypeOK, Wallet, Users, WalletsGain, AllTokens, FullRefund

\* A booking that moves from one state to another.
LEMMA BookingGain ==
  ASSUME TypeInv, NEW b \in Booked, NEW was, NEW s, was # s,
         booking[b] = was, booking' = [booking EXCEPT ![b] = s]
  PROVE  BookingsGain((IF s = "open" THEN Cost ELSE 0) - (IF was = "open" THEN Cost ELSE 0),
                      (IF s = "drawn" THEN Cost ELSE 0) - (IF was = "drawn" THEN Cost ELSE 0))
  <1>1. \A x : Cost * Cardinality(Bookings(x))' = Cost * Cardinality(Bookings(x))
                 + (IF x = s THEN Cost ELSE 0) - (IF x = was THEN Cost ELSE 0)
    <2> TAKE x
    <2>0. Cost \in Nat /\ Cardinality(Bookings(x)) \in Nat /\ IsFiniteSet(Bookings(x))
      BY PayoutAssumption, BookingsCounted DEF PayoutAssumption
    <2>1. CASE x = s
      <3>1. Bookings(x)' = Bookings(x) \cup {b} /\ b \notin Bookings(x)
        BY <2>1 DEF Bookings, TypeInv, TypeOK
      <3>2. Cardinality(Bookings(x) \cup {b}) = Cardinality(Bookings(x)) + 1
        BY <2>0, <3>1, FS_AddElement
      <3>3. Cost * (Cardinality(Bookings(x)) + 1) = Cost * Cardinality(Bookings(x)) + Cost
        BY <2>0
      <3>4. Cardinality(Bookings(x))' = Cardinality(Bookings(x)) + 1
        BY <3>1, <3>2
      <3> QED BY <2>0, <2>1, <3>3, <3>4
    <2>2. CASE x = was
      <3>1. Bookings(x)' = Bookings(x) \ {b} /\ b \in Bookings(x)
        BY <2>2 DEF Bookings, TypeInv, TypeOK
      <3>2. Cardinality(Bookings(x) \ {b}) = Cardinality(Bookings(x)) - 1
        BY <2>0, <3>1, FS_RemoveElement
      <3>3. Cost * (Cardinality(Bookings(x)) - 1) = Cost * Cardinality(Bookings(x)) - Cost
        BY <2>0
      <3>4. Cardinality(Bookings(x))' = Cardinality(Bookings(x)) - 1
        BY <3>1, <3>2
      <3> QED BY <2>0, <2>2, <3>3, <3>4
    <2>3. CASE x # s /\ x # was
      <3>1. Bookings(x)' = Bookings(x)
        BY <2>3 DEF Bookings, TypeInv, TypeOK
      <3>2. Cardinality(Bookings(x))' = Cardinality(Bookings(x))
        BY <3>1
      <3>3. Cost * Cardinality(Bookings(x)) \in Nat
        BY BookingsCounted
      <3> QED BY <2>3, <3>2, <3>3
    <2> QED BY <2>1, <2>2, <2>3
  <1>2. /\ Cost * Cardinality(Bookings("open")) \in Nat
        /\ Cost * Cardinality(Bookings("drawn")) \in Nat /\ Cost \in Nat
    BY BookingsCounted, PayoutAssumption DEF PayoutAssumption
  <1> QED BY <1>1, <1>2 DEF BookingsGain

-----------------------------------------------------------------------------
(* The steps *)

LEMMA PageBooks ==
  ASSUME TypeInv, TokensAccountedFor, NEW t \in Tabs, Page(t)
  PROVE  TokensAccountedFor'
  <1>1. UNCHANGED <<wallet, booking>>
    BY DEF Page, LoadEligibility, ShowEligibility, ReceiveAnswer, LoseAnswer, Submit
  <1>2. PayoutsGain(0, 0)
    <2>1. CASE UNCHANGED <<status, tokens>>
      BY <2>1, PayoutsUntouched
    <2>2. ASSUME NEW r \in Requests, NEW n \in Amounts, Submit(t, r, n) PROVE PayoutsGain(0, 0)
      <3>1. TokensOf(PayoutsIn(Active)) \in Int /\ TokensOf(PayoutsIn({"PAID"})) \in Int
        BY TokensSummed DEF PayoutsIn
      <3>2. /\ TokensOf(PayoutsIn(Active))' = TokensOf(PayoutsIn(Active))
            /\ TokensOf(PayoutsIn({"PAID"}))' = TokensOf(PayoutsIn({"PAID"}))
        <4>1. "unused" \notin Active /\ "sent" \notin Active
          BY DEF Active
        <4>2. ASSUME NEW A, "unused" \notin A, "sent" \notin A
              PROVE  TokensOf(PayoutsIn(A))' = TokensOf(PayoutsIn(A))
          BY <2>2, <4>2, SubmissionUncounted
        <4> QED BY <4>1, <4>2
      <3> QED BY <3>1, <3>2 DEF PayoutsGain
    <2> QED BY <2>1, <2>2 DEF Page, LoadEligibility, ShowEligibility, ReceiveAnswer, LoseAnswer
  <1>3. WalletsGain(0, 0) /\ BookingsGain(0, 0)
    BY <1>1, WalletsUntouched, BookingsUntouched
  <1> QED BY <1>2, <1>3, BooksBalanced

\* What the two counted sets gain when a request changes its status.
LEMMA StatusGain ==
  ASSUME TypeInv, NEW r \in Requests, NEW s, status' = [status EXCEPT ![r] = s], tokens' = tokens
  PROVE  PayoutsGain((IF s \in Active THEN tokens[r] ELSE 0)
                       - (IF status[r] \in Active THEN tokens[r] ELSE 0),
                     (IF s = "PAID" THEN tokens[r] ELSE 0)
                       - (IF status[r] = "PAID" THEN tokens[r] ELSE 0))
  <1>1. /\ TokensOf(PayoutsIn(Active)) \in Int /\ TokensOf(PayoutsIn({"PAID"})) \in Int
        /\ tokens[r] \in Int
    BY TokensSummed DEF PayoutsIn, TypeInv, TypeOK
  <1>2. \A A : TokensOf(PayoutsIn(A))' = TokensOf(PayoutsIn(A))
                 + (IF s \in A THEN tokens[r] ELSE 0) - (IF status[r] \in A THEN tokens[r] ELSE 0)
    BY StatusMoves
  <1>3. TokensOf(PayoutsIn(Active))' = TokensOf(PayoutsIn(Active))
          + (IF s \in Active THEN tokens[r] ELSE 0) - (IF status[r] \in Active THEN tokens[r] ELSE 0)
    BY <1>2
  <1>4. TokensOf(PayoutsIn({"PAID"}))' = TokensOf(PayoutsIn({"PAID"}))
          + (IF s = "PAID" THEN tokens[r] ELSE 0) - (IF status[r] = "PAID" THEN tokens[r] ELSE 0)
    <2>1. TokensOf(PayoutsIn({"PAID"}))' = TokensOf(PayoutsIn({"PAID"}))
            + (IF s \in {"PAID"} THEN tokens[r] ELSE 0)
            - (IF status[r] \in {"PAID"} THEN tokens[r] ELSE 0)
      BY <1>2
    <2> QED BY <2>1
  <1> QED BY <1>1, <1>3, <1>4 DEF PayoutsGain

LEMMA ServiceBooks ==
  ASSUME TypeInv, TokensAccountedFor, NEW r \in Requests, Service(r)
  PROVE  TokensAccountedFor'
  <1>1. UNCHANGED <<tokens, booking>>
    BY DEF Service, CheckRequest, CommitRequest, browsers
  <1>2. BookingsGain(0, 0)
    BY <1>1, BookingsUntouched
  <1>3. status[r] \in InFlight /\ status[r] \notin Active /\ status[r] # "PAID" /\ tokens[r] \in Nat
    BY DEF Service, CheckRequest, CommitRequest, InFlight, Active, TypeInv, TypeOK
  <1>4. ASSUME NEW s \in {"checked", "refused"}, wallet' = wallet, status' = [status EXCEPT ![r] = s]
        PROVE  TokensAccountedFor'
    <2>1. PayoutsGain(0, 0)
      <3>1. s \notin Active /\ s # "PAID"
        BY DEF Active
      <3>2. PayoutsGain(0 - 0, 0 - 0)
        BY <1>1, <1>3, <1>4, <3>1, StatusGain
      <3> QED BY <3>2
    <2> QED BY <1>2, <1>4, <2>1, WalletsUntouched, BooksBalanced
  <1>5. ASSUME CanLock(wallet, interviewer, tokens[r]),
               wallet' = LockTokens(wallet, interviewer, tokens[r]),
               status' = [status EXCEPT ![r] = "REQUESTED"]
        PROVE  TokensAccountedFor'
    <2>1. PayoutsGain(tokens[r], 0)
      <3>1. "REQUESTED" \in Active /\ "REQUESTED" # "PAID"
        BY DEF Active
      <3>2. PayoutsGain(tokens[r] - 0, 0 - 0)
        BY <1>1, <1>3, <1>5, <3>1, StatusGain
      <3> QED BY <1>3, <3>2
    <2>2. WalletsGain(tokens[r], 0)
      BY <1>3, <1>5, WalletsLocked
    <2> QED BY <1>2, <1>3, <2>1, <2>2, BooksBalanced
  <1> QED BY <1>4, <1>5 DEF Service, CheckRequest, CommitRequest, RolledBack, Untouched

LEMMA AdminBooks ==
  ASSUME TypeInv, TokensAccountedFor, NEW a \in Admins, Admin(a)
  PROVE  TokensAccountedFor'
  <1>1. UNCHANGED <<tokens, booking>>
    BY DEF Admin, OpenPayout, Confirm, Decide
  <1>2. BookingsGain(0, 0)
    BY <1>1, BookingsUntouched
  <1>3. CASE UNCHANGED <<status, wallet>>
    BY <1>1, <1>2, <1>3, PayoutsUntouched, WalletsUntouched, BooksBalanced
  <1>4. CASE Decide(a) /\ MayDecide(screen[a].payout, screen[a].action)
    <2> DEFINE r == screen[a].payout
               action == screen[a].action
    <2>1. r \in Requests /\ action \in Actions
      BY <1>4 DEF Decide, TypeInv, ShowsPayout, SendsAction, Actions
    <2>2. MayDecide(r, action) /\ status' = [status EXCEPT ![r] = Decided(action)]
      BY <1>4 DEF Decide
    <2>3. wallet' = CASE action = "approve" -> wallet
                      [] action = "reject" -> UnlockTokens(wallet, interviewer, tokens[r])
                      [] action = "markPaid" -> FinalizeLockedTokens(wallet, interviewer, tokens[r])
      BY <1>4 DEF Decide
    <2> HIDE DEF r, action
    <2>4. status[r] \in Active /\ status[r] # "PAID" /\ tokens[r] \in Nat
      BY <2>1, <2>2 DEF MayDecide, CanBeRejected, Active, Actions, TypeInv, TypeOK
    <2>5. CASE action = "approve"
      <3>1. Decided(action) \in Active /\ Decided(action) # "PAID"
        BY <2>5 DEF Decided, Active
      <3>2. PayoutsGain(tokens[r] - tokens[r], 0 - 0)
        BY <1>1, <2>1, <2>2, <2>4, <3>1, StatusGain
      <3>3. PayoutsGain(0, 0)
        BY <2>4, <3>2
      <3> QED BY <1>2, <2>3, <2>5, <3>3, WalletsUntouched, BooksBalanced
    <2>6. CASE action = "reject"
      <3>1. Decided(action) \notin Active /\ Decided(action) # "PAID"
        BY <2>6 DEF Decided, Active
      <3>2. PayoutsGain(0 - tokens[r], 0 - 0)
        BY <1>1, <2>1, <2>2, <2>4, <3>1, StatusGain
      <3>3. PayoutsGain(-tokens[r], 0) /\ -tokens[r] \in Int
        BY <2>4, <3>2
      <3>4. WalletsGain(-tokens[r], 0)
        BY <2>3, <2>4, <2>6, WalletsUnlocked
      <3> QED BY <1>2, <3>3, <3>4, BooksBalanced
    <2>7. CASE action = "markPaid"
      <3>1. Decided(action) \notin Active /\ Decided(action) = "PAID"
        BY <2>7 DEF Decided, Active
      <3>2. PayoutsGain(0 - tokens[r], tokens[r] - 0)
        BY <1>1, <2>1, <2>2, <2>4, <3>1, StatusGain
      <3>3. PayoutsGain(-tokens[r], tokens[r]) /\ -tokens[r] \in Int
        BY <2>4, <3>2
      <3>4. WalletsGain(-tokens[r], -tokens[r])
        BY <2>3, <2>4, <2>7, WalletsPaidOut
      <3> QED BY <1>2, <2>4, <3>3, <3>4, BooksBalanced
    <2> QED BY <2>1, <2>5, <2>6, <2>7 DEF Actions
  <1> QED BY <1>3, <1>4 DEF Admin, OpenPayout, Confirm, Decide

LEMMA SessionsBooks ==
  ASSUME TypeInv, TokensAccountedFor, Sessions
  PROVE  TokensAccountedFor'
  <1>1. PayoutsGain(0, 0)
    BY PayoutsUntouched DEF Sessions, Book, CompleteBooking, RefundAgain, Earn, FullRefund
  <1>2. Cost \in Nat /\ -Cost \in Int
    BY PayoutAssumption DEF PayoutAssumption
  <1>3. ASSUME NEW b \in Booked, Book(b) PROVE TokensAccountedFor'
    <2>1. WalletsGain(Cost, 0)
      BY <1>2, <1>3, WalletsLocked DEF Book
    <2>2. BookingsGain(Cost, 0)
      <3>1. booking[b] = "none" /\ booking' = [booking EXCEPT ![b] = "open"] /\ "none" # "open"
        BY <1>3 DEF Book
      <3>2. BookingsGain(Cost - 0, 0 - 0)
        BY <3>1, BookingGain
      <3> QED BY <1>2, <3>2
    <2> QED BY <1>1, <1>2, <2>1, <2>2, BooksBalanced
  <1>4. ASSUME NEW b \in Booked, CompleteBooking(b) PROVE TokensAccountedFor'
    <2>1. WalletsGain(-Cost, 0)
      BY <1>2, <1>4, WalletsTransferred DEF CompleteBooking
    <2>2. BookingsGain(-Cost, 0)
      <3>1. booking[b] = "open" /\ booking' = [booking EXCEPT ![b] = "settled"] /\ "open" # "settled"
        BY <1>4 DEF CompleteBooking
      <3>2. BookingsGain(0 - Cost, 0 - 0)
        <4>1. "settled" # "open" /\ "settled" # "drawn" /\ "open" # "drawn"
          OBVIOUS
        <4> QED BY <3>1, <4>1, BookingGain
      <3> QED BY <1>2, <3>2
    <2> QED BY <1>1, <1>2, <2>1, <2>2, BooksBalanced
  <1>5. ASSUME NEW b \in Booked, RefundAgain(b) PROVE TokensAccountedFor'
    <2>1. WalletsGain(-Cost, 0)
      BY <1>2, <1>5, WalletsUnlocked DEF RefundAgain
    <2>2. BookingsGain(0, Cost)
      <3>1. booking[b] = "settled" /\ booking' = [booking EXCEPT ![b] = "drawn"] /\ "settled" # "drawn"
        BY <1>5 DEF RefundAgain
      <3>2. BookingsGain(0 - 0, Cost - 0)
        BY <3>1, BookingGain
      <3> QED BY <1>2, <3>2
    <2> QED BY <1>1, <1>2, <2>1, <2>2, BooksBalanced
  <1>6. ASSUME NEW h \in Hosted, Earn(h) \/ FullRefund(h) PROVE TokensAccountedFor'
    <2>1. WalletsGain(0, 0)
      BY <1>2, <1>6, WalletsTransferred, WalletsRefunded DEF Earn
    <2>2. BookingsGain(0, 0)
      BY <1>6, BookingsUntouched DEF Earn, FullRefund
    <2> QED BY <1>1, <2>1, <2>2, BooksBalanced
  <1> QED BY <1>3, <1>4, <1>5, <1>6 DEF Sessions

LEMMA InitBooks == Init => TokensAccountedFor
  <1> SUFFICES ASSUME Init PROVE TokensAccountedFor
    OBVIOUS
  <1>1. ActivePayouts = {} /\ {r \in Requests : status[r] = "PAID"} = {}
    BY DEF Init, ActivePayouts, Active
  <1>2. Bookings("open") = {} /\ Bookings("drawn") = {}
    BY DEF Init, Bookings
  <1>3. TokensOf({}) = 0 /\ Cardinality({}) = 0
    BY SumEmpty, FS_EmptySet DEF TokensOf
  <1>4. Cardinality(Hosted) * Cost = Cost * Cardinality(Hosted) /\ Cost * Cardinality(Hosted) \in Nat
    BY PayoutAssumption, FS_CardinalityType DEF PayoutAssumption
  <1>5. /\ wallet[interviewer] = [balance |-> InitialBalance, locked_balance |-> 0]
        /\ wallet[peer] = [balance |-> InitialBalance, locked_balance |-> Cardinality(Hosted) * Cost]
    BY PayoutAssumption DEF PayoutAssumption, Init, Users
  <1> DEFINE there == Cost * Cardinality(Hosted)
  <1>6. /\ wallet[interviewer].locked_balance = 0 /\ wallet[interviewer].balance = InitialBalance
        /\ wallet[peer].locked_balance = there /\ wallet[peer].balance = InitialBalance
    BY <1>4, <1>5
  <1>7. /\ Cost * Cardinality(Bookings("drawn")) = 0 /\ Cost * Cardinality(Bookings("open")) = 0
        /\ TokensOf(ActivePayouts) = 0 /\ TokensOf({r \in Requests : status[r] = "PAID"}) = 0
    <2>1. Cost * 0 = 0
      BY PayoutAssumption DEF PayoutAssumption
    <2> QED BY <1>1, <1>2, <1>3, <2>1
  <1> HIDE <1>1, <1>2
  <1>8. InitialBalance \in Nat /\ there \in Nat
    BY <1>4, PayoutAssumption DEF PayoutAssumption
  <1> HIDE DEF there
  <1>9. InitialBalance + 0 + InitialBalance + there + 0 = 2 * InitialBalance + there
    BY <1>8
  <1> QED BY <1>6, <1>7, <1>8, <1>9 DEF TokensAccountedFor, there

LEMMA StepBooks == TypeInv /\ TokensAccountedFor /\ [Next]_vars => TokensAccountedFor'
  <1> SUFFICES ASSUME TypeInv, TokensAccountedFor, [Next]_vars PROVE TokensAccountedFor'
    OBVIOUS
  <1>1. CASE UNCHANGED vars
    BY <1>1, PayoutsUntouched, WalletsUntouched, BookingsUntouched, BooksBalanced DEF vars
  <1> QED BY <1>1, PageBooks, ServiceBooks, AdminBooks, SessionsBooks DEF Next

\* For any number of tabs, requests, admins and sessions, the interviewer's
\* lock is what active payouts and open bookings locked, less what second
\* settlements drew, and tokens leave the wallets only as payouts.
THEOREM PayoutsAccounted == Spec => []TokensAccountedFor
  <1>1. Spec => []TypeInv
    BY InitTypes, StepTypes, PTL DEF Spec
  <1> QED BY <1>1, InitBooks, StepBooks, PTL DEF Spec

=============================================================================
