------------------------------- MODULE Payout -------------------------------
(***************************************************************************)
(* An interviewer's payouts: the request page (possibly in several tabs),  *)
(* PayoutService, the admins' payout pages, and the other users of the     *)
(* same wallet.  An approved interviewer may also book sessions as a       *)
(* candidate, so booking locks and payout locks share one locked_balance.  *)
(*                                                                         *)
(* Bank details, rates and notes are left out: they are validated per      *)
(* field and never read again by a decision.                               *)
(***************************************************************************)
EXTENDS TokenService, FiniteSets, Functions

CONSTANTS
    None,
    interviewer, peer,  \* the owner of the payouts, the other party of sessions
    Tabs,               \* request pages of the interviewer
    Admins,             \* payout pages of admins
    Requests,           \* POSTs of the request page; each makes at most one payout
    Amounts,            \* numbers of tokens asked for
    MinTokens,          \* PAYOUT_MIN_TOKENS
    Booked,             \* sessions the interviewer books with the peer
    Hosted,             \* sessions the peer booked with the interviewer
    Cost,               \* token_cost of every session
    InitialBalance      \* of either wallet

Users == {interviewer, peer}

ASSUME PayoutAssumption ==
    /\ interviewer # peer
    /\ None \notin Requests
    /\ IsFiniteSet(Requests) /\ IsFiniteSet(Booked) /\ IsFiniteSet(Hosted)
    /\ Amounts \subseteq Nat
    /\ MinTokens \in Nat \ {0}
    /\ Cost \in Nat \ {0}
    /\ InitialBalance \in Nat

VARIABLES
    wallet,
    status,     \* of every request: on its way, refused, or its payout's status
    tokens,     \* tokens_requested
    page,       \* the interviewer's tabs
    screen,     \* the admins' screens
    booking,    \* how often a booked session's lock was taken from the wallet
    hosted      \* payment_status of a hosted session

browsers == <<page, screen>>
vars == <<wallet, status, tokens, browsers, booking, hosted>>

Active == {"REQUESTED", "APPROVED"}
PayoutStatus == Active \cup {"REJECTED", "PAID"}
InFlight == {"sent", "checked"}

ActivePayouts == {r \in Requests : status[r] \in Active}

-----------------------------------------------------------------------------
(* The request page *)

Closed == [view |-> "closed", available |-> 0, request |-> None]

\* usePayoutEligibility: the form is gone while it loads.
LoadEligibility(t) ==
    /\ page[t].view \in {"closed", "refused", "form"}
    /\ page' = [page EXCEPT ![t] = [Closed EXCEPT !.view = "loading"]]
    /\ UNCHANGED <<wallet, status, tokens, screen, booking, hosted>>

\* get_available_balance; unlike the service's own check it does not
\* subtract locked_balance.
AvailableOnPage == wallet[interviewer].balance

CanRequest == ActivePayouts = {} /\ AvailableOnPage >= MinTokens

ShowEligibility(t) ==
    /\ page[t].view = "loading"
    /\ page' = [page EXCEPT ![t] =
                  [view |-> IF CanRequest THEN "form" ELSE "refused",
                   available |-> AvailableOnPage,
                   request |-> None]]
    /\ UNCHANGED <<wallet, status, tokens, screen, booking, hosted>>

\* The form checks the amount against what it was shown, and is disabled
\* until its request is answered.
Submit(t, r, n) ==
    /\ page[t].view = "form" /\ status[r] = "unused"
    /\ MinTokens <= n /\ n <= page[t].available
    /\ page' = [page EXCEPT ![t].view = "sending", ![t].request = r]
    /\ status' = [status EXCEPT ![r] = "sent"]
    /\ tokens' = [tokens EXCEPT ![r] = n]
    /\ UNCHANGED <<wallet, screen, booking, hosted>>

Answered(r) == status[r] \notin InFlight

\* Success reloads the eligibility; an error leaves the form.
ReceiveAnswer(t) ==
    /\ page[t].view = "sending" /\ Answered(page[t].request)
    /\ page' = [page EXCEPT ![t] =
                  IF status[@.request] = "refused"
                  THEN [@ EXCEPT !.view = "form", !.request = None]
                  ELSE [Closed EXCEPT !.view = "loading"]]
    /\ UNCHANGED <<wallet, status, tokens, screen, booking, hosted>>

\* A network error looks like a refusal, whatever the server does.
LoseAnswer(t) ==
    /\ page[t].view = "sending"
    /\ page' = [page EXCEPT ![t].view = "form", ![t].request = None]
    /\ UNCHANGED <<wallet, status, tokens, screen, booking, hosted>>

-----------------------------------------------------------------------------
(* PayoutService.create_request *)

\* The checks read rows that are not locked.
PassesChecks(r) ==
    /\ tokens[r] >= MinTokens
    /\ ActivePayouts = {}
    /\ wallet[interviewer].balance >= tokens[r] + wallet[interviewer].locked_balance

CheckRequest(r) ==
    /\ status[r] = "sent"
    /\ status' = [status EXCEPT ![r] = IF PassesChecks(r) THEN "checked" ELSE "refused"]
    /\ UNCHANGED <<wallet, tokens, browsers, booking, hosted>>

\* Mutants: no constraint stops the second of two requests that passed the
\* checks; the constraint does, but the lock is not rolled back.
NoConstraint == TRUE
Untouched(w) == w
LeakedLock(w) == LockTokens(w, interviewer, MinTokens)

\* unique_active_payout_per_interviewer
UniqueActive == ActivePayouts = {}

\* A violated constraint rolls the lock back with the transaction.
RolledBack(w) == Untouched(w)

CommitRequest(r) ==
    /\ status[r] = "checked"
    /\ \/ /\ CanLock(wallet, interviewer, tokens[r]) /\ UniqueActive
          /\ wallet' = LockTokens(wallet, interviewer, tokens[r])
          /\ status' = [status EXCEPT ![r] = "REQUESTED"]
       \/ /\ ~(CanLock(wallet, interviewer, tokens[r]) /\ UniqueActive)
          /\ wallet' = RolledBack(wallet)
          /\ status' = [status EXCEPT ![r] = "refused"]
    /\ UNCHANGED <<tokens, browsers, booking, hosted>>

-----------------------------------------------------------------------------
(* The admins' pages *)

Away == [view |-> "away", payout |-> None, seen |-> None, action |-> None]

\* The queue and the detail page show a payout as it is when fetched.
OpenPayout(a, r) ==
    /\ screen[a].view \in {"away", "shown"}
    /\ status[r] \in PayoutStatus
    /\ screen' = [screen EXCEPT ![a] = [view |-> "shown", payout |-> r,
                                        seen |-> status[r], action |-> None]]
    /\ UNCHANGED <<wallet, status, tokens, page, booking, hosted>>

\* The buttons of AdminActionButtons and the queue.  The service would also
\* reject an APPROVED payout; no page offers it.
Buttons(seen) ==
    CASE seen = "REQUESTED" -> {"approve", "reject"}
      [] seen = "APPROVED" -> {"markPaid"}
      [] OTHER -> {}

\* A confirmed dialog; buttons and dialogs are disabled until the answer.
Confirm(a, action) ==
    /\ screen[a].view = "shown" /\ action \in Buttons(screen[a].seen)
    /\ screen' = [screen EXCEPT ![a].view = "sending", ![a].action = action]
    /\ UNCHANGED <<wallet, status, tokens, page, booking, hosted>>

\* Mutant: a payout is rejected without looking at its status.
AnyStatus == PayoutStatus
CanBeRejected == Active

MayDecide(r, action) ==
    CASE action = "approve" -> status[r] = "REQUESTED"
      [] action = "reject" -> /\ status[r] \in CanBeRejected
                              /\ CanTakeLocked(wallet, interviewer, tokens[r])
      [] action = "markPaid" -> /\ status[r] = "APPROVED"
                                /\ CanTakeLocked(wallet, interviewer, tokens[r])

\* finalize_locked_tokens: the tokens leave the system.
FinalizeLockedTokens(w, u, amount) ==
    [w EXCEPT ![u].locked_balance = @ - amount]

Decided(action) ==
    CASE action = "approve" -> "APPROVED"
      [] action = "reject" -> "REJECTED"
      [] action = "markPaid" -> "PAID"

\* approve, reject and mark_paid lock the payout's row and then the wallet.
\* On success the page fetches the payout again; an error, or an answer that
\* is lost, leaves it as it was.
Decide(a) ==
    LET r == screen[a].payout
        action == screen[a].action
    IN  /\ screen[a].view = "sending"
        /\ \/ /\ MayDecide(r, action)
              /\ status' = [status EXCEPT ![r] = Decided(action)]
              /\ wallet' = CASE action = "approve" -> wallet
                             [] action = "reject" ->
                                  UnlockTokens(wallet, interviewer, tokens[r])
                             [] action = "markPaid" ->
                                  FinalizeLockedTokens(wallet, interviewer, tokens[r])
              /\ \E seen \in {screen[a].seen, Decided(action)} :
                    screen' = [screen EXCEPT ![a].view = "shown", ![a].action = None,
                                             ![a].seen = seen]
           \/ /\ ~MayDecide(r, action)
              /\ screen' = [screen EXCEPT ![a].view = "shown", ![a].action = None]
              /\ UNCHANGED <<status, wallet>>
        /\ UNCHANGED <<tokens, page, booking, hosted>>

-----------------------------------------------------------------------------
(* The other users of the wallet *)

\* The interviewer books a session; the host marks it complete and is paid
\* (other outcomes are in BookingLifecycle).
Book(b) ==
    /\ booking[b] = "none" /\ CanLock(wallet, interviewer, Cost)
    /\ booking' = [booking EXCEPT ![b] = "open"]
    /\ wallet' = LockTokens(wallet, interviewer, Cost)
    /\ UNCHANGED <<status, tokens, browsers, hosted>>

CompleteBooking(b) ==
    /\ booking[b] = "open" /\ CanTakeLocked(wallet, interviewer, Cost)
    /\ booking' = [booking EXCEPT ![b] = "settled"]
    /\ wallet' = TransferLockedTokens(wallet, interviewer, peer, Cost)
    /\ UNCHANGED <<status, tokens, browsers, hosted>>

\* /complete/ leaves payment_status PENDING: the no-show check refunds the
\* booking once more, from whatever is locked.
RefundAgain(b) ==
    /\ booking[b] = "settled" /\ CanTakeLocked(wallet, interviewer, Cost)
    /\ booking' = [booking EXCEPT ![b] = "drawn"]
    /\ wallet' = UnlockTokens(wallet, interviewer, Cost)
    /\ UNCHANGED <<status, tokens, browsers, hosted>>

\* An evaluated session is paid from the peer's locked tokens.
Earn(h) ==
    /\ hosted[h] = "AWAITING_EVALUATION" /\ CanTakeLocked(wallet, peer, Cost)
    /\ hosted' = [hosted EXCEPT ![h] = "PAID_TO_INTERVIEWER"]
    /\ wallet' = TransferLockedTokens(wallet, peer, interviewer, Cost)
    /\ UNCHANGED <<status, tokens, browsers, booking>>

\* FULL_REFUND of an issue debits spendable tokens, never locked ones; once
\* here, of a paid session (SessionIssues has the rest).
FullRefund(h) ==
    /\ hosted[h] = "PAID_TO_INTERVIEWER"
    /\ wallet[interviewer].balance >= Cost
    /\ hosted' = [hosted EXCEPT ![h] = "REFUNDED_TO_CANDIDATE"]
    /\ wallet' = [wallet EXCEPT ![interviewer].balance = @ - Cost,
                                ![peer].balance = @ + Cost]
    /\ UNCHANGED <<status, tokens, browsers, booking>>

-----------------------------------------------------------------------------
(* Specification *)

Init ==
    /\ wallet = [u \in Users |->
                   [balance |-> InitialBalance,
                    locked_balance |-> IF u = peer THEN Cardinality(Hosted) * Cost ELSE 0]]
    /\ status = [r \in Requests |-> "unused"]
    /\ tokens = [r \in Requests |-> 0]
    /\ page = [t \in Tabs |-> Closed]
    /\ screen = [a \in Admins |-> Away]
    /\ booking = [b \in Booked |-> "none"]
    /\ hosted = [h \in Hosted |-> "AWAITING_EVALUATION"]

Page(t) == LoadEligibility(t) \/ ShowEligibility(t) \/ ReceiveAnswer(t) \/ LoseAnswer(t)
           \/ \E r \in Requests, n \in Amounts : Submit(t, r, n)
Service(r) == CheckRequest(r) \/ CommitRequest(r)
Admin(a) == \/ \E r \in Requests : OpenPayout(a, r)
            \/ \E action \in {"approve", "reject", "markPaid"} : Confirm(a, action)
            \/ Decide(a)
Sessions == \/ \E b \in Booked : Book(b) \/ CompleteBooking(b) \/ RefundAgain(b)
            \/ \E h \in Hosted : Earn(h) \/ FullRefund(h)

Next == \/ \E t \in Tabs : Page(t)
        \/ \E r \in Requests : Service(r)
        \/ \E a \in Admins : Admin(a)
        \/ Sessions

Spec == Init /\ [][Next]_vars

-----------------------------------------------------------------------------
(* Correctness *)

TypeOK ==
    /\ wallet \in [Users -> Wallet]
    /\ status \in [Requests -> {"unused", "refused"} \cup InFlight \cup PayoutStatus]
    /\ tokens \in [Requests -> Nat]
    /\ page \in [Tabs -> [view : {"closed", "loading", "refused", "form", "sending"},
                          available : Nat, request : Requests \cup {None}]]
    /\ screen \in [Admins -> [view : {"away", "shown", "sending"},
                              payout : Requests \cup {None},
                              seen : PayoutStatus \cup {None},
                              action : {"approve", "reject", "markPaid", None}]]
    /\ booking \in [Booked -> {"none", "open", "settled", "drawn"}]
    /\ hosted \in [Hosted -> {"AWAITING_EVALUATION", "PAID_TO_INTERVIEWER",
                              "REFUNDED_TO_CANDIDATE"}]

\* However many tabs ask at once, repeat a request whose answer was lost, or
\* pass the unlocked check together, an interviewer has one active payout.
OneActivePayout ==
    \A r, s \in ActivePayouts : r = s

Bookings(state) == {b \in Booked : booking[b] = state}
TokensOf(rs) == SumFunctionOnSet(tokens, rs)

\* The locked balance is what active payouts and open bookings locked, less
\* what second settlements drew: a request that is refused late keeps
\* nothing, two admins unlock or pay a payout once, and a payout can be paid
\* or rejected as long as no booking was settled twice.  And no step mints
\* or burns tokens: what left the wallets was paid out.
TokensAccountedFor ==
    /\ wallet[interviewer].locked_balance + Cost * Cardinality(Bookings("drawn"))
         = TokensOf(ActivePayouts) + Cost * Cardinality(Bookings("open"))
    /\ wallet[interviewer].balance + wallet[interviewer].locked_balance
       + wallet[peer].balance + wallet[peer].locked_balance
       + TokensOf({r \in Requests : status[r] = "PAID"})
         = 2 * InitialBalance + Cost * Cardinality(Hosted)

\* What an interviewer was told of a payout's end stays: no stale admin
\* screen rejects what was paid or pays what was rejected.
DecisionsFinal ==
    [][\A r \in Requests : status[r] \in {"PAID", "REJECTED", "refused"}
                              => status'[r] = status[r]]_vars

=============================================================================
