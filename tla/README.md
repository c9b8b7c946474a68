# IntraView: TLA+ specifications

IntraView sells mock interviews. Candidates buy or are granted *tokens*, book
slots that interviewers publish, meet the interviewer in a video room, and the
tokens end with the interviewer or back with the candidate. A second product,
interviews held by an AI agent, shares accounts and subscriptions with the
first one and has a queue and a runtime of its own.

The backend (`src/intraview`) is Django on PostgreSQL under READ COMMITTED, with
Celery workers and beat. The agent (`src/intraview-agent`) is an asyncio
process. `src/Intraview-frontend` is a React client: the backend decides again
whatever it decides, but what a page holds, repeats and loses is where late,
doubled and crossing requests come from, and the models have pages for that
reason. Paths below are relative to `src/intraview` unless they say otherwise;
`F/` is `src/Intraview-frontend/src` and `A/` is `src/intraview-agent/src`.

## 1. Inventory

### Bookings, rooms and money (modelled)

| Part | State | Operations | Meets |
|---|---|---|---|
| Token wallets: `wallet/services.py`, `wallet/models.py` | `balance`, `locked_balance`, an append-only ledger of `TokenTransaction` rows | credit, debit, lock, unlock, transfer locked, finalize | called by bookings, settlement, payouts, purchases |
| Slots: `interviewers/models.py`, `interviewers/views.py` | hours and timezone, `max_bookings`, `is_active` | publish, soft delete, `remaining_capacity` | counted by bookings |
| Bookings: `bookings/views.py`, `views_interviewer.py`, `serializers.py` | `status`, `availability`, `reschedule_*`, `cancelled_at` | create, cancel (two sides), complete, move, request / accept / reject a move | slots (row lock and count), wallets, room |
| Room: `realtime/views.py`, `realtime/services/session_service.py`, and the page `features/interview/components/InterviewRoom.jsx` of the frontend | one `InterviewSession` per booking, created by the first join | join, disconnect, finish, end by time, no-show | writes `booking.status`; Celery beat runs its cleanup every minute |
| Settlement: `session_payment_service.py`, `wallet/signals.py` | `payment_status`, `evaluation_deadline` | settle at the end of the session, after an evaluation, at the deadline, after a no-show | wallets, evaluations |
| Evaluations: `feedbacks/interviewer_views.py`, `evaluation_service.py` | one row per booking | submit, edit | a `post_save` signal settles the booking |

What is hard here:

* Five handlers read the booking before they lock anything (join, reschedule
  request, accept, submit evaluation, and the signal that settles from the
  view's copy). What they decided may be wrong when they commit.
* Two columns tell one story. `booking.status` and `session.status` are written
  together by the room and by the cleanup job, and one at a time by everyone
  else; `payment_status` is written by the settlement only.
* Locks of tokens are anonymous. `unlock_tokens` and
  `transfer_locked_tokens` compare an amount with the wallet's total, so a second
  settlement of one booking takes the tokens locked for another.
* Errors are swallowed. Refunds run in a savepoint whose failure is logged; what
  retries them, if anything, is the next run of the cleanup job.

What makes it correct: a slot is never overbooked; the status and the room
agree; a closed room stays closed; the interviewer is paid only for a held and
evaluated session, once; wallets equal what the ledger says; a booking that
waits for its evaluation does not wait for ever.

### Payouts and issues (modelled)

| Part | State | Operations | Meets |
|---|---|---|---|
| Payouts: `wallet/_services/payout_service.py`, the request page and the admins' pages of `F/interviewerPayout` | `PayoutRequest.status`, tokens asked for | eligibility, create (locks), approve, reject (unlocks), mark paid (spends) | the locked balance that the same user's bookings use |
| Issues: `issues/services.py`, `authentication/tasks.py`, the pages of `F/features/issues` | `SessionIssue.status`; `is_suspended`, `suspended_until`, `is_active` of an account | report, change of status, refund, compensation, suspension, ban, the task that lifts a suspension | wallets and `payment_status` of the session reported |

Hard: checks on rows that are not locked (two tabs, two admins), backed by a unique
constraint only; screens that show an earlier status; answers that are lost and
requests that are repeated; a task that reads, then saves. What makes it correct: one
active payout and one active report per person, a decision once made stays, a lock that
is refused late leaves nothing behind, wallets are explained by what was decided, a
suspension is served and ends.

### Billing (modelled for candidates)

| Part | State | Operations | Meets |
|---|---|---|---|
| Stripe: `payments/views.py`, `payments/services/stripe_webhook_router.py`, `F/token_bundles` | `PaymentOrder`, `SubscriptionPaymentOrder` | checkout, webhook, the success page that verifies an order itself | wallets |
| Subscriptions: `subscriptions/` | `UserSubscription`, `SubscriptionTokenGrant` | activate, renew, cancel, nightly expiry | AI quota on the profile (`ai_interviews/service/quota_service.py`), wallets |

Hard: events delivered again, late and in any order; one of several transactions of an
event failing; an expiry task that writes what it read. What makes it correct: what is
paid takes effect, once; a period that was paid is served and ends; a quota is backed by a
subscription.

### AI interviews (modelled)

| Part | State | Operations | Meets |
|---|---|---|---|
| Starting: `service/services.py`, `service/quota_service.py` | a new session; free and subscription quota, wallet | check, create, charge, cancel the others | what was bought (Billing), sessions |
| Session: `ai_interviews/models.py`, `service/services.py`, `views.py`, `F/features/aiInterview/pages/LiveInterviewPage.jsx` | `AIInterviewSession.status`, turns | join, end, cancel, refresh by time, record a turn, notify completed | agent, tasks |
| Evaluation and report: `ai_interviews/tasks.py` | status of each turn's evaluation and of the report; Celery tasks | evaluate, generate, retry, watchdog | session |
| Ownership: `ai_interviews/views.py:551-920`, `A/runtime_guard.py` | owner and lease on `InterviewRuntimeState` | acquire, heartbeat, patch, release | runtimes of several joins |
| Agent: `A/runtime.py` | question index, place in the interview | ask, post a turn, sync, conclude, resume | all of the above |

Hard: every view saves a row it read without a lock; workers and agents die; a watchdog
cannot tell a slow worker from a dead one; a replaced agent goes on talking; a start is
several transactions, and crosses other starts and joins. What makes it correct: an
interview is charged once, from what is left of the period that pays it; the last one
started is the one that serves; no turn is skipped, no turn or report is forgotten, a
generated report stays, one lease at a time, an interview ends.

### Authentication (candidate's session modelled)

`F/utils/axiosClient.js`, `F/authentication/authSlice.js`, `authentication/`: two cookies
and one `localStorage` key shared by all tabs, `isRefreshing` and a queue per tab, rotation
with blacklist, a middleware that deletes dead cookies. Hard: several calls meet an expired
token at once; answers come in another order than they were asked for. What makes it
correct: the session survives expiry, calls are repeated, and none waits for ever.

### Interviewer accounts (modelled)

| Part | State | Operations | Meets |
|---|---|---|---|
| Application: `interviewers/views.py:101-388`, `serializers.py` | `InterviewerApplication.status`; role and `interviewer_status` of the user | apply, resubmit, review | onboarding |
| Onboarding: `interviewers/views.py:440-742`, `views_admin.py` | `onboarding_step`, availability, status of the verification | profile, availability, complete; submit and review documents | profile |
| Subscription: `interviewer_subscriptions/`, `payments/services/stripe_webhook_router.py` | `InterviewerSubscription.status`, `end_date` | checkout, activate, delete, mark, nightly expiry | hides the profile |
| Profile: `interviewers/views.py:1153-1217`, `F/interviewerProfile/interviewer/pages/InterviewerProfilePage.jsx` | `is_profile_public`, `is_accepting_bookings`; the page's copy | load, switch (PATCH), save (PUT) | subscription, verification |

Hard: views that write two rows without a transaction, two admins and two tabs, a broker that
fails between the rows; a PATCH that saves the row it read; a page that sends back its whole
copy; one active subscription enforced by a constraint while payments arrive in any order.
What makes it correct: the account follows the decision on the application; a public profile
has a subscription; a payment becomes a subscription, and it ends.

### Not modelled

| Part | Why |
|---|---|
| Questions of an AI interview, lists of interviews | generated by an external model or taken from a fixed list; reads |
| Tavus avatars, notifications, e-mail | calls of external services whose answers decide nothing else |
| Reviews, candidates' profiles, dashboards, progress, one-time passwords, deployment | forms, reads and single-row updates |
| The other pages of the frontend | a form or a list over one request |

`PROJECT.json` lists every component with its status, and under `hazards` the
lines where the code can go wrong in ways a test would hardly reach.

## 2. Modules

| Module | Models |
|---|---|
| `TokenService` | wallets: the functions lock, unlock and transfer with their guards |
| `BookingLifecycle` | bookings, slots, room, evaluation, settlement and cleanup job: the whole life of a booking, and its properties |
| `SlotCapacity` | what a slot promises, as an abstract specification: places are taken while there are some, given up for good |
| `BookingAccounting` | what wallets must add up to, over all bookings of a user |
| `RoomPresence` | the room page in the interviewer's browser, its requests on their way, and the counting of presence that the settlement compares with half of the session |
| `Payout` | the interviewer's request page (tabs), `PayoutService`, the admins' pages, and bookings on the same wallet |
| `SessionIssues` | reports, admin actions and suspensions of one session, with its settlement going on |
| `Billing` | checkouts, Stripe's events, the webhook router, the verifying page, expiry and AI quota |
| `InterviewStart` | extends `Billing`: requests that start AI interviews, how they are charged, and which sessions they leave |
| `AiInterview` | an AI interview from the first join to the report: requests of both sides, the agent, tasks, worker deaths, watchdog |
| `RuntimeOwnership` | the row that says which agent conducts an interview, and the agents that acquire, renew, resume and write it |
| `AuthSession` | tabs of a browser, cookies, interceptor, and the views that rotate, set and delete tokens |
| `InterviewerAccount` | an interviewer from the application to the public profile: reviews, onboarding, verification, subscription, expiry task, profile page |
| `MCRoom`, `MCReschedule`, `MCPayout`, `MCIssues`, `MCStart`, `MCAuth` | instances for TLC (the other runs need no definitions of their own) |
| `TokenServiceProofs` | what the wallet functions return, and what a sum over a finite set is |
| `BookingLifecycleProofs`, `RoomPresenceProofs`, `PayoutProofs`, `SessionIssuesProofs`, `BillingProofs`, `RuntimeOwnershipProofs`, `AuthSessionProofs` | theorems and proofs of the module each is named after; `BookingLifecycleProofs` also of `BookingAccounting`, `BillingProofs` of `InterviewStart` and `InterviewerAccount`, `RuntimeOwnershipProofs` of `AiInterview` |

`Payout` and `SessionIssues` extend `TokenService`, so bookings, payouts and refunds move
tokens by the same operators; each has the other users of its wallet as actions of its own
(`Book`, `CompleteBooking`, `Earn`, `RefundAgain` in `Payout`; the settlement in
`SessionIssues`). `BookingAccounting` and `MCReschedule` extend `BookingLifecycle`, which
implements `SlotCapacity`. `InterviewStart` composes what is sold with what is used: every step
of `Billing` is one of its steps. Its sessions are READY, LIVE or over; what happens in one
is `AiInterview`. `RuntimeOwnership` refines what `AiInterview` treats as one agent
at a time; the two are not composed.

### How code becomes actions

A handler that takes the booking's row lock with its first read, and keeps it to
its commit, is one action: `Create`, `CancelByCandidate`, `CancelByInterviewer`,
`Complete`, `CandidateReschedule`, `RejectReschedule`. `Create` holds the lock
of the slot's row instead, and so do all ways of moving a booking, which is why
the count of occupants cannot change under them.

A handler that reads first is split where it waits for a lock. Its first action
leaves a record in `requests` with what later steps still use of the read; the
commit action uses that record and the *current* state exactly as the code does:

| Code | Read | Commit | What is stale in between |
|---|---|---|---|
| `ZegoTokenAPIView.get`, `handle_connect` | `ReadJoin` | `CommitJoin` | the booking's status (written blindly with `save(update_fields=["status", ...])`) |
| `CandidateRescheduleRequestView.post` | `ReadRescheduleRequest` | `CommitRescheduleRequest` | everything but the three conditions of `MayPropose` |
| `InterviewerAcceptRescheduleView.post` | `ReadAccept` | `CommitAccept` | the booking's status |
| `SubmitCandidateEvaluationAPIView.post` | `ReadEvaluation`, `DecideEvaluation` | `CommitEvaluation` | status, payment status and deadline of the booking |

`CommitEvaluation` is a step of its own because inserting the evaluation takes no
lock on the booking: Django creates foreign keys on PostgreSQL as deferrable, so
the reference is checked at commit. Between its deadline check and its transfer
the cleanup job may therefore refund the same booking.

The cleanup job is one transaction over many rows, taken with
`skip_locked`: any subset of the eligible rows may be handled, so each row is an
action (`EndByTime`, `NoShow`, `RefundExpired`). Rows do not influence each other
except through the wallet, and every order of the rows is a behaviour.

When a paying evaluation and the job for expired deadlines meet, the first holds
the wallets and wants the booking, the second the booking and wants the wallet.
PostgreSQL aborts one; the signal handler swallows the error
(`wallet/signals.py:46-57`). `DeadlockVictim` is that case.

`RoomPresence` has the page as a state (`closed`, `loading`, the lobby, the call) and
requests as messages that may be lost, late, or cross each other. The page asks for a
token once per load, and that request is what the server records as a connect;
"Join" and "Leave" move between lobby and call, and only "Leave" tells the server.
Leaving the page for good sends one notice from the handler and one more from the
unmount effect; closing or reloading the tab sends none. `handle_connect`,
`handle_disconnect`, `check_session_end_by_time` and `settle_session_payment` are
actions of the module as far as they concern the interviewer's seconds, which alone
decide (the candidate's are recorded and never compared).

`Payout`: `create_request` checks first and locks later, hence `CheckRequest` and
`CommitRequest`; the unique constraint decides at the commit, and the lock of a refused
request is rolled back with it (`RolledBack`). An admin's page offers the buttons of the
status it *showed* (`Buttons`), the service looks at the status there is (`MayDecide`,
`CanBeRejected`).

`SessionIssues`: the settlement is read (`ReadEvaluation`) and committed
(`PayInterviewer`), the lifting task likewise (`ReadLift`, `SaveLift`); admin actions run
under a lock on the report and are one action each. A scheduled task stays in `lifts`
after it has run, because a broker may deliver it again.

`Billing`: an event stays in `mail` until it is answered 200, and `Acknowledge` may keep it
for another delivery. `Activate` is one action under the lock on the user's row. The expiry
task reads (`ReadEnded`), then handles one row per transaction (`Expire`).
`WithoutSession` and `CanRecord` are the two unique columns that decide what can be stored.

`InterviewStart`: no setting makes a request a transaction, so each of the steps of
`create_session` commits on its own: `CheckEligibility`, `CreateSession`, `Consume` (one
transaction under the lock on the profile), `DropSession` for a charge that was refused,
`ReadOthers`, one `CancelOther` per session that was read, `AnswerStart`. `mark_cancelled`
and `mark_live` test the status of the copy in hand and save it, so `CancelOther` and
`CommitJoin` look at nothing. `Break` is a worker that dies in between; saving a session that
was deleted in the meantime also ends a request. The page knows a session by the answer to
its start, hence the guard of `ReadJoin`.

`AiInterview`: a request is `Ask`, which reads the status, and the action of its view, which
writes what follows from the read. A task is taken off the queue when it starts
(`StartEvaluation`, `StartReport`) and ends in its own way: finished, failed and retried, or
lost with its worker. `RuntimeOwnership` has the same split with the whole row as what was
read, and two requests per runtime, one of the interview and one of the heartbeat loop.

`AuthSession`: `Request` sends the cookies of the moment, `Serve` answers, `Hear` stores what
the answer sets; the three are steps apart, for every call of every tab.

`InterviewerAccount`: no view of it opens a transaction, so each save is a step. A request that
writes two rows goes from idle to `read`, to `half` and back to idle, and `Interrupt` ends it
in the middle. The PATCH of a switch is `CheckPatch`, which reads, and `CommitPatch`, which
writes back what it `read` with one switch changed; `Save` is the PUT with the page's copy.
The expiry task is one transaction that reads (`ReadExpired`) and writes (`CommitExpired`).
The variable `story` is a bound: a behaviour follows an applicant up to activation, or starts
with an interviewer who has just been activated, as the subscription and the page depend on
the account being ACTIVE and not on how it became so. Verification is one action per view. Suspensions are in
`SessionIssues`; the generic admin edit, the plans, and renewals (which write an order and
nothing else) are left out.

### Data

* Time is a small counter. `StartOf` and `EndOf` are the booking's columns
  `start_datetime` and `end_datetime`: `Create` reads the slot's hours in the
  slot's timezone, every move reads them with `make_aware`, in the server's
  (`Asia/Kolkata`), so each slot has two pairs of hours.
* `ledger` counts the `TokenTransaction` rows that settle a booking by kind.
  `COMPLETE_EARN` is the `SESSION_EARN` row of `/complete/`, which has the reference
  `booking_<id>` and is therefore not found by the settlement's own check for
  `<id>`.
* Whether an interviewer was present for half of the session is a free choice in
  `BookingLifecycle`'s `EndByTime`, so both outcomes are explored for every session;
  `RoomPresence` computes it.
* Identity checks (is the caller the candidate, the interviewer of this booking)
  are folded into who performs an action; text fields, notifications and logging
  are left out.

## 3. Runs

All bounds are constants with their names in the `.cfg` files. A `Horizon` stops the
clock, `Max...` constants bound how often something optional happens.
`CHECK_DEADLOCK FALSE` is set where the system may stop: when the clock has stopped and
nobody acts, or when an interview or a plan of a user is over.

| Run | Instance | Shows |
|---|---|---|
| `Room` | one booking, three requests in flight, fairness | status and room agree; a closed room is final; payment only with an evaluation in time, and once; nothing is paid or refunded while `payment_status` still promises it; live rooms end; bookings past their deadline are settled while their tokens are there |
| `RoomAccounting` | two bookings, two places, one wallet | wallets equal the ledger, also after a settlement at another booking's expense; without a room a booking is settled at most once; a paid booking stays paid, although the other booking's tokens could cover a refund |
| `Moves` | two bookings, three slots of one place each, the third of another interviewer, two requests in flight | bookings stay with their interviewer and places are kept by creations, direct moves, requests and answers together; implements `SlotCapacity` |
| `Presence` | one room page loaded twice, one "Leave", requests in any order and lost | the recorded seconds are what the row saw, except for repeated connects (too few) and repeated notices (too many); an interviewer who stays is not refunded; an ended session's seconds are final |
| `Payout` | two requests from two tabs, or the second after a lost answer, two admins, one booked and one hosted session | one active payout; the locked balance is what payouts and bookings locked; nothing is minted or burnt; decisions stay |
| `Issues` | two reports of the candidate, one of the interviewer, one admin, two actions, time for three suspensions | one active report of a person; balances explained by one settlement and the admins' actions; suspensions are served, and end |
| `Billing` | one of three stories: a Starter and a Pro checkout and one bundle, one redelivery, two cycles; the Starter checkout and two interviews; three interviews without a subscription | every grant, bundle and interview is accounted for once, and no period pays more than its quota; a paid period is served and backs the quota; nothing is held unpaid; the session of a start that met nobody is the only active one; what was paid takes effect; what has ended expires |
| `Ai` | two questions, one retry, one fault, one reset of a slow worker, two requests of the candidate | no turn and no report forgotten; a generated report stays; a stuck one is finished; an interview that has an agent ends |
| `Runtime` | two agents, two questions, a lease of one | one lease at a time unless two saves cross; no turn skipped; every agent comes to an end |
| `Auth` | two tabs with two calls, one call, a second login and a logout, in three plans; access tokens expire twice | the session is kept through expiry, repetition and login; calls survive; none waits for ever |
| `Account` | two tabs and two admins, requests that die half-way; two checkouts with a cycle of one, the expiry task, the profile page | the account follows the application; a public profile has a subscription; payments take effect and subscriptions end |
| `ClaimReport` | one question, no fault | a statement the code does not keep, below |

Why the bounds are enough. In `MCRoom` the slot starts at 2 and ends at 3 with all
windows of length 1 or 2, so every window opens and closes before `Horizon` = 5:
cancelling is possible at 0, joining from 1 to 4, no-show from 3, the session
ends from 3, and a deadline set then has passed at 5. `Room` uses 6, so that a
deadline set one tick late also passes. Three overlapping requests are two joins and an evaluation, or two evaluations and a
join; every stale-read conflict found needs two. Two bookings are what it takes
for one to draw on the other's lock or take the other's place. `RoomAccounting` gives both a
place; that no slot is overbooked is part of `PlacesSpec` in `Moves`, and that rooms, refunds
and joins that take a place back keep to it as well is the theorem `SlotCapacityImplemented`,
for all constants. The windows keep
the order of the code (10 minutes < 2 hours <= 3 hours <= 5 hours), which is the
assumption `TimingAssumption`.

In the `Moves` run a move, a request and its acceptance are possible twice for each
booking; rooms do not open (`Horizon` = 1 lies before the first one).

In `Presence` the session lasts from 1 to 5, half of it is 2, and the clock runs to 7, so
that pages are opened early, at the last moment, and after the end. Two loads are what
a repeated connect needs; one "Leave" and the two notices of a closing page are enough
for a repeated notice.

In `Payout` an unlocked check is passed by two requests, the smallest number that can
break the rule of one active payout, and the wallet (4 tokens, costs of 2, requests of 2
and 3) can be short for every operation. In `Issues` two reports of one person are what
the unique constraint is about, and three suspensions of length 1 make the task of an
earlier one due in a later one. In `Billing` two checkouts let an event about one meet
the subscription of the other, with the redelivery after a cancellation or an expiry;
each is charged once, because a second invoice is answered 500 for ever, whatever its
number (the same properties also held with two invoices for one of them, in a run of 4
minutes). The story of a behaviour (`MCStart`) bounds what the candidate does, never
what Stripe and the expiry task must do. With two interviews and a quota of 1, both see
the last one, pass the check together and one finds it gone; the quota is used up,
replaced, and lost when it expires, and the free interview and the tokens of the grant
follow. Three interviews are two that cross, and one that comes before or cleans up
after them; one dead worker leaves a session or a charge behind at any step; the free
interview and a bundle of 3 tokens pay all three, or the last are refused, early or
late. (With a redelivery in the second story, and an order verified by the page in the
third, the same properties held.) In `Account` two checkouts are what it takes for one
subscription to supersede another; a cycle of 1 in a clock of 2 is over and has been
renewed or not; the two switches of the page are one, as both are read, sent and hidden
together (with both and one checkout the same properties held). In `Ai` the last and the
last but one evaluation differ with two questions; one fault is a dead worker, a lost
answer, an exhausted retry or a dead agent. `ClaimReport` allows three retries and no
fault. In `Runtime` a lease of 1 in a clock of 2 runs out, is renewed, taken over and
taken back. In `Auth` two calls of one tab are a refresher and one that waits for it;
the second expiry meets the repeated call.

`SYMMETRY` over bookings is used in safety runs only; bookings are
interchangeable keys.

A type invariant that is proved for all values of the constants (section 4) is not checked
by TLC again. Nor is `TokensExplained`, the accounts of a candidate who spends nothing:
`QuotaAccounted` states them with what interviews cost.

### Fairness

`FairSpec` assumes that time passes (`WF_vars(Tick)`) and that the cleanup job treats
every row that stays eligible: beat starts it every 60 seconds
(`intraview/celery.py:26-29`), row locks last as long as a request, and a skipped row
is met again by the next run. No user is obliged to do anything, and a request
may die after its read. Weak fairness per row is enough: an eligible row stays
eligible until it is handled, or somebody else's step makes it unnecessary.

`SessionIssues`: time passes and due tasks run. `Billing`: Stripe repeats what was not
answered 200 (it does so for days), and the expiry task starts every night
(`intraview/celery.py:18-21`). `InterviewerAccount`: the same, with a task of its own
(`intraview/celery.py:22-25`). No user and no admin has to do anything.

`AiInterview`: workers take what is queued, the watchdog starts every ten minutes
(`intraview/celery.py:40-43`), requests are served, and agent and page do what their timers
say. Fairness does not help against what was lost: `lost` records it and
`NothingForgotten` speaks of runs without a loss, `StuckRecovered` of all.

`RuntimeOwnership`: the interview loop of a runtime that is alive goes on, and its posts are
not refused for ever; heartbeats and the clock are under no obligation. `AuthSession`:
requests are served and answers heard; a tab may be closed or lose its network at any time.

### A statement the code does not keep

`ClaimReport`. `AgentNotifyCompletedView` "Marks session as COMPLETED and triggers final
report generation." (`ai_interviews/views.py:509`), and the agent announces to the page
that the report has been queued. But `_conclude_interview` sends the runtime state
COMPLETED first (`A/runtime.py:729`); that PATCH completes the session and queues nothing
(`views.py:684-689`), so the notification finds nothing to do (`views.py:517-519`). Two
others could still queue the report: the evaluation that is the last, if it *read* the
session as COMPLETED, and the page's own request three seconds later, if no evaluation is
PENDING by then. The counterexample is the evaluation of the last answer, begun before the PATCH and finished
after the page's request: the report is never generated, and the watchdog looks at
PROCESSING reports only.

### Other defects the models show

What these statements say is part of the models (the actions do what the code does), so the
properties above are stated as what remains true. Each was found by TLC as a violated
property while the modules were written.

* *Presence restarts.* `handle_connect` replaces `interviewer_connected_at`
  (`session_service.py:78`) without adding the interval it closes: after a reload the time
  before it is lost, and an interviewer who was there all along can be refunded, against
  "If interviewer DID meet minimum presence -> set payment_status = AWAITING_EVALUATION"
  (`session_payment_service.py:11`). Hence the slack in `CountedAsSeen`.
* *Settled twice.* `/complete/` and the cancellations leave `payment_status` PENDING and the
  room open; the no-show check looks for a REFUND row only (`session_payment_service.py:329`)
  and refunds the booking again, from tokens locked for another booking or for a payout. Hence
  `Covered` in `AwaitingIsSettled` and the drawn locks in `TokensAccountedFor`.
* *An early evaluation is refunded.* "Evaluation exists but payment wasn't processed - pay
  now" (`session_payment_service.py:263`) calls a method that refunds, since the deadline has
  passed by the query's own condition (`:255`).
* *Paid and refunded.* The settlement decides from a copy of the booking and never locks it:
  the cleanup job can refund between the check (`:176`) and the transfer (`:206`).
* *Nobody came.* `check_no_show` runs for existing sessions, and the first join creates them:
  a booking nobody joined keeps its tokens locked.
* *A place taken back.* `handle_connect` writes LIVE over a cancellation it has not seen
  (`session_service.py:94`), after the place went to somebody else. Hence
  `CapacityRespected` counts holders that were never cancelled: that is what the row locks
  guarantee.
* *Past slots.* "Can only reschedule to future slots." (`bookings/serializers.py:471`) reads
  the slot's hours in the server's timezone, creating a booking in the slot's.
* *A lock orphaned by an admin.* A full refund of a booking that awaits its evaluation pays
  from the interviewer's spendable tokens, and the candidate's locked ones stay locked for
  ever.
* *Refunds without a bound.* "Refund amount cannot exceed session token cost"
  (`issues/services.py:289`) is checked per action; two actions, or two reports, refund more.
* *A suspension wiped.* `lift_user_suspension` ("Safe to run multiple times",
  `authentication/tasks.py:53`) saves over a suspension an admin committed after its read.
  Hence `overtaken` in `SanctionServed`. Nothing ever reads `is_suspended`.
* *Two formulas for a payout.* The eligibility endpoint does not subtract the locked balance,
  the service subtracts it from a balance that already excludes it: the form accepts what
  the service refuses.
* *Renewals never appear.* `stripe_subscription_id` is unique (`subscriptions/models.py:209`)
  and the checkout's order has it: recording a renewal fails for every delivery, with the
  tokens of that cycle.
* *Tokens granted again.* A redelivered checkout event sets a new `start_date`, the key of
  the grant.
* *A blank that is unique.* An order whose Stripe session could not be opened keeps
  `stripe_checkout_session_id` "" (`subscriptions/models.py:208`), and no candidate can start
  another subscription checkout.
* *A plan changed is paid twice.* The old subscription is cancelled in the database and never at
  Stripe; an invoice that precedes its checkout event is acknowledged and not repeated.
* *Reports PENDING for ever.* Four transient errors use up the retries, and the watchdog does
  not look at PENDING. It cannot tell a slow worker from a dead one either, as the model is
  called without a timeout: hence `resets = 0` in `SuccessKept`.
* *Two starts leave nothing.* Two starts that cross read each other's session and cancel it:
  both are charged and answered 201, and neither can be joined. `serving` in `LastStartServes`
  is therefore about starts that met nobody. `mark_cancelled` also overwrites an interview
  that was completed after it was read.
* *An old session comes back.* "Ensure the user has only one active session. Any other
  READY/CREATED/LIVE sessions are marked CANCELLED." (`service/services.py:159-160`) A join
  that read its session READY (`services.py:372`) saves it LIVE after a later start cancelled
  it, and two sessions are active when every request is answered. For the same reason
  `serving` ends when a join crosses a start.
* *A charge without an interview.* A worker that dies after `consume_quota`, or that meets a
  session deleted by another start, answers nothing: the candidate has paid, knows no session
  to join, and nothing pays back. `NothingForFree` says only that who was *refused* has not paid.
* *A quota filled again.* A redelivered checkout event activates the subscription once more
  and restores the whole quota, so a period can pay twice what was sold: a "period" of
  `QuotaAccounted` is therefore an activation.
* *Two agents.* Two acquires that cross are both granted although ownership "prevents
  duplicate/zombie interview agents" (`A/runtime.py:897`); heartbeats and patches that cross
  turn the owner back. Hence `crossed` in `OneLease`. An agent that is refused within the 20
  seconds of a lease does not try again.
* *Decided by halves.* An application and its account are two saves in no transaction
  (`interviewers/views.py:139-183`, `:325-388`). A resubmission from a second tab that is late
  leaves an approved applicant at PENDING_APPROVAL; two reviews that cross leave application
  and account with different decisions; when the broker is down between them the user is
  an interviewer whose application is PENDING. Hence `settled` in `AccountFollowsDecision`.
* *Public without a subscription.* "Subscription plan required for interviewers to go public
  and accept bookings." (`interviewer_subscriptions/models.py:19-22`) is checked by the PATCH
  of the switches. The PUT of the page writes the same switches from its copy and checks
  nothing, so a page left open restores them after the task has hidden the profile;
  cancellation at Stripe and an admin's mark leave the profile public. Hence `exposed` in
  `PublicIsPaidFor`.
* *A period cut short.* Two open checkouts can both be paid, and the second supersedes what
  is left of the first; a renewal never moves `end_date`; a deletion event that comes before
  its checkout event is ignored, and the deleted subscription is activated afterwards; the
  expiry task hides an interviewer who has just paid again.
* *Going live.* "your profile will go live" (`CompleteStep.jsx:37`), but completing leaves
  the switches off, and an ACTIVE interviewer who saves the onboarding form once more turns
  them off.
* *Sessions lost.* Two tabs that rotate one refresh token, or an answer to a rotation that
  is not heard, end the session; the refused refresh is an uncaught `TokenError`, answered
  500, which sends the page to `/error/500` and not to the login. Cookies are deleted by the
  tokens of the *request*, so a late answer can delete a fresh cookie. Hence `crossed` in
  `SessionKept`. Calls that wait for a refresh that fails are neither repeated nor refused;
  the model calls them `forgotten`, and `CallsSettle` counts them as settled.

## 4. Proofs

`tlapm` checks every step; the theorems hold for all values of the constants that satisfy
the assumptions named in each module (`ConfigAssumption` and `TimingAssumption`,
`PayoutAssumption`, `IssueAssumption`, `BillingAssumption`, `AccountAssumption`,
`StartAssumption`, `RuntimeAssumption`, `AiAssumption`, `AuthAssumption`: typed constants, finitely many keys where something is counted, and the
order of the windows). TLC evaluates them on every run.

| Module | Theorem | Establishes |
|---|---|---|
| `BookingLifecycleProofs` | `TypeCorrect` | `[]TypeOK`: no wallet or locked balance goes negative, whichever handlers overlap |
| | `StatusCorrect` | `[]StatusMatchesRoom` |
| | `RoomOutcomeIsFinal` | `RoomOutcomeFinal`: a closed room and its booking's status never change |
| | `CapacityIsRespected` | `[]CapacityRespected` for any number of slots, places and bookings |
| | `SlotCapacityImplemented` | `Spec => PlacesSpec`: the bookings implement `SlotCapacity`, every step a step of it or a stutter |
| | `MovesStay` | `[]MovesStayWithInterviewer` |
| | `PaidOnlyForEvaluation`, `PaidStaysPaid` | `[]PaidForEvaluation`, `PaidIsFinal` |
| | `RoomlessIsSettledOnce` | `[]RoomlessSettledOnce` |
| | `WalletsAgreeWithLedger` | `[]WalletsMatchLedger`: sums over any number of bookings |
| `RoomPresenceProofs` | `PresenceTypeCorrect`, `CountIsAsSeen`, `CountIsFinal` | types, `[]CountedAsSeen` and `CountFinal`, for every session length and number of loads |
| | `SteadyPresenceIsPaid` | `[]SteadyPresenceCounts` |
| `PayoutProofs` | `TypesCorrect`, `ActivePayoutUnique`, `DecisionsStay` | types, `[]OneActivePayout`, `DecisionsFinal` |
| | `PayoutsAccounted` | `[]TokensAccountedFor`, for any number of requests, amounts and sessions |
| `SessionIssuesProofs` | `TypesCorrect`, `ActiveReportUnique`, `BalancesCorrect`, `SanctionLasts` | types, `[]OneActiveIssue`, `[]BalancesExplained`, `[]SanctionServed` |
| `BillingProofs` | `TypesCorrect`, `PeriodServed`, `QuotaCorrect`, `TokensCorrect` | types, `[]PaidPeriodServed`, `[]QuotaBacked`, `[]TokensExplained`: any number of subscriptions, invoices and redeliveries |
| | `StartTypesCorrect`, `UsedPeriodServed` | of `InterviewStart`: types, and `[](PaidPeriodServed /\ QuotaBacked)` with the quota in use |
| | `QuotaIsAccounted`, `NothingIsFree`, `LatestStartServes` | `[]QuotaAccounted`, `[]NothingForFree`, `[]LastStartServes`, for any starts, prices and faults |
| | `PublicProfilesPaid`, `AccountIsDecided` | of `InterviewerAccount`: `[]PublicIsPaidFor`, `[]AccountFollowsDecision`, for any tabs, admins, checkouts and days |
| `RuntimeOwnershipProofs` | `TypesCorrect`, `LeaseExclusive`, `TurnsWithoutGap` | types, `[]OneLease`, `[]NoTurnSkipped`: any number of agents and questions, any lease |
| | `InterviewTypesCorrect`, `SuccessStays`, `NothingIsForgotten` | of `AiInterview`: `[]InterviewTypeOK`, `SuccessKept`, `[]NothingForgotten`, for any questions, retries, faults and resets |
| `AuthSessionProofs` | `TypesCorrect`, `SessionIsKept` | types, `[]SessionKept`: any tabs, calls and plans |
| | `CallsGoThrough` | `CallsSurvive` |

The theorems on `InterviewerAccount` stand in `BillingProofs`, as both modules are about one
webhook router, and those on `AiInterview` beside the runtime that conducts the interview. A
proof module extends both, which is why these modules name their specification after
themselves (`AccountSpec`, `InterviewSpec`).

### The arguments

*Bookings.* `TypeOK` is inductive by itself; the guards of `TokenService` give the
lower bound of both balances (`TokenServiceProofs`). `StatusMatchesRoom` is inductive
relative to `TypeOK` and `JoinsExist`, which says that a join between its read and its
commit names a booking that exists. It is needed because `CommitJoin` looks at no
status at all: without it the step could turn a booking that was never created
LIVE. `RoomOutcomeFinal` follows from the status a closed room implies: every action
that writes a status needs a CONFIRMED booking or an open room.

Capacity needs all of these together. `Holders` grows by the handlers that checked
`HasCapacity` under the slot's lock, and could grow by `CommitJoin`, which checks
nothing. But a join turns the room LIVE only from ABSENT or CREATED, so
`StatusMatchesRoom` says that the booking was CONFIRMED or COMPLETED, and thus a
holder already, or was cancelled, and is then no holder. The counting itself (one more
element in a finite set of fewer than `MaxBookings` elements) is `FitsKeepsCapacity`, on
the library's theorems on finite sets. The inductive invariant is `IInv`.

That the bookings *implement* `SlotCapacity` is more than the invariant: each step is a
`Take` (a first place, or another one) or a `GiveUp` of the abstract module, or changes
nothing it sees. A step that
takes a place does so where `HasCapacity` holds; what remains to be known is that a booking
never cancelled is not marked as cancelled (`Uncancelled`) and that a pending request names a
slot. The latter is `MovesInv`, the invariant of `MovesStay`: a request that was read
speaks of a booking that exists and of a slot of the same interviewer. Neither changes
between the read and the commit, whatever else does.

`PaymentInv` is what a stale copy may be trusted with. A deadline is written once, when the
room ends, with the promise to settle; whoever holds one, however old the copy, speaks of a
room both sides entered and of the deadline there still is (`StaleCopies`). The payment
checks the ledger again, so SESSION_EARN is written once. `RoomlessSettledOnce`
follows because without a room nothing but a cancellation or a completion, both of a
CONFIRMED booking, can settle.

`WalletsMatchLedger` is inductive with `AbsentIsBlank`: a step writes the rows of one booking
and the wallets of its two parties, so each sum changes by that booking's term. The sums are
the library's `SumFunction`, a fold with a `CHOOSE`; `TokenServiceProofs` proves what is needed
of it (`SumRemove`, `SumUpdate`, `SumAgrees`) by an induction over finite subsets
(`SubsetInduction`), stated for a set of subsets so that no operator is passed.

*Presence.* `CountedAsSeen` is inductive with `TypeOK` and `RowInv` (nobody connects in the
future; a row that was never created has seen nobody): the count of an open interval grows
with the clock exactly when the row says "online", and the end of a session or a first
notice turns it into recorded seconds. `SteadyPresenceCounts` needs `SteadyInv`: until the page
is opened there is no request, then its one token request, and after the answer none that
could close the interval the row counts; so the call lies within this interval.

*Payouts and issues.* Types need `ShowsPayout` and `SendsAction` (a screen that shows or
sends something names a payout and an action). Uniqueness is inductive: the only steps that
make a payout or a report active check the unique constraint, on the state they commit
in. `SanctionServed` is not inductive: `Sentenced` adds that an account suspended with an
end has exactly the end of its last sentence, and that a user whom a task has found due has
served it; `BalancesExplained` is, case by case over who moves tokens. `TokensAccountedFor` is
inductive with the types: a request or a session is in one of the sets that are summed or
counted, and moves from one to another with its tokens.

*Billing.* `PaidPeriodServed` needs `Periods`: deletion events tell the truth about Stripe
(`MailTrue`), what is active is what was activated last (`ActiveIsLatest`), and what an
expiry task has read is over unless the subscription was activated while it ran
(`ExpiringEnded`). `QuotaBacked` follows from `Backed`, the same statement for a quota that
has run out too; `TokensExplained` needs the finiteness of the grants to count them, and
`Periods`, as a bundle's event is in the mail only when it was paid.

*Starting interviews.* Nothing of `Billing` reads how much of a quota is left, and a start
writes only this number and the balance; so `Periods` is inductive for `StartSpec` as well,
and so is `Backed`. `Counted` makes `QuotaAccounted` inductive. It says that the free
interviews and the balance agree with the interviews they paid (`FreeCounted`, and `Explained`,
the statement of `TokensExplained` with a sum of prices taken off), and that what is left of
a quota and what its period has paid make up the whole (`PeriodsCounted`). That the quota
of a new period starts with no interview needs that no interview was charged to a stamp that
is still to come; that a payment adds one needs that a start is charged once (`Uncharged`). `NothingForFree` is
inductive with `StartsTrue`, which follows a request: before the charge it has no payment,
after a refused one it will remove its session and can be joined by nobody. `Latest` is about
steps of several requests: a start that is alone and has read the others (`LoneStart`) leaves
nothing active but what it still has in its list, which only shrinks, as no other start or
join is at work; and when it is answered, its session is the one (`Served`).

*Ownership.* `LeaseInv`: a lease that was given and still runs is the one in the row, and so
has one owner, until a save overwrites a row it has not read. `TurnsInv` follows an index
through the row, stale copies of it, and the runtimes: whatever any of them takes as
answered was recorded.

*AI interviews.* Tasks are a bag. Every step of a worker takes one task out and puts at most
one in, every other adds one (`Replaced`, `Added`), and what follows is about the set of
tasks. `SuccessKept` needs `SoleRunner`: as long as the watchdog has been right, at most one
task has the report, the bag holds it once, and the report is PROCESSING exactly then; so the
task that saves its outcome blindly saves it over PROCESSING. `NothingForgotten` says that a
report that is due has a task. The step that could break it is a request that completes a
session it has read long before: it queues no report if a turn was PENDING. `AfterEnd` excludes
that this session was COMPLETED before, then something else, and is completed again: once an
interview is over at most one of the two sides can still write what it has read, and nobody once
anything was done because it was COMPLETED (`Evidence`) and it no longer is. That in turn
needs `BeforeJoin`: before the first join there is no agent to cross with.

*Interviewer accounts.* `PublicIsPaidFor` is inductive with the types of the subscriptions.
`AccountFollowsDecision` speaks of the state after the last request that ran alone, and
needs `Decided`: whoever runs beside another is known to (`OverlapsKnown`), what the first of
the two saves has written while its request runs alone (`FirstRowWritten`), and that an insert
bound to fail was preceded by another request's first row (`InsertsFollow`).

*Sign-in.* `Session` says that tokens are numbered below `tokens`; that a token an answer
brings is nowhere else and not dead (`Fresh`); that, before a crossing, no answer deletes
the refresh token (`Whole`); that a rotation under way belongs to a tab that waits for it
(`InFlight`). The last is what makes the one step that kills the jar's token, the rotation,
leave its successor on the way to somebody who will hear it.

`CallsSurvive` needs `Survival`: until something crosses or the user signs out, every refresh
carries a token and is granted, and only an expired token is refused. So a call that fails
had its repetition refused.

Only model-checked: liveness (`LiveRoomEnds` and the other `~>`: fairness and ENABLED are out
of the prover's reach). Every invariant and every action property of the runs is proved,
those of `AiInterview` and `InterviewerAccount` included.

The proof of `EndedStatus` failed at first for a good reason: `Ended` was written as a CASE whose
first two arms overlapped, which TLC resolves by their order and TLA+ does not. It is an IF now.

## 5. Limits of the model

* `PaidIsFinal` speaks of the settlement, the evaluation and the cleanup job. An
  administrator's `FULL_REFUND` (`issues/services.py:322-364`) rightly turns a paid
  booking into a refunded one; it is an action of `SessionIssues`, with one session.
* Each module has one user's wallets, or one session's. That bookings, payouts and refunds
  share them is modelled by actions of each other's kind, not by one module of everything.
* Row locks of wallets are not state. Two transfers in opposite directions can deadlock
  (`bookings/views.py:458` against `session_payment_service.py:206`); the database aborts
  one, and an aborted transfer changes nothing.
* `Billing` and `InterviewStart` have one candidate. `InterviewStart` follows a session by
  three statuses, and its joins and ends come from the page its start was answered to; an
  interview that is refreshed or ended from a copy older than that is in `AiInterview`, with
  one session. `AiInterview` has one agent
  at a time, `RuntimeOwnership` several; what is said and heard is left out of both.
* `AuthSession` has one role. `auth_role` is a single key for three roles, so signing in as
  another role in a second tab changes whose refresh endpoint the first one calls; and
  refresh tokens do not expire on their own (14 days).
* `InterviewerRescheduleBookingView` has the same URL as the candidate's view and is
  registered after it, so it cannot be reached; it is not modelled. The
  grace-period check of `session_service.py` is commented out at its call.
* Whether the video call itself is up is not known to the server and not modelled:
  "present" in `RoomPresence` means that the page is in the call.
* `RoomPresence` takes a booking that is neither cancelled nor moved while its room is
  open; those steps are in `BookingLifecycle`.
* The two limits on moves differ: only a new request compares `reschedule_count` with
  `RESCHEDULE_LIMIT`; direct moves and acceptances count without looking
  (`bookings/views.py:780`, `bookings/views_interviewer.py:511`). The model does the same.
* Hours of a slot never change; publishing slots is an initial condition.

## 6. Plan

1. `AiInterview` composed with `RuntimeOwnership`: several agents with one session, so that
   two reports of a turn and a stolen lease meet the end of the interview.
2. `SuccessKept` and `NothingForgotten` for that composition; the invariants are those of
   section 4 with one request per agent.
