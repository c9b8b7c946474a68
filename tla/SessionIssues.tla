---------------------------- MODULE SessionIssues ----------------------------
(***************************************************************************)
(* Issues about one completed session: both parties report, admins close   *)
(* the reports, move tokens, suspend and ban, while the session's own      *)
(* settlement and the tasks that lift suspensions go on.                   *)
(*                                                                         *)
(* Reports differ by their raiser only; types, texts, priorities, warnings *)
(* and NO_ACTION (which only log) are left out.                            *)
(***************************************************************************)
EXTENDS TokenService, Integers, FiniteSets

CONSTANTS
    None,
    candidate, interviewer,
    Admins,
    Issues,         \* reports sent by the two parties
    Raiser,         \* who sends which
    Cost,           \* token_cost of the session
    InitialBalance, \* of either wallet; the candidate has Cost more locked
    Suspension,     \* length of a suspension (7 days)
    Horizon,        \* bound: the clock stops here, and the last suspension
    MaxActions      \* bound: admin actions

Users == {candidate, interviewer}

ASSUME IssueAssumption ==
    /\ candidate # interviewer
    /\ Raiser \in [Issues -> Users]
    /\ None \notin Nat /\ None \notin Issues
    /\ Cost \in Nat \ {0} /\ InitialBalance \in Nat
    /\ Suspension \in Nat \ {0} /\ Horizon \in Nat /\ MaxActions \in Nat

VARIABLES
    now,
    wallet,
    payment_status,
    evaluating,   \* an evaluation has read payment_status and not settled yet
    settled,      \* history: what the settlement did with the locked tokens
    issue,        \* of every report: not sent, being created, or its status
    screen,       \* the admins' detail pages
    actions,      \* number of admin actions
    moved,        \* history: tokens admins moved, by direction
    account,      \* is_suspended, suspended_until, is_active
    lifts,        \* scheduled lift_user_suspension tasks
    lifting,      \* users a task found due and has not saved yet
    sentence,     \* history: the latest end an admin set
    overtaken     \* history: users sanctioned while a task was lifting

session == <<wallet, payment_status, evaluating, settled>>
sanctions == <<account, lifts, lifting, sentence, overtaken>>
vars == <<now, session, issue, screen, actions, moved, sanctions>>

Closed == {"RESOLVED", "REJECTED"}
ActiveStatus == {"OPEN", "UNDER_REVIEW", "WAITING_FOR_RESPONSE", "ACTION_TAKEN"}
Status == ActiveStatus \cup Closed

-----------------------------------------------------------------------------
(* Reports *)

ActiveBy(u) == {i \in Issues : Raiser[i] = u /\ issue[i] \in ActiveStatus}

\* can_raise_issue reads; the modal and a second tab may both get this far.
CheckRaise(i) ==
    /\ issue[i] = "unused"
    /\ issue' = [issue EXCEPT ![i] = IF ActiveBy(Raiser[i]) = {} THEN "checked"
                                     ELSE "refused"]
    /\ UNCHANGED <<now, session, screen, actions, moved, sanctions>>

\* Mutant: the table has no constraint.
NoConstraint(i) == TRUE

\* unique_active_issue_per_user_per_booking, for a row that becomes active.
UniqueActive(i) == ActiveBy(Raiser[i]) \subseteq {i}

CommitRaise(i) ==
    /\ issue[i] = "checked"
    /\ issue' = [issue EXCEPT ![i] = IF UniqueActive(i) THEN "OPEN" ELSE "refused"]
    /\ UNCHANGED <<now, session, screen, actions, moved, sanctions>>

-----------------------------------------------------------------------------
(* The admins' detail page *)

Away == [issue |-> None, seen |-> None]

OpenIssue(a, i) ==
    /\ issue[i] \in Status
    /\ screen' = [screen EXCEPT ![a] = [issue |-> i, seen |-> issue[i]]]
    /\ UNCHANGED <<now, session, issue, actions, moved, sanctions>>

\* The panels are shown until the page knows the issue to be closed; after
\* an action has been taken they still are.
Offered(a, i) ==
    /\ screen[a].issue = i /\ screen[a].seen \notin Closed
    /\ actions < MaxActions

\* The answer brings the page up to date, or is lost.
Shown(a, i, status) ==
    /\ actions' = actions + 1
    /\ issue' = [issue EXCEPT ![i] = status]
    /\ \E seen \in {screen[a].seen, status} :
          screen' = [screen EXCEPT ![a].seen = seen]

\* PATCH status/ and POST resolve/: any status, whatever the row's own is.
ChangeStatus(a, i, status) ==
    /\ Offered(a, i) /\ status # screen[a].seen
    /\ status \in ActiveStatus => UniqueActive(i)
    /\ Shown(a, i, status)
    /\ UNCHANGED <<now, session, moved, sanctions>>

TakeAction(a, i) ==
    Offered(a, i) /\ UniqueActive(i) /\ Shown(a, i, "ACTION_TAKEN")

\* Mutant: the debit is saved, the credit is not.
DebitOnly(w, from, to, amount) == [w EXCEPT ![from].balance = @ - amount]

\* debit_tokens and credit_tokens, in one transaction.
MoveTokens(w, from, to, amount) ==
    [w EXCEPT ![from].balance = @ - amount, ![to].balance = @ + amount]

\* FULL_REFUND and PARTIAL_REFUND: bounded by the session's cost each, from
\* the interviewer's spendable tokens, whatever became of the locked ones.
Refund(a, i, amount) ==
    /\ Raiser[i] = candidate
    /\ TakeAction(a, i)
    /\ amount <= wallet[interviewer].balance
    /\ wallet' = MoveTokens(wallet, interviewer, candidate, amount)
    /\ moved' = [moved EXCEPT !.refunded = @ + amount]
    /\ payment_status' = "REFUNDED_TO_CANDIDATE"
    /\ UNCHANGED <<now, evaluating, settled, sanctions>>

CompensateInterviewer(a, i) ==
    /\ Raiser[i] = interviewer
    /\ TakeAction(a, i)
    /\ Cost <= wallet[candidate].balance
    /\ wallet' = MoveTokens(wallet, candidate, interviewer, Cost)
    /\ moved' = [moved EXCEPT !.compensated = @ + Cost]
    /\ UNCHANGED <<now, payment_status, evaluating, settled, sanctions>>

Against(i) == IF Raiser[i] = candidate THEN interviewer ELSE candidate

Sanction(a, i, u) ==
    /\ u = Against(i) /\ TakeAction(a, i)
    /\ overtaken' = overtaken \cup ({u} \cap lifting)
    /\ UNCHANGED <<now, session, moved, lifting>>

\* SUSPEND_*: the end is stored and a task is scheduled for it.
Suspend(a, i, u) ==
    LET until == now + Suspension
    IN  /\ until <= Horizon
        /\ account' = [account EXCEPT ![u].is_suspended = TRUE,
                                      ![u].suspended_until = until]
        /\ lifts' = lifts \cup {[user |-> u, eta |-> until]}
        /\ sentence' = [sentence EXCEPT ![u] = until]
        /\ Sanction(a, i, u)

\* BAN_*
Ban(a, i, u) ==
    /\ account' = [account EXCEPT ![u] = [is_suspended |-> TRUE,
                                          suspended_until |-> None,
                                          is_active |-> FALSE]]
    /\ sentence' = [sentence EXCEPT ![u] = Horizon + 1]
    /\ UNCHANGED lifts
    /\ Sanction(a, i, u)

-----------------------------------------------------------------------------
(* lift_user_suspension *)

\* Mutants: the task trusts its schedule; the end itself is not yet the end.
Suspended(u) == account[u].is_suspended
EndPassed(u) == /\ account[u].is_suspended /\ account[u].suspended_until # None
                /\ account[u].suspended_until < now

Due(u) == /\ account[u].is_suspended /\ account[u].suspended_until # None
          /\ account[u].suspended_until <= now

\* The row is read without a lock; the broker may deliver the task again.
ReadLift(l) ==
    /\ l \in lifts /\ l.eta <= now /\ l.user \notin lifting
    /\ lifting' = IF Due(l.user) THEN lifting \cup {l.user} ELSE lifting
    /\ lifts' \in {lifts, lifts \ {l}}
    /\ UNCHANGED <<now, session, issue, screen, actions, moved, account, sentence,
                   overtaken>>

\* save(update_fields) leaves is_active alone and overwrites the rest.
SaveLift(u) ==
    /\ u \in lifting
    /\ lifting' = lifting \ {u}
    /\ account' = [account EXCEPT ![u].is_suspended = FALSE,
                                  ![u].suspended_until = None]
    /\ UNCHANGED <<now, session, issue, screen, actions, moved, lifts, sentence,
                   overtaken>>

-----------------------------------------------------------------------------
(* The session's settlement (in full in BookingLifecycle) *)

ReadEvaluation ==
    /\ payment_status = "AWAITING_EVALUATION" /\ ~evaluating
    /\ evaluating' = TRUE
    /\ UNCHANGED <<now, wallet, payment_status, settled, issue, screen, actions, moved,
                   sanctions>>

\* settle_after_evaluation trusts the booking that was read before.
PayInterviewer ==
    /\ evaluating
    /\ evaluating' = FALSE
    /\ \/ /\ CanTakeLocked(wallet, candidate, Cost)
          /\ wallet' = TransferLockedTokens(wallet, candidate, interviewer, Cost)
          /\ payment_status' = "PAID_TO_INTERVIEWER"
          /\ settled' = settled \cup {"paid"}
       \/ /\ ~CanTakeLocked(wallet, candidate, Cost)
          /\ UNCHANGED <<wallet, payment_status, settled>>
    /\ UNCHANGED <<now, issue, screen, actions, moved, sanctions>>

Awaiting == payment_status = "AWAITING_EVALUATION"

\* refund_expired_deadlines locks the row it looks at.
RefundExpired ==
    /\ Awaiting /\ CanTakeLocked(wallet, candidate, Cost)
    /\ wallet' = UnlockTokens(wallet, candidate, Cost)
    /\ payment_status' = "REFUNDED_TO_CANDIDATE"
    /\ settled' = settled \cup {"refunded"}
    /\ UNCHANGED <<now, evaluating, issue, screen, actions, moved, sanctions>>

-----------------------------------------------------------------------------
(* Specification *)

Tick ==
    /\ now < Horizon
    /\ now' = now + 1
    /\ UNCHANGED <<session, issue, screen, actions, moved, sanctions>>

Init ==
    /\ now = 0
    /\ wallet = [u \in Users |-> [balance |-> InitialBalance,
                                  locked_balance |-> IF u = candidate THEN Cost ELSE 0]]
    /\ payment_status = "AWAITING_EVALUATION"
    /\ evaluating = FALSE /\ settled = {}
    /\ issue = [i \in Issues |-> "unused"]
    /\ screen = [a \in Admins |-> Away]
    /\ actions = 0
    /\ moved = [refunded |-> 0, compensated |-> 0]
    /\ account = [u \in Users |-> [is_suspended |-> FALSE, suspended_until |-> None,
                                   is_active |-> TRUE]]
    /\ lifts = {} /\ lifting = {}
    /\ sentence = [u \in Users |-> 0]
    /\ overtaken = {}

Report(i) == CheckRaise(i) \/ CommitRaise(i)
Admin(a, i) ==
    \/ OpenIssue(a, i)
    \/ \E status \in Status : ChangeStatus(a, i, status)
    \/ \E amount \in 1..Cost : Refund(a, i, amount)
    \/ CompensateInterviewer(a, i)
    \/ \E u \in Users : Suspend(a, i, u) \/ Ban(a, i, u)
Lift(u) == (\E l \in lifts : l.user = u /\ ReadLift(l)) \/ SaveLift(u)
Settlement == ReadEvaluation \/ PayInterviewer \/ RefundExpired

Next == \/ \E i \in Issues : Report(i)
        \/ \E a \in Admins, i \in Issues : Admin(a, i)
        \/ \E u \in Users : Lift(u)
        \/ Settlement
        \/ Tick

Spec == Init /\ [][Next]_vars

\* Time passes, and scheduled tasks are run.
FairSpec == Spec /\ WF_vars(Tick) /\ \A u \in Users : WF_vars(Lift(u))

-----------------------------------------------------------------------------
(* Correctness *)

TypeOK ==
    /\ now \in Nat
    /\ wallet \in [Users -> Wallet]
    /\ payment_status \in {"AWAITING_EVALUATION", "PAID_TO_INTERVIEWER",
                           "REFUNDED_TO_CANDIDATE"}
    /\ evaluating \in BOOLEAN /\ settled \subseteq {"paid", "refunded"}
    /\ issue \in [Issues -> {"unused", "checked", "refused"} \cup Status]
    /\ screen \in [Admins -> [issue : Issues \cup {None}, seen : Status \cup {None}]]
    /\ actions \in Nat
    /\ moved \in [refunded : Nat, compensated : Nat]
    /\ account \in [Users -> [is_suspended : BOOLEAN, suspended_until : Nat \cup {None},
                              is_active : BOOLEAN]]
    /\ lifts \subseteq [user : Users, eta : Nat] /\ lifting \subseteq Users
    /\ sentence \in [Users -> Nat] /\ overtaken \subseteq Users

\* Two tabs of a reporter, and admins who reopen a report that was closed
\* and reported again, never make two active reports of one person.
OneActiveIssue ==
    \A i, j \in Issues :
        /\ Raiser[i] = Raiser[j]
        /\ issue[i] \in ActiveStatus /\ issue[j] \in ActiveStatus
        => i = j

\* Both balances are explained by one settlement of the locked tokens and
\* the tokens admins moved: no crossing of the two settles twice, and none
\* loses what an admin moved.
BalancesExplained ==
    LET earned == IF "paid" \in settled THEN Cost ELSE 0
        unlocked == IF "refunded" \in settled THEN Cost ELSE 0
    IN  /\ settled # {"paid", "refunded"}
        /\ wallet[candidate].locked_balance = IF settled = {} THEN Cost ELSE 0
        /\ wallet[interviewer].balance
             = InitialBalance + earned - moved.refunded + moved.compensated
        /\ wallet[candidate].balance
             = InitialBalance + unlocked + moved.refunded - moved.compensated

\* A suspension lasts until the end the last admin gave it, however many
\* tasks of earlier suspensions are due or delivered again; only a task that
\* read the account before the new sanction can cut it short.
SanctionServed ==
    \A u \in Users \ overtaken : now < sentence[u] => account[u].is_suspended

\* A suspension with an end does end.
SuspensionEnds ==
    \A u \in Users :
        account[u].is_suspended /\ account[u].suspended_until # None
            ~> ~account[u].is_suspended \/ ~account[u].is_active

=============================================================================
